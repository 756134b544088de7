-------------------------- MODULE ResourceLifecycle --------------------------
(***************************************************************************)
(* One managed resource from plan to destroy: the CRUD handlers of the     *)
(* provider, run step by step as programs of ResourcePrograms.tla, between *)
(* a Coolify server whose answers get lost and a Terraform core that keeps *)
(* what a handler returns, taints what Create saved before it failed, and  *)
(* is run again by its user.                                               *)
(*                                                                         *)
(* An attribute value is either accepted by POST ("basic") or only by a    *)
(* PATCH ("extended"). A call ends in one of three ways: answered, refused *)
(* with nothing done, or lost: done, but the handler sees an error (every  *)
(* retry of a PATCH timed out, an unexpected 2xx, an undecodable body).    *)
(***************************************************************************)
EXTENDS Integers, Sequences

CONSTANTS
    Programs,     \* the handlers of the resource, one record per kind
    Ids,          \* UUIDs the server may give out
    Basics,       \* values of the attributes POST accepts
    Extendeds,    \* values of the attributes only PATCH accepts
    Default,      \* what the server puts in the extended ones by itself
    None,         \* no object, no state, nothing configured
    MaxFaults,    \* bound: calls refused or lost
    MaxEdits,     \* bound: changes of the configuration
    MaxOutside    \* bound: changes made past Terraform

Handlers == {"create", "read", "update", "delete"}
Patches == {"patch", "amend", "put", "replace"}
Extends == {"extend", "recover", "settle"}
Answers == {"settle", "amend", "replace"}   \* steps that save what they are answered
CreateSteps == {"post", "save", "get", "look"} \cup Extends
ReadSteps == {"find", "save"}
UpdateSteps == {"save", "get", "look", "restart"} \cup Patches
DeleteSteps == {"delete", "retry", "poll"}

\* Until the first save nothing may end a Create that has its UUID.
SavesSoon(create) ==
    \E k \in 2..Len(create) :
        /\ create[k] = "save"
        /\ \A j \in 2..(k - 1) : create[j] = "look"

ASSUME ProgramsAssumption ==
    /\ Programs \subseteq [create : Seq(CreateSteps), read : Seq(ReadSteps),
                           update : Seq(UpdateSteps), delete : Seq(DeleteSteps)]
    /\ \A p \in Programs :
        /\ \A k \in 1..Len(p.create) : (k = 1) <=> (p.create[k] = "post")
        /\ SavesSoon(p.create)
        /\ \E k \in 1..Len(p.delete) : p.delete[k] \in {"delete", "retry"}

\* What makes a success one: every handler ends with a save, Read looks
\* first and Update sends first, and what Create reads back before it sends
\* the rest is replaced by the answer.
ASSUME ShapesAssumption ==
    \A p \in Programs :
        /\ p.read # <<>> /\ p.read[1] = "find" /\ p.read[Len(p.read)] = "save"
        /\ p.update # <<>> /\ p.update[1] \in Patches /\ p.update[Len(p.update)] = "save"
        /\ p.create[Len(p.create)] = "save"
        /\ \A j, k \in 1..Len(p.create) :
            j < k /\ p.create[j] \in {"get", "look"} /\ p.create[k] \in Extends => p.create[k] = "settle"

Values == [basic : Basics, extended : Extendeds]
States == [id : Ids, val : Values, tainted : BOOLEAN]
Saved == [id : Ids, val : Values]
Objects == [val : Values, deleting : BOOLEAN, stale : BOOLEAN]

ASSUME ValuesAssumption ==
    /\ Default \in Extendeds
    /\ None \notin Ids \cup Values \cup States \cup Saved \cup Objects

ASSUME BoundsAssumption ==
    MaxFaults \in Nat /\ MaxEdits \in Nat /\ MaxOutside \in Nat

VARIABLES
    program,   \* the kind of this resource
    config,    \* what the configuration asks for, None when it is not there
    state,     \* Terraform's state of it
    doing,     \* the handler that runs, or what Terraform does between two
    pc,        \* the handler's next step
    id,        \* the UUID it works on
    view,      \* the model it would save
    resp,      \* the state it has saved in its response
    outcome,   \* how the last apply ended
    warned,    \* a restart has failed with a warning
    objects,   \* the server's objects
    known,     \* history: objects whose POST was answered
    touched,   \* history: the object changed behind this apply
    faults, edits, outsiders

core == <<config, state, outcome>>
handler == <<doing, pc, id, view, resp>>
server == <<objects, known>>
bounds == <<faults, edits, outsiders>>
vars == <<program, core, handler, warned, server, touched, bounds>>

Init ==
    /\ program \in Programs
    /\ config \in Values
    /\ state = None /\ outcome = "none" /\ warned = FALSE
    /\ doing = "idle" /\ pc = 1 /\ id = None /\ view = config /\ resp = None
    /\ objects = [i \in Ids |-> None] /\ known = {}
    /\ touched = FALSE
    /\ faults = 0 /\ edits = 0 /\ outsiders = 0

(***************************************************************************)
(* Terraform core.                                                         *)
(***************************************************************************)

\* A handler starts on what the state holds, or on nothing.
Start(h) ==
    /\ doing' = h
    /\ pc' = 1
    /\ id' = IF state = None THEN None ELSE state.id
    /\ resp' = IF state = None THEN None ELSE [id |-> state.id, val |-> state.val]
    /\ view' = IF h \in {"create", "update"} THEN config ELSE state.val
    /\ UNCHANGED <<program, config, state, warned, server, bounds>>

\* Every apply begins with a refresh.
Refresh ==
    /\ doing = "idle" /\ state # None
    /\ Start("read")
    /\ touched' = FALSE /\ outcome' = "none"

NothingToRefresh ==
    /\ doing = "idle" /\ state = None
    /\ doing' = "planned" /\ touched' = FALSE /\ outcome' = "none"
    /\ UNCHANGED <<program, config, state, pc, id, view, resp, warned, server, bounds>>

Create ==
    /\ doing = "planned" /\ state = None /\ config # None
    /\ Start("create")
    /\ UNCHANGED <<touched, outcome>>

Update ==
    /\ doing = "planned" /\ state # None /\ config # None
    /\ ~state.tainted /\ state.val # config
    /\ Start("update")
    /\ UNCHANGED <<touched, outcome>>

\* What is no longer configured is destroyed, and so is what is tainted,
\* which is then created again.
Destroy ==
    /\ doing = "planned" /\ state # None
    /\ config = None \/ state.tainted
    /\ Start("delete")
    /\ UNCHANGED <<touched, outcome>>

NoChanges ==
    /\ doing = "planned"
    /\ IF state = None THEN config = None ELSE ~state.tainted /\ state.val = config
    /\ doing' = "idle" /\ outcome' = "ok"
    /\ UNCHANGED <<program, config, state, pc, id, view, resp, warned, server, touched, bounds>>

\* The user edits the configuration between two applies.
Edit ==
    /\ doing = "idle" /\ edits < MaxEdits
    /\ \E c \in Values \cup {None} : c # config /\ config' = c
    /\ edits' = edits + 1 /\ outcome' = "none"
    /\ UNCHANGED <<program, state, handler, warned, server, touched, faults, outsiders>>

(***************************************************************************)
(* How a handler moves and returns.                                        *)
(***************************************************************************)
At(steps) ==
    /\ doing \in Handlers
    /\ pc \in 1..Len(program[doing])
    /\ program[doing][pc] \in steps

Advance == pc' = pc + 1 /\ UNCHANGED <<program, core, doing, warned, edits, outsiders>>

Kept(r, tainted) == IF r = None THEN None ELSE [id |-> r.id, val |-> r.val, tainted |-> tainted]

\* An error keeps the response's state: of Create as a tainted resource, of
\* Update as it was or was saved. Read and Delete leave the state alone.
ReturnError(r) ==
    /\ state' = IF doing \in {"create", "update"} THEN Kept(r, doing = "create") ELSE state
    /\ doing' = "idle" /\ outcome' = "error"
    /\ UNCHANGED <<program, config, pc, id, view, resp, warned, edits, outsiders>>

Return ==
    /\ doing \in Handlers /\ pc = Len(program[doing]) + 1
    /\ state' = IF doing = "delete" THEN None ELSE Kept(resp, doing = "read" /\ state.tainted)
    /\ doing' = IF doing = "read" \/ (doing = "delete" /\ config # None) THEN "planned" ELSE "idle"
    /\ outcome' = IF doing' = "idle" THEN "ok" ELSE outcome
    /\ UNCHANGED <<program, config, pc, id, view, resp, warned, server, touched, bounds>>

Fault == faults < MaxFaults /\ faults' = faults + 1

\* A call is refused, or a read fails: nothing happened.
Refused(steps) ==
    /\ At(steps) /\ Fault /\ ReturnError(resp)
    /\ UNCHANGED <<server, touched>>

Exists(i) == i # None /\ objects[i] # None

(***************************************************************************)
(* The steps.                                                              *)
(***************************************************************************)

\* A broken variant: only the last save of a handler reaches the response.
SaveAtTheEnd ==
    /\ At({"save"})
    /\ resp' = IF pc = Len(program[doing]) THEN [id |-> id, val |-> view] ELSE resp
    /\ Advance
    /\ UNCHANGED <<id, view, server, touched, faults>>

Save ==
    /\ At({"save"})
    /\ resp' = [id |-> id, val |-> view]
    /\ Advance
    /\ UNCHANGED <<id, view, server, touched, faults>>

\* POST leaves to a later PATCH what it does not accept.
Posted ==
    IF \E k \in 1..Len(program.create) : program.create[k] \in Extends
    THEN [config EXCEPT !.extended = Default]
    ELSE config

Fresh(i) == objects[i] = None

NewObject(i) ==
    objects' = [objects EXCEPT ![i] = [val |-> Posted, deleting |-> FALSE, stale |-> FALSE]]

\* A broken variant: an answer without a UUID passes for a success.
PostWithoutUUID ==
    /\ At({"post"})
    /\ \E i \in Ids : Fresh(i) /\ NewObject(i) /\ id' \in {None, i} /\ known' = known \cup {i}
    /\ Advance
    /\ UNCHANGED <<view, resp, touched, faults>>

Post ==
    /\ At({"post"})
    /\ \E i \in Ids : Fresh(i) /\ NewObject(i) /\ id' = i /\ known' = known \cup {i}
    /\ Advance
    /\ UNCHANGED <<view, resp, touched, faults>>

PostLost ==
    /\ At({"post"}) /\ Fault
    /\ \E i \in Ids : Fresh(i) /\ NewObject(i)
    /\ ReturnError(resp)
    /\ UNCHANGED <<known, touched>>

Get ==
    /\ At({"get"}) /\ Exists(id)
    /\ view' = objects[id].val
    /\ Advance
    /\ UNCHANGED <<id, resp, server, touched, faults>>

GetMissing ==
    /\ At({"get"}) /\ ~Exists(id)
    /\ ReturnError(resp)
    /\ UNCHANGED <<server, touched, faults>>

Look ==
    /\ At({"look"})
    /\ view' = IF Exists(id) THEN objects[id].val ELSE view
    /\ Advance
    /\ UNCHANGED <<id, resp, server, touched, faults>>

LookFails ==
    /\ At({"look"}) /\ Fault
    /\ Advance
    /\ UNCHANGED <<id, view, resp, server, touched>>

Find ==
    /\ At({"find"}) /\ Exists(id)
    /\ view' = objects[id].val
    /\ Advance
    /\ UNCHANGED <<id, resp, server, touched, faults>>

\* A broken variant: Read takes a missing object for a failure.
FindMissingFails ==
    /\ At({"find"}) /\ ~Exists(id)
    /\ ReturnError(resp)
    /\ UNCHANGED <<server, touched, faults>>

\* RemoveResource, and the handler returns.
FindMissing ==
    /\ At({"find"}) /\ ~Exists(id)
    /\ state' = None /\ doing' = "planned"
    /\ UNCHANGED <<program, config, outcome, pc, id, view, resp, warned, server, touched, bounds>>

\* A broken variant: any failure of the read is taken for a missing object.
FindFailsAsMissing ==
    /\ At({"find"}) /\ Fault
    /\ state' = None /\ doing' = "planned"
    /\ UNCHANGED <<program, config, outcome, pc, id, view, resp, warned, server, touched, edits, outsiders>>

FindFails == Refused({"find"})

\* A broken variant: the update compares and sends only some attributes.
PatchedInPart(val) ==
    [val EXCEPT !.basic = IF config.basic # state.val.basic THEN config.basic ELSE val.basic]

\* What a PATCH makes of the object's attributes.
Patched(val) ==
    IF program[doing][pc] \in {"put", "replace"}
    THEN config
    ELSE [basic |-> IF config.basic # state.val.basic THEN config.basic ELSE val.basic,
          extended |-> IF config.extended # state.val.extended THEN config.extended ELSE val.extended]

Extended(val) == [val EXCEPT !.extended = config.extended]

\* The object after the PATCH; an update leaves its containers as they run.
Written(o) ==
    IF doing = "update"
    THEN [o EXCEPT !.val = Patched(o.val), !.stale = @ \/ Patched(o.val) # o.val]
    ELSE [o EXCEPT !.val = Extended(o.val)]

\* Create sends its PATCH only when the plan needs it.
ToSend == At(Patches) \/ (At(Extends) /\ config.extended # Default)

Write ==
    /\ ToSend /\ Exists(id)
    /\ objects' = [objects EXCEPT ![id] = Written(@)]
    /\ view' = IF At(Answers) THEN Written(objects[id]).val ELSE view
    /\ Advance
    /\ UNCHANGED <<id, resp, known, touched, faults>>

NothingToSend ==
    /\ At(Extends) /\ config.extended = Default
    /\ Advance
    /\ UNCHANGED <<id, view, resp, server, touched, faults>>

\* A failed write returns what was saved, except that a database's Create
\* reads the object once more and saves that.
WriteError(objs) ==
    \/ ReturnError(resp)
    \/ /\ At({"recover"}) /\ objs[id] # None
       /\ ReturnError([id |-> id, val |-> objs[id].val])

WriteLost ==
    /\ ToSend /\ Exists(id) /\ Fault
    /\ objects' = [objects EXCEPT ![id] = Written(@)]
    /\ WriteError(objects')
    /\ UNCHANGED <<known, touched>>

WriteRefused ==
    /\ ToSend /\ Fault
    /\ WriteError(objects)
    /\ UNCHANGED <<server, touched>>

WriteMissing ==
    /\ ToSend /\ ~Exists(id)
    /\ ReturnError(resp)
    /\ UNCHANGED <<server, touched, faults>>

Restart ==
    /\ At({"restart"}) /\ Exists(id)
    /\ objects' = [objects EXCEPT ![id].stale = FALSE]
    /\ pc' = pc + 1 /\ warned' = FALSE
    /\ UNCHANGED <<program, core, doing, id, view, resp, known, touched, bounds>>

RestartFails ==
    /\ At({"restart"})
    /\ (~Exists(id) /\ UNCHANGED faults) \/ Fault
    /\ pc' = pc + 1 /\ warned' = TRUE
    /\ UNCHANGED <<program, core, doing, id, view, resp, server, touched, edits, outsiders>>

\* The server accepts a DELETE at once and removes the object in a job; a
\* 404 ends the handler at once, as the first GET of the poll would.
Delete ==
    /\ At({"delete", "retry"})
    /\ IF Exists(id)
       THEN objects' = [objects EXCEPT ![id].deleting = TRUE] /\ UNCHANGED known
       ELSE UNCHANGED server
    /\ Advance
    /\ UNCHANGED <<id, view, resp, touched, faults>>

DeleteLost ==
    /\ At({"delete", "retry"}) /\ Exists(id) /\ Fault
    /\ objects' = [objects EXCEPT ![id].deleting = TRUE]
    /\ ReturnError(resp)
    /\ UNCHANGED <<known, touched>>

\* RetryDelete waits and sends the DELETE again.
DeleteInUse ==
    /\ At({"retry"}) /\ Exists(id) /\ Fault
    /\ UNCHANGED <<program, core, handler, warned, server, touched, edits, outsiders>>

PollGone ==
    /\ At({"poll"}) /\ ~Exists(id)
    /\ Advance
    /\ UNCHANGED <<id, view, resp, server, touched, faults>>

\* The deadline passes, or a GET fails: the state is kept.
PollGivesUp == Refused({"poll"})

(***************************************************************************)
(* The server by itself, and those who change it past Terraform.           *)
(***************************************************************************)
Gone(i) == objects' = [objects EXCEPT ![i] = None] /\ known' = known \ {i}

\* The deletion job runs.
Remove(i) ==
    /\ Exists(i) /\ objects[i].deleting
    /\ Gone(i)
    /\ touched' = TRUE
    /\ UNCHANGED <<program, core, handler, warned, bounds>>

OutsideDelete(i) ==
    /\ Exists(i) /\ outsiders < MaxOutside
    /\ Gone(i)
    /\ touched' = TRUE /\ outsiders' = outsiders + 1
    /\ UNCHANGED <<program, core, handler, warned, faults, edits>>

OutsideEdit(i) ==
    /\ Exists(i) /\ outsiders < MaxOutside
    /\ \E v \in Values : v # objects[i].val /\ objects' = [objects EXCEPT ![i].val = v]
    /\ touched' = TRUE /\ outsiders' = outsiders + 1
    /\ UNCHANGED <<program, core, handler, warned, known, faults, edits>>

(***************************************************************************)
(* The specification.                                                      *)
(***************************************************************************)
Plan == Refresh \/ NothingToRefresh \/ Create \/ Update \/ Destroy \/ NoChanges

Read == Get \/ GetMissing \/ Refused({"get"}) \/ Look \/ LookFails \/ Find \/ FindMissing \/ FindFails

Mutate ==
    \/ Post \/ PostLost \/ Refused({"post"})
    \/ Write \/ NothingToSend \/ WriteLost \/ WriteRefused \/ WriteMissing
    \/ Restart \/ RestartFails

Remover ==
    \/ Delete \/ DeleteLost \/ Refused({"delete", "retry"}) \/ DeleteInUse
    \/ PollGone \/ PollGivesUp

Run == Read \/ Mutate \/ Remover \/ Save \/ Return

Next ==
    \/ Plan \/ Edit \/ Run
    \/ \E i \in Ids : Remove(i) \/ OutsideDelete(i) \/ OutsideEdit(i)

Spec == Init /\ [][Next]_vars

\* The user keeps applying, handlers run on, and deletion jobs run.
FairSpec ==
    /\ Spec
    /\ WF_vars(Plan)
    /\ WF_vars(Run)
    /\ \A i \in Ids : WF_vars(Remove(i))

(***************************************************************************)
(* Properties.                                                             *)
(***************************************************************************)

\* Type correctness of the state Terraform keeps, of the handler's frame and
\* of the server's objects.
TypeOK ==
    /\ program \in Programs
    /\ config \in Values \cup {None}
    /\ state \in States \cup {None}
    /\ doing \in Handlers \cup {"idle", "planned"}
    /\ pc \in Nat
    /\ id \in Ids \cup {None}
    /\ view \in Values
    /\ resp \in Saved \cup {None}
    /\ outcome \in {"none", "ok", "error"}
    /\ warned \in BOOLEAN /\ touched \in BOOLEAN
    /\ objects \in [Ids -> Objects \cup {None}]
    /\ known \subseteq Ids
    /\ faults \in 0..MaxFaults /\ edits \in 0..MaxEdits /\ outsiders \in 0..MaxOutside

\* No orphans: an object whose POST was answered is in Terraform's state, or
\* in the hands of the Create that posted it, until its deletion has begun,
\* whatever fails after the POST ("Save partial state so the resource is
\* tracked even if the read-back fails").
AcknowledgedIsTracked ==
    \A i \in known :
        \/ objects[i].deleting
        \/ state # None /\ state.id = i
        \/ doing = "create" /\ id = i

\* Terraform forgets an object only when the server has none: a resource
\* leaves the state by a 404 in Read, or by a Delete that polled until the
\* object was gone; the deletion of a kind that does not poll has begun.
ForgetsOnlyWhatIsGone ==
    [][state # None /\ state' = None =>
        \/ ~Exists(state.id)
        \/ /\ objects[state.id].deleting
           /\ \A k \in 1..Len(program.delete) : program.delete[k] # "poll"]_vars

\* The object the resource owns: what the state names, or what the running
\* Create was answered. Doomed are the objects whose deletion was accepted.
Owned ==
    IF state # None THEN state.id
    ELSE IF doing = "create" THEN id ELSE None
Doomed == {i \in known : objects[i].deleting}
Polls == \E k \in 1..Len(program.delete) : program.delete[k] = "poll"

Promise == INSTANCE ManagedObject WITH waits <- Polls, owned <- Owned, doomed <- Doomed

\* The handlers keep the promise of ManagedObject through every lost answer,
\* retry and outside change: they adopt only what they created, delete only
\* what they own, and forget it only when a read or a poll found it gone, or
\* when its deletion was accepted and the kind does not poll.
ImplementsManagedObject == Promise!Spec

\* An apply that ends without an error left the object as configured and the
\* state as the object, unless somebody else changed the object meanwhile:
\* partial updates, post-create PATCHes and read-backs add up.
SuccessMeansApplied ==
    outcome = "ok" /\ ~touched =>
        IF config = None
        THEN state = None
        ELSE /\ state # None /\ ~state.tainted /\ state.val = config
             /\ Exists(state.id) /\ objects[state.id].val = config

\* Once calls stop failing, applying again converges: the state and the
\* object are as configured and no acknowledged object is left beside it.
Applied ==
    IF config = None
    THEN state = None /\ known = {}
    ELSE /\ state # None /\ ~state.tainted /\ state.val = config
         /\ Exists(state.id) /\ objects[state.id].val = config
         /\ known \subseteq {state.id}
Converges == <>[]Applied

\* The promise of redeploy_on_update: when an apply reports success, the
\* containers run the configuration of the last update, or a warning has
\* said that they do not (application/common_schema.go: "automatically
\* restarted after a Terraform update that changes any configuration field").
UpdatedIsRestarted ==
    outcome = "ok" /\ config # None /\ ~touched /\ ~warned => ~objects[state.id].stale

\* The claim of RecoverCreateAfterExtendedError: a database whose extended
\* PATCH failed, but whose object was read and saved, is not tainted ("so
\* Terraform does not taint a database that already exists").
RecoveredIsNotTainted ==
    [][At({"recover"}) /\ doing' = "idle" /\ state' # None => ~state'.tainted]_vars
=============================================================================
