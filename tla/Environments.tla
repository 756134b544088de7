------------------------------ MODULE Environments ------------------------------
(***************************************************************************)
(* The coolify_environment resources of one project. An environment is     *)
(* addressed by its name, which its configuration chooses and may change,  *)
(* and Terraform runs the handlers of all resources side by side: a name   *)
(* one resource gives up is a name another one takes.                      *)
(*                                                                         *)
(* A call is answered, refused with nothing done, or lost: done, but the   *)
(* handler sees an error. An apply refreshes every resource before it      *)
(* changes the first one.                                                  *)
(***************************************************************************)
EXTENDS Integers, FiniteSets

CONSTANTS
    Resources,    \* the resources of the configuration
    Ids,          \* UUIDs of environments, those to come included
    Names,        \* names an environment may have
    Production,   \* the name of the one every project is created with
    Descs,        \* descriptions
    Blank,        \* the empty one
    None,         \* no environment, no state, nothing configured
    MaxFaults,    \* bound: calls refused or lost
    MaxEdits      \* bound: changes of the configuration

Configs == [name : Names, desc : Descs \cup {None}]
States == [name : Names, uuid : Ids \cup {None}, desc : Descs, tainted : BOOLEAN]
Envs == [name : Names, desc : Descs]

ASSUME NamesAssumption ==
    /\ Production \in Names
    /\ Blank \in Descs
    /\ Ids # {}

ASSUME NoneAssumption ==
    None \notin Resources \cup Ids \cup Descs \cup Configs \cup States \cup Envs

ASSUME BoundsAssumption == MaxFaults \in Nat /\ MaxEdits \in Nat

VARIABLES
    config,    \* what each resource asks for, None when it is not there
    state,     \* Terraform's state; of a running Create what it has saved
    view,      \* the model a running Create holds
    pc,        \* where each resource is in this apply
    outcome,   \* how it ended
    envs,      \* the project's environments
    owner,     \* history: the resource whose POST of it was answered
    lost,      \* history: the kinds of writes whose answer was lost
    faults, edits

terraform == <<config, state, view, pc, outcome>>
server == <<envs, owner>>
bounds == <<faults, edits>>
vars == <<terraform, server, lost, bounds>>

Init ==
    /\ config \in [Resources -> Configs \cup {None}]
    /\ state = [r \in Resources |-> None]
    /\ view = [r \in Resources |-> None]
    /\ pc = [r \in Resources |-> "idle"]
    /\ outcome = [r \in Resources |-> "none"]
    /\ \E i \in Ids : envs = [j \in Ids |-> IF j = i THEN [name |-> Production, desc |-> Blank] ELSE None]
    /\ owner = [i \in Ids |-> None]
    /\ lost = {}
    /\ faults = 0 /\ edits = 0

Holder(n) == {i \in Ids : envs[i] # None /\ envs[i].name = n}
Fault == faults < MaxFaults /\ faults' = faults + 1

(***************************************************************************)
(* Terraform core.                                                         *)
(***************************************************************************)
Idle == \A r \in Resources : pc[r] = "idle"

\* An apply begins with the refresh of every resource.
Begin ==
    /\ Idle
    /\ pc' = [r \in Resources |-> "read"]
    /\ outcome' = [r \in Resources |-> "none"]
    /\ UNCHANGED <<config, state, view, server, lost, bounds>>

Edit(r) ==
    /\ Idle /\ edits < MaxEdits
    /\ \E c \in Configs \cup {None} : c # config[r] /\ config' = [config EXCEPT ![r] = c]
    /\ edits' = edits + 1
    /\ outcome' = [s \in Resources |-> "none"]
    /\ UNCHANGED <<state, view, pc, server, lost, faults>>

\* r's handler may start: the refresh is over and r has not been applied.
Todo(r) == pc[r] = "todo" /\ \A s \in Resources : pc[s] # "read"

End(r, result) ==
    /\ pc' = [pc EXCEPT ![r] = "idle"]
    /\ outcome' = [outcome EXCEPT ![r] = result]
    /\ UNCHANGED config

\* r's handler returns an error; the response keeps what it has saved.
Fail(r) == End(r, "error") /\ UNCHANGED <<state, view>>

\* A description left out of the configuration keeps its value in the plan.
Planned(r) ==
    [name |-> config[r].name,
     desc |-> IF config[r].desc # None THEN config[r].desc
              ELSE IF state[r] = None THEN Blank ELSE state[r].desc]

Differs(r) == state[r].name # Planned(r).name \/ state[r].desc # Planned(r).desc

NoChanges(r) ==
    /\ Todo(r)
    /\ IF state[r] = None THEN config[r] = None
       ELSE config[r] # None /\ ~state[r].tainted /\ ~Differs(r)
    /\ End(r, "ok")
    /\ UNCHANGED <<state, view, server, lost, bounds>>

(***************************************************************************)
(* Read: GET by the name in the state.                                     *)
(***************************************************************************)

\* Broken variants: the state's description is never refreshed, or an empty
\* one in the answer makes it null.
ShownFromState(desc, prior) == prior
ShownOrNull(desc, prior) == IF desc # Blank THEN desc ELSE None

\* An empty description in the answer leaves the state's as it is.
Shown(desc, prior) == IF desc # Blank THEN desc ELSE prior

Read(r) ==
    /\ pc[r] = "read"
    /\ state' =
        IF state[r] = None THEN state
        ELSE IF Holder(state[r].name) = {} THEN [state EXCEPT ![r] = None]
        ELSE LET i == CHOOSE i \in Holder(state[r].name) : TRUE IN
             [state EXCEPT ![r].uuid = i, ![r].desc = Shown(envs[i].desc, @)]
    /\ pc' = [pc EXCEPT ![r] = "todo"]
    /\ UNCHANGED <<config, view, outcome, server, lost, bounds>>

\* A Read that fails ends the apply before anything is changed.
ReadFails(r) ==
    /\ pc[r] = "read" /\ state[r] # None /\ Fault
    /\ pc' = [s \in Resources |-> "idle"]
    /\ outcome' = [outcome EXCEPT ![r] = "error"]
    /\ UNCHANGED <<config, state, view, server, lost, edits>>

(***************************************************************************)
(* Create: POST the name, save, GET, and PATCH the description.            *)
(***************************************************************************)
Creates(r) == Todo(r) /\ state[r] = None /\ config[r] # None

NewEnvironment(i, r, acknowledged) ==
    /\ envs' = [envs EXCEPT ![i] = [name |-> config[r].name, desc |-> Blank]]
    /\ owner' = [owner EXCEPT ![i] = acknowledged]

\* A broken variant: nothing is saved before the read-back.
PostUnsaved(r) ==
    /\ Creates(r) /\ Holder(config[r].name) = {}
    /\ \E i \in Ids : envs[i] = None /\ NewEnvironment(i, r, r)
    /\ view' = [view EXCEPT ![r] = [name |-> config[r].name, uuid |-> None,
                                    desc |-> Planned(r).desc, tainted |-> TRUE]]
    /\ pc' = [pc EXCEPT ![r] = "get"]
    /\ UNCHANGED <<config, state, outcome, lost, bounds>>

\* The partial save: until Create returns without an error it is tainted.
Post(r) ==
    /\ Creates(r) /\ Holder(config[r].name) = {}
    /\ \E i \in Ids : envs[i] = None /\ NewEnvironment(i, r, r)
    /\ view' = [view EXCEPT ![r] = [name |-> config[r].name, uuid |-> None,
                                    desc |-> Planned(r).desc, tainted |-> TRUE]]
    /\ state' = [state EXCEPT ![r] = view'[r]]
    /\ pc' = [pc EXCEPT ![r] = "get"]
    /\ UNCHANGED <<config, outcome, lost, bounds>>

PostLost(r) ==
    /\ Creates(r) /\ Holder(config[r].name) = {} /\ Fault
    /\ \E i \in Ids : envs[i] = None /\ NewEnvironment(i, r, None)
    /\ lost' = lost \cup {"post"}
    /\ Fail(r)
    /\ UNCHANGED edits

\* A broken variant: what has the name already is taken for the one created.
PostAdopts(r) ==
    /\ Creates(r) /\ Holder(config[r].name) # {}
    /\ view' = [view EXCEPT ![r] = [name |-> config[r].name, uuid |-> None,
                                    desc |-> Planned(r).desc, tainted |-> TRUE]]
    /\ state' = [state EXCEPT ![r] = view'[r]]
    /\ pc' = [pc EXCEPT ![r] = "get"]
    /\ UNCHANGED <<config, outcome, server, lost, bounds>>

\* 409: the project has an environment of this name.
PostConflict(r) ==
    /\ Creates(r) /\ Holder(config[r].name) # {}
    /\ Fail(r)
    /\ UNCHANGED <<server, lost, bounds>>

PostRefused(r) ==
    /\ Creates(r) /\ Fault
    /\ Fail(r)
    /\ UNCHANGED <<server, lost, edits>>

\* Create's last save, and its return.
Created(r, model) ==
    /\ state' = [state EXCEPT ![r] = [model EXCEPT !.tainted = FALSE]]
    /\ view' = [view EXCEPT ![r] = None]
    /\ End(r, "ok")

ReadBack(r, i) == [view[r] EXCEPT !.uuid = i, !.desc = Shown(envs[i].desc, @)]

Get(r) ==
    /\ pc[r] = "get"
    /\ \E i \in Holder(view[r].name) :
        IF ReadBack(r, i).desc = Blank
        THEN Created(r, ReadBack(r, i))
        ELSE /\ view' = [view EXCEPT ![r] = ReadBack(r, i)]
             /\ pc' = [pc EXCEPT ![r] = "describe"]
             /\ UNCHANGED <<config, state, outcome>>
    /\ UNCHANGED <<server, lost, bounds>>

\* Create stops with what it saved; its model is dropped.
Abandon(r) ==
    /\ End(r, "error")
    /\ view' = [view EXCEPT ![r] = None]
    /\ UNCHANGED state

GetFails(r) ==
    /\ pc[r] = "get"
    /\ (Holder(view[r].name) = {} /\ UNCHANGED faults) \/ Fault
    /\ Abandon(r)
    /\ UNCHANGED <<server, lost, edits>>

Describe(r) ==
    /\ pc[r] = "describe"
    /\ \E i \in Holder(view[r].name) : envs' = [envs EXCEPT ![i].desc = view[r].desc]
    /\ Created(r, view[r])
    /\ UNCHANGED <<owner, lost, bounds>>

DescribeLost(r) ==
    /\ pc[r] = "describe" /\ Fault
    /\ \E i \in Holder(view[r].name) : envs' = [envs EXCEPT ![i].desc = view[r].desc]
    /\ lost' = lost \cup {"describe"}
    /\ Abandon(r)
    /\ UNCHANGED <<owner, edits>>

DescribeFails(r) ==
    /\ pc[r] = "describe"
    /\ (Holder(view[r].name) = {} /\ UNCHANGED faults) \/ Fault
    /\ Abandon(r)
    /\ UNCHANGED <<server, lost, edits>>

(***************************************************************************)
(* Update: one PATCH of the name and the description, by the old name.     *)
(***************************************************************************)
Updates(r) ==
    Todo(r) /\ state[r] # None /\ config[r] # None /\ ~state[r].tainted /\ Differs(r)

\* A broken variant: the path takes the name of the plan.
PathNameOfPlan(r) == config[r].name

PathName(r) == state[r].name
Target(r) == Holder(PathName(r))

\* Coolify refuses a name that another environment has.
NameIsFree(r, i) == Holder(config[r].name) \subseteq {i}

Patched(r, i) == envs' = [envs EXCEPT ![i] = Planned(r)] /\ UNCHANGED owner

Update(r) ==
    /\ Updates(r)
    /\ \E i \in Target(r) :
        /\ NameIsFree(r, i) /\ Patched(r, i)
        /\ state' = [state EXCEPT ![r] = [name |-> Planned(r).name, uuid |-> i,
                                          desc |-> Planned(r).desc, tainted |-> FALSE]]
    /\ End(r, "ok")
    /\ UNCHANGED <<view, lost, bounds>>

UpdateLost(r) ==
    /\ Updates(r) /\ Fault
    /\ \E i \in Target(r) : NameIsFree(r, i) /\ Patched(r, i)
    /\ lost' = lost \cup IF state[r].name # config[r].name THEN {"rename"}
                       ELSE IF Planned(r).desc = Blank THEN {"clear"} ELSE {"describe"}
    /\ Fail(r)
    /\ UNCHANGED edits

\* 404 for the old name, 409 for the new one, or a failure.
UpdateFails(r) ==
    /\ Updates(r)
    /\ ((\A i \in Target(r) : ~NameIsFree(r, i)) /\ UNCHANGED faults) \/ Fault
    /\ Fail(r)
    /\ UNCHANGED <<server, lost, edits>>

(***************************************************************************)
(* Delete: DELETE by the name in the state; 404 counts as done.            *)
(***************************************************************************)
Deletes(r) == Todo(r) /\ state[r] # None /\ (config[r] = None \/ state[r].tainted)

Removed(r) ==
    LET gone == Holder(state[r].name) IN
    /\ envs' = [i \in Ids |-> IF i \in gone THEN None ELSE envs[i]]
    /\ owner' = [i \in Ids |-> IF i \in gone THEN None ELSE owner[i]]

\* What is still configured is created again.
Delete(r) ==
    /\ Deletes(r)
    /\ Removed(r)
    /\ state' = [state EXCEPT ![r] = None]
    /\ IF config[r] = None THEN End(r, "ok") ELSE UNCHANGED <<config, pc, outcome>>
    /\ UNCHANGED <<view, lost, bounds>>

DeleteLost(r) ==
    /\ Deletes(r) /\ Holder(state[r].name) # {} /\ Fault
    /\ Removed(r)
    /\ lost' = lost \cup {"delete"}
    /\ Fail(r)
    /\ UNCHANGED edits

DeleteRefused(r) ==
    /\ Deletes(r) /\ Fault
    /\ Fail(r)
    /\ UNCHANGED <<server, lost, edits>>

(***************************************************************************)
(* The specification.                                                      *)
(***************************************************************************)
Handle(r) ==
    \/ Read(r) \/ ReadFails(r) \/ NoChanges(r)
    \/ Post(r) \/ PostLost(r) \/ PostConflict(r) \/ PostRefused(r)
    \/ Get(r) \/ GetFails(r)
    \/ Describe(r) \/ DescribeLost(r) \/ DescribeFails(r)
    \/ Update(r) \/ UpdateLost(r) \/ UpdateFails(r)
    \/ Delete(r) \/ DeleteLost(r) \/ DeleteRefused(r)

Next == Begin \/ \E r \in Resources : Edit(r) \/ Handle(r)

Spec == Init /\ [][Next]_vars

(***************************************************************************)
(* Properties.                                                             *)
(***************************************************************************)

\* Type correctness of Terraform's state, of the handlers' frames and of the
\* project's environments.
TypeOK ==
    /\ config \in [Resources -> Configs \cup {None}]
    /\ state \in [Resources -> States \cup {None}]
    /\ view \in [Resources -> States \cup {None}]
    /\ pc \in [Resources -> {"idle", "read", "todo", "get", "describe"}]
    /\ outcome \in [Resources -> {"none", "ok", "error"}]
    /\ envs \in [Ids -> Envs \cup {None}]
    /\ owner \in [Ids -> Resources \cup {None}]
    /\ lost \subseteq {"post", "describe", "clear", "rename", "delete"}
    /\ faults \in 0..MaxFaults /\ edits \in 0..MaxEdits

\* The name in the state leads to another environment, or to none, only
\* after the answer to a rename or to a deletion was lost.
Astray == lost \cap {"rename", "delete"} # {}

Owned(i) == envs[i] # None /\ owner[i] # None

\* The name is a good enough key: an environment whose POST was answered is
\* found under the name and has the UUID its resource keeps in the state,
\* through renames, refused renames, exchanged names and re-creations.
NameLeadsToOwn ==
    ~Astray => \A i \in Ids : Owned(i) =>
        /\ state[owner[i]] # None
        /\ state[owner[i]].name = envs[i].name
        /\ state[owner[i]].uuid \in {None, i}

\* No two resources manage one environment: what one of them deletes,
\* with every application in it, is not what another one still describes.
NoSharedEnvironment ==
    ~Astray => \A r, s \in Resources :
        r # s /\ state[r] # None /\ state[s] # None => state[r].name # state[s].name

\* An environment is renamed, described or deleted only by the resource
\* that created it: never the project's own "production", nor one that a
\* failed or another Create has left ("Deleting an environment will
\* cascade-delete all applications, databases, and services within it").
OnlyOwnIsTouched ==
    [][~Astray => \A i \in Ids :
        envs[i] # None /\ envs'[i] # envs[i] =>
            /\ owner[i] # None
            /\ \A s \in Resources \ {owner[i]} : state'[s] = state[s] /\ pc'[s] = pc[s]]_vars

\* A rename does not replace the environment: the UUID that applications
\* refer to stays with the resource ("so a later rename does not replace
\* them").
RenameKeepsUUID ==
    [][~Astray => \A r \in Resources :
        state[r] # None /\ state'[r] # None /\ state[r].uuid # None =>
            state'[r].uuid = state[r].uuid]_vars

\* The answer to a PATCH that clears a description was lost.
Cleared == "clear" \in lost

\* An apply that ended without an error left every environment as it is
\* configured, the PATCHes that went unanswered included: the next refresh
\* and plan find what they did, or send them again. The one exception is
\* what Read keeps: the description of the state when the server has none.
\* Once a PATCH that cleared one is lost, configuring a description may
\* pass for applied; configuring none may not.
SuccessMeansApplied ==
    \A r \in Resources : outcome[r] = "ok" /\ Idle /\ ~Astray =>
        IF config[r] = None
        THEN state[r] = None
        ELSE \E i \in Holder(config[r].name) :
                /\ owner[i] = r
                /\ config[r].desc # None /\ (config[r].desc = Blank \/ ~Cleared)
                        => envs[i].desc = config[r].desc
=============================================================================
