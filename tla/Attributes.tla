------------------------------ MODULE Attributes ------------------------------
(***************************************************************************)
(* One attribute of one resource through the life Terraform gives it:      *)
(* planned by its schema, sent by Create and Update, flattened by Create,  *)
(* Update and Read, changed in the configuration, changed past Terraform,  *)
(* imported. Terraform core compares what a handler returns with what was  *)
(* planned, and calls any difference an inconsistent result.               *)
(*                                                                         *)
(* Flows are the rows of the tables: attributes the provider treats alike  *)
(* are one flow. The other attributes of the resource are there only as    *)
(* others: they may have changes of their own, which make Terraform run    *)
(* the handler this attribute goes through too.                            *)
(***************************************************************************)
EXTENDS Codecs, Naturals

CONSTANTS
    Flows,        \* how the provider treats its attributes
    MaxEdits,     \* bound: changes of the configuration
    MaxOutside,   \* bound: changes made past Terraform
    MaxFaults     \* bound: requests refused, or executed and their answers lost

ASSUME FlowsAssumption == Flows \subseteq AllKindsOfFlows

ASSUME AttributeBoundsAssumption == {MaxEdits, MaxOutside, MaxFaults} \subseteq Nat

VARIABLES
    flow,       \* the attribute
    old,        \* this Coolify does not know it: writes are dropped, answers lack it
    hides,      \* the API token may not read secrets
    fill,       \* what Coolify stores when it is not sent
    config,     \* what the configuration says
    state,      \* what Terraform's state says, "none" without the resource
    plan,       \* what Terraform planned
    others,     \* another attribute of the resource changes
    server,     \* what Coolify stores, "none" without the object
    doing,
    tainted,    \* Create did not return what was planned
    outcome,    \* how the last apply ended
    warned,     \* the plan said that this Coolify will not be sent it
    restarted,  \* the last update restarted the application
    applied,    \* history: nothing was edited, changed or imported since it ended well
    imported,   \* history: the state was imported and nothing was applied since
    drifted,    \* history: the object is not what Terraform was last told it is
    edits, outsiders, faults

world == <<flow, old, hides, fill>>
terraform == <<config, state, plan, others, doing, tainted, outcome, warned, restarted>>
history == <<applied, imported, drifted, edits, outsiders, faults>>
vars == <<world, terraform, server, history>>

Configs(f) ==
    CASE f.kind.plan \in {"output", "kept_output"} -> {"null"}
      [] f.kind.plan = "required" -> {"a", "b"}
      [] OTHER -> {"null", "a", "b", "default"} \cup (IF f.kind.text THEN {"empty"} ELSE {})

\* Coolify fills an attribute with the default that the schema, the gate of
\* the late PATCH or the flatten function knows, has something to say where
\* the flatten function counts on an answer, and leaves one empty that
\* Terraform plans to be null when it is not set.
Untouched(f) ==
    IF \/ f.kind.plan \in {"default", "kept_or_default"}
       \/ f.made \in {"present_or_default", "or_default"}
       \/ f.late = "if_nondefault" THEN {"default"}
    ELSE IF f.kind.plan \in {"optional", "default_empty"} THEN {"empty"}
    ELSE {"default"} \cup (IF f.kind.text /\ ~(f.made \in {"if_present", "seed"} /\ ~f.normal) THEN {"empty"} ELSE {})

\* An object that was there before may have been changed before.
Fills(f) == Untouched(f) \cup (IF f.existing THEN {"a"} ELSE {})

Init ==
    /\ flow \in Flows
    /\ old \in (IF flow.gated THEN BOOLEAN ELSE {FALSE})
    /\ hides \in (IF flow.kind.secret THEN BOOLEAN ELSE {FALSE})
    /\ fill \in Fills(flow)
    /\ config \in Configs(flow)
    /\ state = "none" /\ plan = "null" /\ others = FALSE /\ server = (IF flow.deletes THEN "none" ELSE fill)
    /\ doing = "idle" /\ tainted = FALSE /\ outcome = "none"
    /\ warned = FALSE /\ restarted = FALSE
    /\ applied = FALSE /\ imported = FALSE /\ drifted = FALSE
    /\ edits = 0 /\ outsiders = 0 /\ faults = 0

(***************************************************************************)
(* Coolify.                                                                *)
(***************************************************************************)
Stores(sent, before) == IF sent = "omitted" \/ old \/ flow.kind.own THEN before ELSE sent

\* A PUT begins by forgetting what it resets.
Begin(before) == IF flow.reset THEN "default" ELSE before

Answer(stored) == IF old \/ hides \/ flow.kind.own THEN "empty" ELSE stored

Flatten(reading, prior, api, before) ==
    IF old /\ flow.preserved /\ prior \notin Unset THEN prior ELSE Read(reading, prior, api, before)

(***************************************************************************)
(* Terraform core.                                                         *)
(***************************************************************************)

\* What is not configured is planned by its kind. UseStateForUnknown keeps
\* a state that is null too.
Plan(change) ==
    IF config # "null" THEN config
    ELSE CASE flow.kind.plan = "default" -> "default"
           [] flow.kind.plan = "default_empty" -> "empty"
           [] flow.kind.plan = "kept_or_default" -> IF state \in {"none", "null"} THEN "default" ELSE state
           [] flow.kind.plan \in {"kept", "kept_output"} -> IF state # "none" THEN state ELSE "unknown"
           [] flow.kind.plan \in {"computed", "output"} -> IF state # "none" /\ ~change THEN state ELSE "unknown"
           [] flow.kind.plan = "optional" -> "null"
           [] OTHER -> "unknown"

\* Every apply begins with a refresh. Read takes out of the state what it
\* finds gone.
Refresh ==
    /\ doing = "idle" /\ state # "none"
    /\ state' = CASE server # "none" -> Flatten(flow.read, state, Answer(server), state)
                  [] server = "none" /\ flow.unseen -> state
                  [] OTHER -> "none"
    /\ doing' = "refreshed" /\ outcome' = "none" /\ tainted' = (tainted /\ state' # "none")
    /\ UNCHANGED <<world, config, plan, others, warned, restarted, server, history>>

Planning == doing = "refreshed" \/ (doing = "idle" /\ state = "none")

\* A broken variant: every plan is good enough.
RefusesNothing(planned) == FALSE

\* ModifyPlan refuses to plan an update that would leave open what Coolify
\* resets.
Refuses(planned) == flow.demanded /\ state # "none" /\ planned \in Unset

PlanRefused ==
    /\ Planning
    /\ \E change \in BOOLEAN : Refuses(Plan(change))
    /\ doing' = "idle" /\ outcome' = "refused"
    /\ UNCHANGED <<world, config, state, plan, others, tainted, warned, restarted, server, history>>

\* ModifyPlan, or the handler that follows, warns of what is configured and
\* will be withheld.
PlanChanges ==
    /\ Planning
    /\ others' \in BOOLEAN
    /\ plan' = Plan(others') /\ ~Refuses(plan')
    /\ warned' = (old /\ flow.announced /\ config # "null")
    /\ doing' = "planned"
    /\ UNCHANGED <<world, config, state, tainted, outcome, restarted, server, history>>

Changes == plan # state \/ others

\* Terraform core ignores a replacement of what does not change.
Replaces ==
    /\ plan # state
    /\ \/ flow.kind.replace = "always"
       \/ flow.kind.replace = "if_known" /\ state # "null" /\ plan # "unknown"

NoChanges ==
    /\ doing = "planned" /\ state # "none" /\ ~tainted /\ ~Changes
    /\ doing' = "idle" /\ outcome' = "ok" /\ applied' = TRUE /\ imported' = FALSE
    /\ UNCHANGED <<world, config, state, plan, others, tainted, warned, restarted, server,
                   drifted, edits, outsiders, faults>>

\* Terraform core checks the state a handler returns against the plan.
Conclude(returned) ==
    /\ state' = NormalizeUnknown(returned)
    /\ outcome' = IF plan # "unknown" /\ returned # plan THEN "inconsistent"
                  ELSE IF returned = "unknown" THEN "unknown" ELSE "ok"
    /\ applied' = (outcome' = "ok")
    /\ imported' = FALSE
    /\ doing' = "idle"

(***************************************************************************)
(* The handlers.                                                           *)
(***************************************************************************)

\* Attributes that only a PATCH accepts are sent after the POST, all of
\* them as soon as one of them asks for it.
Late(opened) ==
    IF flow.late # "never" /\ (opened \/ Sent(flow.late, plan, "null") # "omitted")
    THEN IfKnown(plan) ELSE "omitted"

Creating == doing = "planned" /\ state = "none"

Created(opened) ==
    LET before == IF server = "none" THEN fill ELSE server IN
    Stores(Late(opened), Stores(Sent(flow.post, plan, "null"), Begin(before)))

Create ==
    /\ Creating
    /\ \E opened \in BOOLEAN : server' = Created(opened)
    /\ LET saved == IF flow.normal THEN NormalizeUnknown(plan) ELSE plan IN
        Conclude(Flatten(flow.made, saved, Answer(server'), "null"))
    /\ tainted' = (outcome' # "ok")
    /\ restarted' = FALSE
    /\ UNCHANGED <<world, config, plan, others, warned, drifted, edits, outsiders, faults>>

\* An unset value and an empty one are no change to redeploy for.
FieldChanged == Always(plan) # Always(state)

Updating == doing = "planned" /\ state # "none" /\ ~tainted /\ Changes /\ ~Replaces

Updated == Stores(Sent(flow.patch, plan, state), Begin(IF server = "none" THEN fill ELSE server))

Update ==
    /\ Updating /\ (server # "none" \/ flow.upserts)
    /\ server' = Updated
    /\ Conclude(Flatten(flow.updated, plan, Answer(server'), state))
    /\ restarted' = (flow.restarts /\ FieldChanged)
    /\ UNCHANGED <<world, config, plan, others, tainted, warned, drifted, edits, outsiders, faults>>

\* Delete removes the object, or switches off a feature of something that
\* stays, or only forgets it.
Destroying ==
    /\ state # "none"
    /\ \/ doing = "refreshed"
       \/ doing = "planned" /\ (tainted \/ Replaces)

Left ==
    IF flow.deletes THEN "none" ELSE IF flow.off THEN Stores("default", server) ELSE server

Forgotten ==
    /\ state' = "none"
    /\ doing' = "idle" /\ outcome' = "ok"
    /\ tainted' = FALSE /\ applied' = FALSE /\ imported' = FALSE /\ drifted' = ~flow.deletes

Destroy ==
    /\ Destroying
    /\ server' = Left /\ Forgotten
    /\ UNCHANGED <<world, config, plan, others, warned, restarted, edits, outsiders, faults>>

\* What could not be switched off is forgotten with a warning.
DestroyWarns ==
    /\ Destroying /\ flow.lenient
    /\ faults < MaxFaults /\ faults' = faults + 1
    /\ server' \in {server, Left}
    /\ Forgotten
    /\ UNCHANGED <<world, config, plan, others, warned, restarted, edits, outsiders>>

\* A handler whose request fails returns an error, and Terraform keeps the
\* state it had.
Failed ==
    /\ doing' = "idle" /\ outcome' = "failed" /\ applied' = FALSE
    /\ drifted' = (drifted \/ server' # server)
    /\ UNCHANGED <<world, config, state, plan, others, tainted, warned, restarted, imported, edits, outsiders>>

\* The request was refused, or it was executed and the answer was lost. A
\* POST whose answer is lost leaves an object nobody knows of: that is
\* ResourceLifecycle's subject.
Fault ==
    /\ faults < MaxFaults /\ faults' = faults + 1
    /\ \/ Creating /\ server' \in {server} \cup (IF flow.existing THEN {Created(FALSE)} ELSE {})
       \/ Updating /\ server # "none" /\ server' \in {server, Updated}
       \/ Destroying /\ ~flow.lenient /\ server' \in {server, Left}
    /\ Failed

\* Nothing is left to update.
UpdateMissing ==
    /\ Updating /\ server = "none" /\ ~flow.upserts
    /\ Failed
    /\ UNCHANGED <<server, faults>>

\* ImportState leaves everything null but what it sets itself, and Read
\* fills in the rest.
Import ==
    /\ doing = "idle" /\ server # "none" /\ flow.import # "never"
    /\ LET blank == CASE flow.import = "id" -> server
                      [] flow.import = "default" -> "default"
                      [] OTHER -> "null" IN
        state' = Flatten(flow.read, blank, Answer(server), blank)
    /\ doing' = "refreshed" /\ outcome' = "none"
    /\ tainted' = FALSE /\ applied' = FALSE /\ imported' = TRUE /\ drifted' = TRUE
    /\ UNCHANGED <<world, config, plan, others, warned, restarted, server, edits, outsiders, faults>>

(***************************************************************************)
(* The user, and everyone else.                                            *)
(***************************************************************************)
Edit ==
    /\ doing = "idle" /\ edits < MaxEdits
    /\ config' \in Configs(flow) \ {config}
    /\ edits' = edits + 1 /\ applied' = FALSE
    /\ UNCHANGED <<world, state, plan, others, doing, tainted, outcome, warned, restarted, server,
                   imported, drifted, outsiders, faults>>

\* What identifies the object does not change.
Outside ==
    /\ flow.import # "id" /\ (doing = "idle" \/ flow.kind.live)
    /\ server # "none" /\ outsiders < MaxOutside
    /\ server' \in ({"a", "b"} \cup Fills(flow)) \ {server}
    /\ outsiders' = outsiders + 1 /\ applied' = FALSE /\ drifted' = TRUE
    /\ UNCHANGED <<world, terraform, imported, edits, faults>>

Vanish ==
    /\ doing = "idle" /\ flow.deletes
    /\ server # "none" /\ outsiders < MaxOutside
    /\ server' = "none"
    /\ outsiders' = outsiders + 1 /\ applied' = FALSE /\ drifted' = TRUE
    /\ UNCHANGED <<world, terraform, imported, edits, faults>>

Terraform ==
    \/ Refresh \/ PlanChanges \/ PlanRefused \/ NoChanges
    \/ Create \/ Update \/ UpdateMissing \/ Destroy \/ DestroyWarns \/ Fault

Next == Terraform \/ Import \/ Edit \/ Outside \/ Vanish

Spec == Init /\ [][Next]_vars

(***************************************************************************)
(* What the properties except.                                             *)
(***************************************************************************)

\* A configured empty string: several requests leave it out, and several
\* answers turn it into null.
Blank == "empty" \in {config, plan}

\* An optional attribute that was taken out of the configuration, where
\* PATCH carries only what the plan knows: Coolify is never told.
Withdrawn ==
    /\ flow.kind.plan = "optional" /\ plan = "null"
    /\ flow.patch \in {"if_known", "if_nonempty", "if_changed"}

\* Set for the first time on an object made without it, where the provider
\* does not read it and a change would replace: taken to be what it has.
TakenOnTrust == flow.kind.replace = "if_known" /\ flow.read = "kept"

\* Read cannot see what Coolify stores: it does not look, or there is
\* nothing in the answer.
BlindAt(f, says, stored) ==
    \/ f.read \in {"kept", "kept_or_null", "kept_or_default", "kept_or_empty", "seed", "seed_or_null"}
    \/ f.read \in {"if_configured", "or_clear"} /\ says = "null"
    \/ f.read = "seed_if_configured" /\ stored = "default"
Blind == BlindAt(flow, state, server) \/ Answer(server) = "empty"

\* Changed behind Terraform's back where Read cannot see it.
Unseen == Blind /\ drifted

(***************************************************************************)
(* Properties.                                                             *)
(***************************************************************************)

\* Every variable keeps to its kind.
TypeOK ==
    /\ flow \in AllKindsOfFlows /\ old \in BOOLEAN /\ hides \in BOOLEAN /\ fill \in Stored
    /\ config \in Known \cup {"null"} /\ state \in Known \cup {"null", "none"} /\ plan \in Planned
    /\ others \in BOOLEAN /\ server \in Stored \cup {"none"}
    /\ doing \in {"idle", "refreshed", "planned"}
    /\ outcome \in {"none", "ok", "inconsistent", "unknown", "refused", "failed"}
    /\ {tainted, warned, restarted, applied, imported, drifted} \subseteq BOOLEAN
    /\ edits \in 0 .. MaxEdits /\ outsiders \in 0 .. MaxOutside /\ faults \in 0 .. MaxFaults

\* What Create and Update return is what Terraform planned, and everything
\* is known by then.
AppliedAsPlanned == outcome \in {"inconsistent", "unknown"} => Blank \/ Withdrawn

\* An apply that ended well leaves nothing to do: the refresh after it and
\* the next plan find no change of this attribute.
AppliedSettles ==
    doing = "planned" /\ state # "none" /\ applied /\ ~others => plan = state \/ Blank \/ Withdrawn

\* After an apply that ended well Coolify holds what the configuration
\* says, whatever was sent by the POST, after it or by a PATCH.
ConfiguredIsServed ==
    applied /\ config # "null" /\ ~flow.kind.own =>
        server = config \/ old \/ Unseen \/ Blank \/ TakenOnTrust

\* Where the state says that nothing is set, nothing is.
RemovalIsHonest ==
    applied /\ state = "null" /\ ~flow.kind.live => server \in Fills(flow) \/ old \/ Unseen \/ Blank \/ Withdrawn

\* A changed attribute does not disturb an unchanged one: an update that
\* plans no change of this attribute leaves it as Coolify has it.
UnchangedIsLeft ==
    [][Update /\ plan = state => server' = server \/ Unseen \/ Blank]_vars

\* What neither the configuration nor the state knows is left as Coolify
\* has it, also by an update that replaces the whole object.
LeftOpenIsLeft ==
    [][Update /\ config = "null" /\ state = "null" /\ plan \in Unset =>
        server' = server \/ server = "none"]_vars

\* A resource that was destroyed does nothing any more: what switches its
\* feature on is off.
DestroyedIsOff ==
    [][Destroy /\ flow.switch => server' \in {"none", "default"}]_vars

\* Importing an object whose configuration says what Coolify holds does not
\* plan to replace it.
ImportKeeps == doing = "planned" /\ imported /\ config = server => ~Replaces \/ Blank

\* What is configured and withheld from an older Coolify was announced by
\* the plan.
WithheldIsAnnounced ==
    doing = "planned" /\ old /\ config # "null" => warned

\* With redeploy_on_update, an update that changes what Coolify stores of
\* an application restarts it.
ChangeRestarts ==
    [][Update /\ flow.redeploys /\ server' # server => restarted' \/ Unseen \/ Blank]_vars
=============================================================================
