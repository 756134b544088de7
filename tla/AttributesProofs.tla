--------------------------- MODULE AttributesProofs ---------------------------
(***************************************************************************)
(* Proofs about Attributes, for every table whose rows keep the contract   *)
(* of AttributeRules and for any number of edits, faults and changes made  *)
(* past Terraform.                                                         *)
(*                                                                         *)
(* The first half asks nothing of a row: types, what a plan stands on      *)
(* (Frame), what Coolify may hold (Contents), what a finished apply has    *)
(* planned (Missing, Applied). The second half takes one rule at a time    *)
(* and shows that what one handler does by it adds up: Settled, Tracking,  *)
(* Served, Admitted, Overlooked and Recognised are the invariants a plan   *)
(* relies on, and each property follows from one or two of them.           *)
(***************************************************************************)
EXTENDS AttributeRules, TLAPS

\* A reading makes a value of values, and a term of terms.
LEMMA ReadTypes ==
    ASSUME NEW r \in Readings, NEW p \in Planned, NEW a \in Stored, NEW o \in Terms
    PROVE  /\ Read(r, p, a, o) \in Planned
           /\ p \in Terms => Read(r, p, a, o) \in Terms
  BY DEF Readings, Read, Planned, Terms, Stored, Known, Unset, Direct, OrNull, FromAPI, OrDefault, IfPresent,
         PreserveEmpty, PresentOrDefault, PresentOrEmpty, IfConfigured, OrClear, SeedIfConfigured, Seed,
         SeedOrNull, DefaultIfUnknown, NormalizeUnknown

\* A request carries a value, or nothing.
LEMMA SentTypes ==
    ASSUME NEW s \in Sendings, NEW p \in Planned, NEW o \in Planned \cup {"none"}
    PROVE  Sent(s, p, o) \in Stored \cup {"omitted"}
  BY DEF Sendings, Sent, Planned, Stored, Known, Unset, IfKnown, IfNonEmpty, Always, IfNonDefault, Filled,
         IfChanged, IfDifferent, ForUpdate

\* A row of the tables is made of the three vocabularies.
LEMMA FlowTypes ==
    ASSUME NEW f \in AllKindsOfFlows
    PROVE  /\ f.kind \in Kinds /\ f.kind.plan \in Plans /\ f.kind.replace \in {"no", "always", "if_known"}
           /\ {f.kind.text, f.kind.secret, f.kind.own, f.kind.live} \subseteq BOOLEAN
           /\ {f.post, f.late, f.patch} \subseteq Sendings
           /\ {f.made, f.updated, f.read} \subseteq Readings
           /\ f.import \in {"id", "default", "null", "never"}
           /\ {f.normal, f.gated, f.announced, f.preserved, f.existing, f.reset, f.demanded, f.redeploys,
               f.restarts, f.deletes, f.off, f.lenient, f.unseen, f.upserts, f.switch} \subseteq BOOLEAN
           /\ Fills(f) \subseteq Stored /\ Configs(f) \subseteq Terms
  <1>1. f.kind \in Kinds BY DEF AllKindsOfFlows
  <1>2. Fills(f) \subseteq Stored BY DEF Fills, Untouched, Stored
  <1>3. Configs(f) \subseteq Terms BY DEF Configs, Terms, Known, Stored
  <1> QED BY <1>1, <1>2, <1>3 DEF AllKindsOfFlows, Kinds

\* Coolify stores values and answers with values.
LEMMA WorldTypes ==
    ASSUME TypeOK, NEW s \in Stored
    PROVE  /\ Answer(s) \in Stored /\ Begin(s) \in Stored
           /\ \A x \in Stored \cup {"omitted"} : Stores(x, s) \in Stored
  BY DEF TypeOK, Answer, Begin, Stores, Stored

\* Flatten returns what a plan or a state may say.
LEMMA FlattenTypes ==
    ASSUME TypeOK, NEW r \in Readings, NEW p \in Planned, NEW a \in Stored, NEW o \in Terms
    PROVE  /\ Flatten(r, p, a, o) \in Planned
           /\ p \in Terms => Flatten(r, p, a, o) \in Terms
           /\ NormalizeUnknown(Flatten(r, p, a, o)) \in Terms
  <1>1. Flatten(r, p, a, o) \in Planned /\ (p \in Terms => Flatten(r, p, a, o) \in Terms)
    BY ReadTypes DEF Flatten
  <1> QED BY <1>1 DEF NormalizeUnknown, Planned, Terms, Unset

\* Every kind plans a value, null or unknown.
LEMMA PlanTypes ==
    ASSUME TypeOK, NEW change \in BOOLEAN
    PROVE  Plan(change) \in Planned
  BY DEF TypeOK, Plan, Planned, Known, Stored, Unset

\* Create, Update and Delete leave a value behind, or nothing.
LEMMA HandlerTypes ==
    ASSUME TypeOK
    PROVE  /\ \A opened \in BOOLEAN : Created(opened) \in Stored
           /\ state # "none" => Updated \in Stored
           /\ Left \in Stored \cup {"none"}
  <1> DEFINE before == IF server = "none" THEN fill ELSE server
  <1>1. before \in Stored BY DEF TypeOK
  <1>2. Begin(before) \in Stored BY <1>1, WorldTypes
  <1>3. flow \in AllKindsOfFlows /\ plan \in Planned BY DEF TypeOK
  <1>f. flow.post \in Sendings /\ flow.late \in Sendings /\ flow.patch \in Sendings BY <1>3, FlowTypes
  <1>4. ASSUME NEW opened \in BOOLEAN PROVE Created(opened) \in Stored
    <2>1. Sent(flow.post, plan, "null") \in Stored \cup {"omitted"} BY <1>f, <1>3, SentTypes DEF Planned, Unset
    <2>2. Late(opened) \in Stored \cup {"omitted"} BY <1>3 DEF Late, IfKnown, Planned, Unset, Known
    <2>3. Stores(Sent(flow.post, plan, "null"), Begin(before)) \in Stored BY <1>2, <2>1, WorldTypes
    <2> QED BY <2>2, <2>3, WorldTypes DEF Created
  <1>5. ASSUME state # "none" PROVE Updated \in Stored
    <2>0. state \in Planned \cup {"none"} BY DEF TypeOK, Planned, Unset
    <2>1. Sent(flow.patch, plan, state) \in Stored \cup {"omitted"} BY <1>f, <1>3, <2>0, SentTypes 
    <2> QED BY <1>2, <2>1, WorldTypes DEF Updated
  <1>6. Left \in Stored \cup {"none"} BY WorldTypes DEF Left, TypeOK, Stores, Stored
  <1> QED BY <1>4, <1>5, <1>6

\* Everything begins with its kind.
LEMMA InitTypes == Init => TypeOK
  <1> SUFFICES ASSUME Init PROVE TypeOK OBVIOUS
  <1>1. flow \in AllKindsOfFlows BY FlowsAssumption DEF Init
  <1>2. fill \in Stored /\ config \in Terms BY <1>1, FlowTypes DEF Init
  <1>3. old \in BOOLEAN /\ hides \in BOOLEAN BY DEF Init
  <1>4. 0 \in 0..MaxEdits /\ 0 \in 0..MaxOutside /\ 0 \in 0..MaxFaults BY AttributeBoundsAssumption
  <1>5. server \in Stored \cup {"none"} BY <1>2 DEF Init
  <1> QED BY <1>1, <1>2, <1>3, <1>4, <1>5 DEF Init, TypeOK, Terms, Planned, Unset

\* What Terraform core makes of the state a handler returned.
LEMMA ConcludeTypes ==
    ASSUME TypeOK, NEW returned \in Planned, Conclude(returned)
    PROVE  /\ state' \in Terms /\ outcome' \in {"ok", "inconsistent", "unknown"}
           /\ applied' \in BOOLEAN /\ imported' \in BOOLEAN /\ doing' = "idle"
  BY DEF Conclude, NormalizeUnknown, Planned, Terms, Unset

\* What Create and Update leave behind.
LEMMA CreateTypes ==
    ASSUME TypeOK, Create
    PROVE  /\ server' \in Stored /\ state' \in Terms /\ outcome' \in {"ok", "inconsistent", "unknown"}
           /\ applied' \in BOOLEAN /\ imported' \in BOOLEAN /\ doing' = "idle"
           /\ tainted' \in BOOLEAN /\ restarted' \in BOOLEAN
  <1>0. plan \in Planned /\ "null" \in Terms /\ flow.made \in Readings
    BY FlowTypes DEF TypeOK, Planned, Unset, Terms
  <1>1. server' \in Stored BY HandlerTypes DEF Create
  <1> DEFINE saved == IF flow.normal THEN NormalizeUnknown(plan) ELSE plan
             returned == Flatten(flow.made, saved, Answer(server'), "null")
  <1>2. saved \in Planned BY <1>0 DEF NormalizeUnknown, Planned, Unset
  <1>3. Answer(server') \in Stored BY <1>1, WorldTypes
  <1>4. returned \in Planned BY <1>0, <1>2, <1>3, FlattenTypes
  <1>5. Conclude(returned) BY DEF Create
  <1> HIDE DEF returned
  <1>6. /\ state' \in Terms /\ outcome' \in {"ok", "inconsistent", "unknown"}
        /\ applied' \in BOOLEAN /\ imported' \in BOOLEAN /\ doing' = "idle"
    BY <1>4, <1>5, ConcludeTypes
  <1>7. tainted' \in BOOLEAN /\ restarted' \in BOOLEAN BY DEF Create
  <1> QED BY <1>1, <1>6, <1>7

\* So does Update.
LEMMA UpdateTypes ==
    ASSUME TypeOK, Update
    PROVE  /\ server' \in Stored /\ state' \in Terms /\ outcome' \in {"ok", "inconsistent", "unknown"}
           /\ applied' \in BOOLEAN /\ imported' \in BOOLEAN /\ doing' = "idle"
           /\ restarted' \in BOOLEAN
  <1>0. state # "none" BY DEF Update, Updating
  <1>1. state \in Terms /\ plan \in Planned /\ flow.updated \in Readings /\ flow.restarts \in BOOLEAN
    BY <1>0, FlowTypes DEF TypeOK, Terms
  <1>2. server' \in Stored BY <1>0, HandlerTypes DEF Update
  <1> DEFINE returned == Flatten(flow.updated, plan, Answer(server'), state)
  <1>3. Answer(server') \in Stored BY <1>2, WorldTypes
  <1>4. returned \in Planned BY <1>1, <1>3, FlattenTypes
  <1>5. Conclude(returned) BY DEF Update
  <1> HIDE DEF returned
  <1>6. /\ state' \in Terms /\ outcome' \in {"ok", "inconsistent", "unknown"}
        /\ applied' \in BOOLEAN /\ imported' \in BOOLEAN /\ doing' = "idle"
    BY <1>4, <1>5, ConcludeTypes
  <1>7. restarted' \in BOOLEAN BY <1>1 DEF Update, FieldChanged
  <1> QED BY <1>2, <1>6, <1>7

\* No step breaks TypeOK: what a handler returns is a value or null, for every
\* reading and every sending.
LEMMA StepTypes == TypeOK /\ [Next]_vars => TypeOK'
  <1> SUFFICES ASSUME TypeOK, [Next]_vars PROVE TypeOK' OBVIOUS
  <1> USE DEF Terms
  <1>0. /\ flow \in AllKindsOfFlows /\ state \in Terms \cup {"none"} /\ plan \in Planned /\ config \in Terms
        /\ server \in Stored \cup {"none"} /\ "null" \in Terms /\ Terms \subseteq Planned
    BY DEF TypeOK, Planned, Unset
  <1>f. /\ flow.read \in Readings /\ flow.made \in Readings /\ flow.updated \in Readings
        /\ Configs(flow) \subseteq Terms /\ Fills(flow) \subseteq Stored
    BY <1>0, FlowTypes
  <1>1. CASE Refresh
    <2>1. state' \in Terms \cup {"none"}
      <3>1. CASE server # "none"
        <4>1. Answer(server) \in Stored BY <1>0, <3>1, WorldTypes
        <4> QED BY <1>0, <1>1, <1>f, <3>1, <4>1, FlattenTypes DEF Refresh
      <3> QED BY <1>0, <1>1, <3>1 DEF Refresh
    <2> QED BY <1>1, <2>1 DEF Refresh, TypeOK, world, history
  <1>2. CASE PlanChanges
    <2>1. plan' \in Planned BY <1>2, PlanTypes DEF PlanChanges
    <2>2. warned' \in BOOLEAN /\ others' \in BOOLEAN BY <1>2 DEF PlanChanges
    <2> QED BY <1>2, <2>1, <2>2 DEF PlanChanges, TypeOK, world, history
  <1>3. CASE PlanRefused BY <1>3 DEF PlanRefused, TypeOK, world, history
  <1>4. CASE NoChanges BY <1>4 DEF NoChanges, TypeOK, world
  <1>5. CASE Create
    BY <1>5, CreateTypes DEF Create, TypeOK, Terms, world
  <1>6. CASE Update
    BY <1>6, UpdateTypes DEF Update, TypeOK, Terms, world
  <1>7. CASE UpdateMissing
    BY <1>7 DEF UpdateMissing, Failed, TypeOK, world
  <1>8. CASE Destroy
    <2>1. server' \in Stored \cup {"none"} BY <1>8, HandlerTypes DEF Destroy
    <2>2. flow.deletes \in BOOLEAN BY <1>0, FlowTypes
    <2> QED BY <1>8, <2>1, <2>2 DEF Destroy, Forgotten, TypeOK, world
  <1>9. CASE DestroyWarns
    <2>1. server' \in Stored \cup {"none"} BY <1>0, <1>9, HandlerTypes DEF DestroyWarns
    <2>2. flow.deletes \in BOOLEAN BY <1>0, FlowTypes
    <2>3. faults' \in 0 .. MaxFaults BY <1>9, AttributeBoundsAssumption DEF DestroyWarns, TypeOK
    <2> QED BY <1>9, <2>1, <2>2, <2>3 DEF DestroyWarns, Forgotten, TypeOK, world
  <1>10. CASE Fault
    <2>1. server' \in Stored \cup {"none"}
      BY <1>0, <1>10, HandlerTypes DEF Fault, Creating, Updating, Destroying
    <2>3. faults' \in 0 .. MaxFaults BY <1>10, AttributeBoundsAssumption DEF Fault, TypeOK
    <2>4. drifted' \in BOOLEAN BY <1>10 DEF Fault, Failed, TypeOK
    <2> QED BY <1>10, <2>1, <2>3, <2>4 DEF Fault, Failed, TypeOK, world
  <1>11. CASE Import
    <2> DEFINE blank == CASE flow.import = "id" -> server
                          [] flow.import = "default" -> "default"
                          [] OTHER -> "null"
    <2>1. server \in Stored BY <1>0, <1>11 DEF Import
    <2>2. blank \in Terms BY <1>0, <2>1 DEF Known, Stored
    <2>3. Answer(server) \in Stored BY <2>1, WorldTypes
    <2>4. Flatten(flow.read, blank, Answer(server), blank) \in Terms
      BY <1>0, <1>f, <2>2, <2>3, FlattenTypes
    <2>5. state' \in Terms BY <1>11, <2>4 DEF Import
    <2> QED BY <1>11, <2>5 DEF Import, TypeOK, world
  <1>12. CASE Edit
    <2>1. config' \in Terms BY <1>12, <1>f DEF Edit
    <2>2. edits' \in 0 .. MaxEdits BY <1>12, AttributeBoundsAssumption DEF Edit, TypeOK
    <2> QED BY <1>12, <2>1, <2>2 DEF Edit, TypeOK, world
  <1>13. CASE Outside
    <2>1. server' \in Stored BY <1>13, <1>f DEF Outside, Stored
    <2>2. outsiders' \in 0 .. MaxOutside BY <1>13, AttributeBoundsAssumption DEF Outside, TypeOK
    <2> QED BY <1>13, <2>1, <2>2 DEF Outside, TypeOK, world, terraform
  <1>14. CASE Vanish
    <2>2. outsiders' \in 0 .. MaxOutside BY <1>14, AttributeBoundsAssumption DEF Vanish, TypeOK
    <2> QED BY <1>14, <2>2 DEF Vanish, TypeOK, world, terraform
  <1>15. CASE UNCHANGED vars BY <1>15 DEF vars, world, terraform, history, TypeOK
  <1> QED BY <1>1, <1>2, <1>3, <1>4, <1>5, <1>6, <1>7, <1>8, <1>9, <1>10, <1>11, <1>12, <1>13, <1>14, <1>15
          DEF Next, Terraform

\* Every variable keeps to its kind, for any set of rows and any bounds.
THEOREM AttributeTypes == Spec => []TypeOK
  BY InitTypes, StepTypes, PTL DEF Spec

-----------------------------------------------------------------------------
\* The flow never changes.
LEMMA InitRow == Init => flow \in Flows
  BY DEF Init

\* No step changes the row.
LEMMA StepRow == [Next]_vars => flow' = flow
  BY DEF Next, Terraform, Refresh, PlanChanges, PlanRefused, NoChanges, Create, Update, UpdateMissing,
         Destroy, DestroyWarns, Fault, Failed, Import, Edit, Outside, Vanish, vars, terraform, world

-----------------------------------------------------------------------------
\* What the handlers may rely on.

\* What is not there at all, was never there.
World ==
    /\ old => flow.gated
    /\ hides => flow.kind.secret
    /\ fill \in Fills(flow) /\ config \in Configs(flow)

\* A plan stands until it is carried out.
PlanStands == doing = "planned" => plan = Plan(others) /\ ~Refuses(plan)

\* What is announced is announced by the plan.
WarningStands == doing = "planned" => warned = (old /\ flow.announced /\ config # "null")

\* A Create of a resource that can be gone finds nothing.
FreshIsAbsent == Fresh(flow) /\ state = "none" => server = "none"

\* Only what Delete removes can be gone.
GoneWasDeleted == server = "none" => flow.deletes

\* What a plan compares with is what the refresh before it has read, for
\* what does not change by itself.
Current ==
    doing \in {"refreshed", "planned"} /\ state # "none" /\ server # "none" /\ (flow.kind.live => ~drifted) =>
        \E p \in Terms : state = Flatten(flow.read, p, Answer(server), p)

\* What holds of every row of the tables, sound or not.
Frame == World /\ PlanStands /\ WarningStands /\ FreshIsAbsent /\ GoneWasDeleted /\ Current

\* All of that holds before the first plan.
LEMMA InitFrame == Init /\ TypeOK => Frame
  <1> SUFFICES ASSUME Init, TypeOK PROVE Frame OBVIOUS
  <1>1. flow \in AllKindsOfFlows BY DEF TypeOK
  <1>2. World BY <1>1, FlowTypes DEF Init, World
  <1> QED BY <1>2 DEF Init, Frame, PlanStands, WarningStands, FreshIsAbsent, GoneWasDeleted, Fresh, Current, TypeOK, Stored

\* Only Edit touches what World is about, and it stays with the schema.
LEMMA StepWorld == World /\ [Next]_vars => World'
  <1> SUFFICES ASSUME World, [Next]_vars PROVE World' OBVIOUS
  <1>1. UNCHANGED world /\ (config' = config \/ config' \in Configs(flow))
    BY DEF Next, Terraform, Refresh, PlanChanges, PlanRefused, NoChanges, Create, Update, UpdateMissing,
           Destroy, DestroyWarns, Fault, Failed, Import, Edit, Outside, Vanish, vars, terraform, world
  <1> QED BY <1>1 DEF World, world

\* PlanChanges makes the plan, and what leaves it standing changes nothing
\* it was made of.
LEMMA StepPlan == PlanStands /\ WarningStands /\ [Next]_vars => PlanStands' /\ WarningStands'
  <1> SUFFICES ASSUME PlanStands, WarningStands, [Next]_vars PROVE PlanStands' /\ WarningStands' OBVIOUS
  <1>1. CASE PlanChanges
    BY <1>1 DEF PlanChanges, PlanStands, WarningStands, Plan, Refuses, world
  <1>2. CASE doing' = "planned" /\ UNCHANGED <<world, terraform>>
    BY <1>2 DEF PlanStands, WarningStands, Plan, Refuses, world, terraform
  <1>3. doing' # "planned" \/ PlanChanges \/ UNCHANGED <<world, terraform>>
    BY DEF Next, Terraform, Refresh, PlanRefused, NoChanges, Create, Update, UpdateMissing, Conclude,
           Destroy, DestroyWarns, Forgotten, Fault, Failed, Import, Edit, Outside, Vanish, vars
  <1> QED BY <1>1, <1>2, <1>3 DEF PlanStands, WarningStands

\* What Read makes of a state is a state.
LEMMA ReadIsTerm ==
    ASSUME TypeOK, server \in Stored, NEW p \in Terms
    PROVE  Flatten(flow.read, p, Answer(server), p) \in Terms
  <1>1. flow.read \in Readings BY FlowTypes DEF TypeOK
  <1>2. p \in Planned /\ Answer(server) \in Stored BY WorldTypes DEF Terms, Planned, Unset
  <1> QED BY <1>1, <1>2, FlattenTypes

\* The state goes when the object is found gone or is destroyed, and comes
\* with the object.
LEMMA StepAbsent == TypeOK /\ TypeOK' /\ FreshIsAbsent /\ [Next]_vars => FreshIsAbsent'
  <1> SUFFICES ASSUME TypeOK, TypeOK', FreshIsAbsent, [Next]_vars, Fresh(flow)', state' = "none"
               PROVE  server' = "none"
    BY DEF FreshIsAbsent
  <1>0. flow' = flow
    BY DEF Next, Terraform, Refresh, PlanChanges, PlanRefused, NoChanges, Create, Update, UpdateMissing,
           Destroy, DestroyWarns, Fault, Failed, Import, Edit, Outside, Vanish, vars, terraform, world
  <1>1. flow.deletes /\ ~flow.existing /\ ~flow.lenient BY <1>0 DEF Fresh
  <1>2. CASE Refresh
    <2>1. server # "none" => state' \in Terms
      <3> SUFFICES ASSUME server # "none" PROVE state' \in Terms OBVIOUS
      <3>1. server \in Stored /\ state \in Terms BY <1>2 DEF TypeOK, Refresh, Terms
      <3> QED BY <1>2, <3>1, ReadIsTerm DEF Refresh
    <2> QED BY <1>2, <2>1 DEF Refresh, Terms, Known, Stored
  <1>3. CASE Create \/ Update
    <2>1. state' \in Terms BY <1>3, CreateTypes, UpdateTypes
    <2> QED BY <2>1 DEF Terms, Known, Stored
  <1>4. CASE Import
    <2>1. server \in Stored /\ flow.import \in {"id", "default", "null", "never"} BY <1>4, FlowTypes DEF TypeOK, Import
    <2>2. state' \in Terms BY <1>4, <2>1, ReadIsTerm DEF Import, Terms, Known, Stored
    <2> QED BY <2>2 DEF Terms, Known, Stored
  <1>5. CASE Destroy \/ DestroyWarns
    <2>1. Left = "none" BY <1>1 DEF Left
    <2> QED BY <1>1, <1>5, <2>1 DEF Destroy, DestroyWarns
  <1>6. CASE Fault
    BY <1>0, <1>1, <1>6 DEF Fault, Failed, FreshIsAbsent, Fresh, Creating, Updating, Destroying
  <1>7. CASE Outside \/ Vanish
    BY <1>0, <1>7 DEF Outside, Vanish, terraform, FreshIsAbsent, Fresh
  <1>8. CASE UNCHANGED <<state, server>>
    BY <1>0, <1>8 DEF FreshIsAbsent, Fresh
  <1>9. \/ Refresh \/ Create \/ Update \/ Import \/ Destroy \/ DestroyWarns \/ Fault \/ Outside \/ Vanish
        \/ UNCHANGED <<state, server>>
    BY DEF Next, Terraform, PlanChanges, PlanRefused, NoChanges, UpdateMissing, Failed, Edit, vars, terraform
  <1> QED BY <1>2, <1>3, <1>4, <1>5, <1>6, <1>7, <1>8, <1>9

\* Outside changes a value to a value, and Vanish is about what Delete removes.
LEMMA StepGone == TypeOK /\ GoneWasDeleted /\ [Next]_vars => GoneWasDeleted'
  <1> SUFFICES ASSUME TypeOK, GoneWasDeleted, [Next]_vars, server' = "none" PROVE flow.deletes
    BY StepRow DEF GoneWasDeleted
  <1>1. CASE Create \/ Update BY <1>1, CreateTypes, UpdateTypes DEF Stored
  <1>2. CASE Destroy \/ DestroyWarns BY <1>2 DEF Destroy, DestroyWarns, Left, Stores, GoneWasDeleted
  <1>3. CASE Fault
    <2>1. /\ \A opened \in BOOLEAN : Created(opened) # "none"
          /\ state # "none" => Updated # "none"
      BY HandlerTypes DEF Stored
    <2>2. server = "none" \/ Left = "none" BY <1>3, <2>1 DEF Fault, Updating
    <2> QED BY <2>2 DEF Left, Stores, GoneWasDeleted
  <1>4. CASE Outside BY <1>4, FlowTypes DEF Outside, TypeOK, Stored
  <1>5. CASE Vanish BY <1>5 DEF Vanish
  <1>6. CASE UNCHANGED server BY <1>6 DEF GoneWasDeleted
  <1> QED BY <1>1, <1>2, <1>3, <1>4, <1>5, <1>6
          DEF Next, Terraform, Refresh, PlanChanges, PlanRefused, NoChanges, UpdateMissing, Import, Edit, vars

\* A refresh or an import makes a state current, and what is changed behind a
\* plan was changed by Coolify itself.
LEMMA StepCurrent == TypeOK /\ Current /\ [Next]_vars => Current'
  <1> SUFFICES ASSUME TypeOK, Current, [Next]_vars, doing' \in {"refreshed", "planned"}, state' # "none",
                      server' # "none", flow'.kind.live => ~drifted'
               PROVE  \E p \in Terms : state' = Flatten(flow.read, p, Answer(server), p)'
    BY DEF Current
  <1>0. UNCHANGED world
    BY DEF Next, Terraform, Refresh, PlanChanges, PlanRefused, NoChanges, Create, Update, UpdateMissing,
           Destroy, DestroyWarns, Fault, Failed, Import, Edit, Outside, Vanish, vars, terraform
  <1>1. \A p : server' = server => Flatten(flow.read, p, Answer(server), p)' = Flatten(flow.read, p, Answer(server), p)
    BY <1>0 DEF Flatten, Answer, world
  <1>2. CASE Refresh
    <2>1. server' = server /\ state \in Terms /\ server # "none" BY <1>2 DEF Refresh, TypeOK, Terms
    <2>2. state' = Flatten(flow.read, state, Answer(server), state) BY <1>2, <2>1 DEF Refresh
    <2> QED BY <1>1, <2>1, <2>2
  <1>3. CASE Import
    <2> DEFINE blank == CASE flow.import = "id" -> server
                          [] flow.import = "default" -> "default"
                          [] OTHER -> "null"
    <2>1. blank \in Terms BY <1>3 DEF Import, TypeOK, Terms, Known, Stored
    <2>2. server' = server /\ state' = Flatten(flow.read, blank, Answer(server), blank) BY <1>3 DEF Import
    <2> QED BY <1>1, <2>1, <2>2
  <1>4. CASE PlanChanges
    <2>1. server' = server /\ state' = state /\ doing \in {"refreshed", "planned"}
      BY <1>4 DEF PlanChanges, Planning
    <2> QED BY <1>0, <1>1, <1>4, <2>1 DEF Current, PlanChanges, world, history
  <1>5. CASE UNCHANGED <<server, state, doing, drifted>>
    BY <1>0, <1>1, <1>5 DEF Current, world
  <1> QED
    BY <1>0, <1>2, <1>3, <1>4, <1>5
    DEF Next, Terraform, PlanRefused, NoChanges, Create, Update, UpdateMissing, Conclude,
        Destroy, DestroyWarns, Forgotten, Fault, Failed, Edit, Outside, Vanish, vars, terraform, world, history

\* Every plan stands on what the refresh before it has read, for any row.
THEOREM AttributeFrame == Spec => [](TypeOK /\ Frame)
  <1>1. Init => TypeOK /\ Frame BY InitTypes, InitFrame
  <1>2. (TypeOK /\ Frame) /\ [Next]_vars => (TypeOK /\ Frame)'
    BY StepTypes, StepWorld, StepPlan, StepAbsent, StepGone, StepCurrent DEF Frame
  <1> QED BY <1>1, <1>2, PTL DEF Spec

-----------------------------------------------------------------------------
\* A row that announces what may be withheld is announced whenever it is
\* configured and withheld.
THEOREM AnnouncedWhenWithheld ==
    ASSUME \A f \in Flows : Announces(f)
    PROVE  Spec => []WithheldIsAnnounced
  <1>1. Init => flow \in Flows BY InitRow
  <1>2. flow \in Flows /\ [Next]_vars => (flow \in Flows)' BY StepRow
  <1>3. Frame /\ flow \in Flows => WithheldIsAnnounced
    BY DEF Frame, World, WarningStands, WithheldIsAnnounced, Announces
  <1> QED BY <1>1, <1>2, <1>3, AttributeFrame, PTL DEF Spec

\* What switches a feature on is off when its resource was destroyed: gone with
\* the object, or sent off by Delete.
THEOREM SwitchedOffWhenDestroyed ==
    ASSUME \A f \in Flows : SwitchesOff(f)
    PROVE  Spec => DestroyedIsOff
  <1>1. Init => flow \in Flows BY InitRow
  <1>2. flow \in Flows /\ [Next]_vars => (flow \in Flows)' BY StepRow
  <1>3. Frame /\ flow \in Flows /\ [Next]_vars => [Destroy /\ flow.switch => server' \in {"none", "default"}]_vars
    <2> SUFFICES ASSUME Frame, flow \in Flows, Destroy, flow.switch PROVE server' \in {"none", "default"}
      OBVIOUS
    <2>1. flow.deletes \/ (flow.off /\ ~flow.kind.own /\ ~old) BY DEF SwitchesOff, Frame, World
    <2>2. server' = Left BY DEF Destroy
    <2> QED BY <2>1, <2>2 DEF Left, Stores
  <1> QED BY <1>1, <1>2, <1>3, AttributeFrame, PTL DEF Spec, DestroyedIsOff

\* Where a plan leaves the attribute open, by its kind.
LEMMA OpenPlans ==
    ASSUME TypeOK, Frame, doing = "planned", plan \in Unset, config = "null", state = "null", plan # state \/ others
    PROVE  /\ flow.kind.plan \in {"optional", "kept", "kept_output"} => plan = "null"
           /\ flow.kind.plan \in {"computed", "output"} => plan = "unknown"
           /\ flow.kind.plan \in {"optional", "kept", "kept_output", "computed", "output"}
           /\ ~flow.demanded
  <1>1. plan = Plan(others) /\ ~Refuses(plan) BY DEF Frame, PlanStands
  <1>2. flow.kind.plan \in Plans BY FlowTypes DEF TypeOK
  <1>3. flow.kind.plan # "required"
    BY DEF Frame, World, Configs
  <1> QED BY <1>1, <1>2, <1>3 DEF Plan, Plans, Unset, Refuses

\* What an update begins with.
LEMMA UpdateSight ==
    ASSUME TypeOK, Frame, Updating, server # "none" \/ flow.upserts
    PROVE  /\ state \in Terms
           /\ \/ <<state, Answer(server)>> \in Sights(flow) /\ server \in Stored
              \/ Sights(flow) = Terms \X Stored
              \/ old /\ flow.preserved /\ state \notin Unset
  <1>1. state \in Terms BY DEF TypeOK, Terms, Updating
  <1>2. flow.upserts \/ flow.kind.live => Sights(flow) = Terms \X Stored BY DEF Sights
  <1>3. CASE ~flow.upserts /\ ~flow.kind.live
    <2>1. server \in Stored BY <1>3 DEF TypeOK
    <2>2. Answer(server) \in Stored BY <2>1, WorldTypes
    <2>3. PICK p \in Terms : state = Flatten(flow.read, p, Answer(server), p)
      BY <1>3, <1>1, <2>1 DEF Frame, Current, Updating, Stored
    <2>4. CASE old /\ flow.preserved /\ p \notin Unset BY <1>1, <2>3, <2>4 DEF Flatten
    <2>5. CASE ~(old /\ flow.preserved /\ p \notin Unset)
      <3>1. state = Read(flow.read, p, Answer(server), p) BY <2>3, <2>5 DEF Flatten
      <3>2. <<state, Answer(server)>> \in {<<Read(flow.read, q, a, q), a>> : q \in Terms, a \in Stored}
        BY <2>2, <3>1
      <3> QED BY <1>1, <2>1, <3>2 DEF Sights
    <2> QED BY <2>4, <2>5
  <1> QED BY <1>1, <1>2, <1>3

\* An update sends nothing new of what neither the configuration nor the
\* state knows.
LEMMA OpenIsLeft ==
    ASSUME TypeOK, Frame, LeavesOpen(flow), Update, config = "null", state = "null", plan \in Unset, server # "none"
    PROVE  server' = server
  <1>1. Updating /\ server \in Stored BY DEF Update, TypeOK
  <1>2. /\ flow.kind.plan \in {"optional", "kept", "kept_output"} => plan = "null"
        /\ flow.kind.plan \in {"computed", "output"} => plan = "unknown"
        /\ flow.kind.plan \in {"optional", "kept", "kept_output", "computed", "output"}
        /\ ~flow.demanded
    BY <1>1, OpenPlans DEF Updating, Changes
  <1>3. /\ ~flow.reset
        /\ \A sight \in Sights(flow) :
             sight[1] = "null" => \/ Sent(flow.patch, plan, "null") = "omitted"
                                  \/ Sent(flow.patch, plan, "null") = sight[2] /\ ~flow.kind.secret
    BY <1>2 DEF LeavesOpen
  <1>4. server' = Stores(Sent(flow.patch, plan, "null"), server)
    BY <1>1, <1>3 DEF Update, Updated, Begin
  <1>5. CASE old \/ flow.kind.own BY <1>4, <1>5 DEF Stores
  <1>6. CASE ~old /\ ~flow.kind.own
    <2>1. PICK a \in Stored : <<"null", a>> \in Sights(flow) /\ (~flow.kind.secret => a = server)
      <3>1. CASE Sights(flow) = Terms \X Stored
        BY <1>1, <3>1 DEF Terms
      <3>2. CASE <<state, Answer(server)>> \in Sights(flow)
        <4>1. ~flow.kind.secret => Answer(server) = server BY <1>6 DEF Answer, Frame, World
        <4>2. Answer(server) \in Stored BY <1>1, WorldTypes
        <4> QED BY <3>2, <4>1, <4>2
      <3> QED BY <1>1, <1>6, <3>1, <3>2, UpdateSight
    <2>2. Sent(flow.patch, plan, "null") \in {"omitted", server}
      BY <1>3, <2>1
    <2> QED BY <1>4, <2>2 DEF Stores
  <1> QED BY <1>5, <1>6

\* What neither the configuration nor the state knows is left as Coolify has it
\* by every update, whatever else the update changes.
THEOREM LeftOpenWhenNeverSet ==
    ASSUME \A f \in Flows : LeavesOpen(f)
    PROVE  Spec => LeftOpenIsLeft
  <1>1. Init => flow \in Flows BY InitRow
  <1>2. flow \in Flows /\ [Next]_vars => (flow \in Flows)' BY StepRow
  <1>3. TypeOK /\ Frame /\ flow \in Flows /\ [Next]_vars =>
          [Update /\ config = "null" /\ state = "null" /\ plan \in Unset => server' = server \/ server = "none"]_vars
    BY OpenIsLeft
  <1> QED BY <1>1, <1>2, <1>3, AttributeFrame, PTL DEF Spec, LeftOpenIsLeft

-----------------------------------------------------------------------------
\* What Coolify may hold when a Create begins.

\* Without words there is no empty string anywhere.
Worded == Wordless(flow) => "empty" \notin {config, state, plan, server}

\* Coolify holds nothing that nobody told it.
Holds == server \in Contents(flow) \cup {"none"}

\* Begin and Stores keep what they are given.
LEMMA StoredIsGiven ==
    ASSUME NEW S, "default" \in S, NEW s \in S, NEW x \in S \cup {"omitted"}
    PROVE  Begin(s) \in S /\ Stores(x, s) \in S
  BY DEF Begin, Stores

\* Nothing that is read becomes the empty string, without words.
LEMMA WordlessReads ==
    ASSUME TypeOK, World, Wordless(flow), NEW r \in {flow.made, flow.updated, flow.read},
           NEW p \in Planned \ {"empty"}, NEW s \in Settings, NEW o \in Terms \ {"empty"}
    PROVE  NormalizeUnknown(Flatten(r, p, Answer(s), o)) # "empty" /\ Flatten(r, p, Answer(s), o) # "empty"
  <1>1. ~old /\ ~hides /\ ~flow.kind.own BY DEF World, Wordless
  <1>2. Answer(s) = s /\ Flatten(r, p, Answer(s), o) = Read(r, p, s, o) BY <1>1 DEF Answer, Flatten
  <1>3. Read(r, p, s, o) # "empty" BY DEF Wordless
  <1> QED BY <1>2, <1>3 DEF NormalizeUnknown

\* Nothing that is stored becomes the empty string, without words.
LEMMA WordlessHandlers ==
    ASSUME TypeOK, World, Worded, Wordless(flow)
    PROVE  /\ \A opened \in BOOLEAN : Created(opened) \in Settings
           /\ state # "none" => Updated \in Settings
           /\ Left \in Settings \cup {"none"}
  <1>1. /\ plan \in Planned \ {"empty"} /\ fill \in Settings /\ server \in Settings \cup {"none"} /\ "default" \in Settings
        /\ state # "none" => state \in Terms \ {"empty"}
    BY FlowTypes DEF TypeOK, World, Worded, Wordless, Settings, Known, Stored, Terms
  <1>2. /\ flow.post \in Sendings /\ flow.late \in Sendings /\ flow.patch \in Sendings BY FlowTypes DEF TypeOK
  <1> DEFINE before == IF server = "none" THEN fill ELSE server
  <1>3. Begin(before) \in Settings BY <1>1, StoredIsGiven
  <1>4. "a" \in Settings /\ "null" \in Terms \ {"empty"} BY DEF Settings, Known, Stored, Terms
  <1>5. ASSUME NEW opened \in BOOLEAN PROVE Created(opened) \in Settings
    <2>1. Sent(flow.post, plan, "null") \in Stored \cup {"omitted"} BY <1>1, <1>2, SentTypes DEF Planned, Unset
    <2>2. Sent(flow.post, plan, "null") # "empty" BY <1>1, <1>4 DEF Wordless
    <2>3. Late(opened) \in Settings \cup {"omitted"} BY <1>1 DEF Late, IfKnown, Planned, Settings
    <2>4. Stores(Sent(flow.post, plan, "null"), Begin(before)) \in Settings
      BY <1>1, <1>3, <2>1, <2>2, StoredIsGiven DEF Settings, Known
    <2> QED BY <1>1, <2>3, <2>4, StoredIsGiven DEF Created
  <1>6. ASSUME state # "none" PROVE Updated \in Settings
    <2>1. Sent(flow.patch, plan, state) \in Stored \cup {"omitted"}
      BY <1>1, <1>2, <1>6, SentTypes DEF Planned, Unset, Terms
    <2>2. Sent(flow.patch, plan, state) # "empty" BY <1>1, <1>4, <1>6 DEF Wordless
    <2> QED BY <1>1, <1>3, <2>1, <2>2, StoredIsGiven DEF Updated, Settings, Known
  <1>7. Left \in Settings \cup {"none"} BY <1>1 DEF Left, Stores
  <1> QED BY <1>5, <1>6, <1>7

\* There is no empty string before the first plan.
LEMMA InitWorded == Init /\ TypeOK => Worded
  BY DEF Init, TypeOK, Worded, Wordless

\* No step makes one where there is none.
LEMMA StepWorded == TypeOK /\ World /\ World' /\ Worded /\ [Next]_vars => Worded'
  <1> SUFFICES ASSUME TypeOK, World, World', Worded, [Next]_vars, Wordless(flow)
               PROVE  "empty" \notin {config', state', plan', server'}
    BY StepRow DEF Worded
  <1>0. /\ "empty" \notin {config, state, plan, server} /\ flow' = flow
        /\ state \in Terms \cup {"none"} /\ plan \in Planned \ {"empty"} /\ server \in Settings \cup {"none"}
        /\ "null" \in Terms \ {"empty"} /\ Terms \subseteq Planned
    BY StepRow DEF Worded, TypeOK, Terms, Settings, Known, Planned, Unset
  <1>1. config' # "empty" BY <1>0 DEF World, Wordless
  <1>2. CASE Refresh
    <2>1. CASE server # "none"
      <3>1. state \in Terms \ {"empty"} /\ server \in Settings BY <1>0, <1>2, <2>1 DEF Refresh
      <3>2. Flatten(flow.read, state, Answer(server), state) # "empty"
        BY <1>0, <3>1, WordlessReads
      <3> QED BY <1>0, <1>1, <1>2, <2>1, <3>2 DEF Refresh
    <2> QED BY <1>0, <1>1, <1>2, <2>1 DEF Refresh
  <1>3. CASE PlanChanges
    <2>1. Plan(others') # "empty" BY <1>0 DEF Plan, Wordless
    <2> QED BY <1>0, <1>1, <1>3, <2>1 DEF PlanChanges
  <1>4. CASE Create
    <2>1. server' \in Settings BY <1>4, WordlessHandlers DEF Create
    <2> DEFINE saved == IF flow.normal THEN NormalizeUnknown(plan) ELSE plan
    <2>2. saved \in Planned \ {"empty"} BY <1>0 DEF NormalizeUnknown, Planned, Unset
    <2>3. NormalizeUnknown(Flatten(flow.made, saved, Answer(server'), "null")) # "empty"
      BY <1>0, <2>1, <2>2, WordlessReads
    <2>4. state' # "empty" BY <1>4, <2>3 DEF Create, Conclude
    <2> QED BY <1>0, <1>1, <1>4, <2>1, <2>4 DEF Create, Settings
  <1>5. CASE Update
    <2>1. state \in Terms \ {"empty"} BY <1>0, <1>5 DEF Update, Updating
    <2>2. server' \in Settings BY <1>5, <2>1, WordlessHandlers DEF Update, Terms, Known, Stored
    <2>3. NormalizeUnknown(Flatten(flow.updated, plan, Answer(server'), state)) # "empty"
      BY <1>0, <2>1, <2>2, WordlessReads
    <2>4. state' # "empty" BY <1>5, <2>3 DEF Update, Conclude
    <2> QED BY <1>0, <1>1, <1>5, <2>2, <2>4 DEF Update, Settings
  <1>6. CASE Destroy \/ DestroyWarns
    <2>1. server' \in Settings \cup {"none"} BY <1>0, <1>6, WordlessHandlers DEF Destroy, DestroyWarns
    <2> QED BY <1>0, <1>1, <1>6, <2>1 DEF Destroy, DestroyWarns, Forgotten, Settings
  <1>7. CASE Fault
    <2>1. server' \in Settings \cup {"none"}
      BY <1>0, <1>7, WordlessHandlers DEF Fault, Updating, Destroying
    <2> QED BY <1>0, <1>1, <1>7, <2>1 DEF Fault, Failed, Settings
  <1>8. CASE Import
    <2> DEFINE blank == CASE flow.import = "id" -> server
                          [] flow.import = "default" -> "default"
                          [] OTHER -> "null"
    <2>1. server \in Settings BY <1>0, <1>8 DEF Import
    <2>2. blank \in Terms \ {"empty"} BY <2>1 DEF Terms, Settings, Known, Stored
    <2>3. Flatten(flow.read, blank, Answer(server), blank) # "empty" BY <1>0, <2>1, <2>2, WordlessReads
    <2> QED BY <1>0, <1>1, <1>8, <2>3 DEF Import
  <1>9. CASE Outside
    BY <1>0, <1>1, <1>9 DEF Outside, Wordless, terraform
  <1>10. UNCHANGED <<state, plan, server>> \/ Refresh \/ PlanChanges \/ Create \/ Update \/ Destroy \/ DestroyWarns
         \/ Fault \/ Import \/ Outside \/ Vanish
    BY DEF Next, Terraform, PlanRefused, NoChanges, UpdateMissing, Failed, Edit, vars, terraform
  <1>11. CASE Vanish BY <1>0, <1>1, <1>11 DEF Vanish, terraform
  <1> QED BY <1>0, <1>1, <1>2, <1>3, <1>4, <1>5, <1>6, <1>7, <1>8, <1>9, <1>10, <1>11

\* Contents covers what a Create, its late PATCH and an Update may send.
LEMMA ContentsAreGiven ==
    ASSUME TypeOK, World, Worded
    PROVE  /\ Fills(flow) \subseteq Contents(flow) /\ Settings \subseteq Contents(flow)
           /\ Contents(flow) \subseteq Stored
           /\ Sent(flow.post, plan, "null") \in Contents(flow) \cup {"omitted"}
           /\ \A opened \in BOOLEAN : Late(opened) \in Contents(flow) \cup {"omitted"}
           /\ state # "none" => Sent(flow.patch, plan, state) \in Contents(flow) \cup {"omitted"}
  <1> DEFINE plans == IF Wordless(flow) THEN Planned \ {"empty"} ELSE Planned
  <1>1. plan \in plans BY DEF TypeOK, Worded
  <1>2. Fills(flow) \subseteq Stored /\ Settings \subseteq Stored BY FlowTypes DEF TypeOK, Settings, Known
  <1>3. flow.post \in Sendings /\ flow.late \in Sendings /\ flow.patch \in Sendings BY FlowTypes DEF TypeOK
  <1>4. plan \in Planned /\ "null" \in Planned \cup {"none"} /\ state \in Planned \cup {"none"}
    BY DEF TypeOK, Planned, Unset
  <1>5. Sent(flow.post, plan, "null") \in Stored \cup {"omitted"} BY <1>3, <1>4, SentTypes
  <1>6. Sent(flow.patch, plan, state) \in Stored \cup {"omitted"} BY <1>3, <1>4, SentTypes
  <1>7. ASSUME NEW opened \in BOOLEAN PROVE Late(opened) \in Contents(flow) \cup {"omitted"}
    BY <1>1 DEF Late, Contents, IfKnown, Planned, Known
  <1>8. state # "none" => state \in Terms BY DEF TypeOK, Terms
  <1> QED BY <1>1, <1>2, <1>5, <1>6, <1>7, <1>8 DEF Contents

\* No step makes Coolify hold anything else.
LEMMA StepHolds == TypeOK /\ TypeOK' /\ World /\ Worded /\ Holds /\ [Next]_vars => Holds'
  <1> SUFFICES ASSUME TypeOK, TypeOK', World, Worded, Holds, [Next]_vars
               PROVE  server' \in Contents(flow) \cup {"none"}
    BY StepRow DEF Holds
  <1> DEFINE C == Contents(flow)
             before == IF server = "none" THEN fill ELSE server
  <1>1. /\ Fills(flow) \subseteq C /\ Settings \subseteq C
        /\ Sent(flow.post, plan, "null") \in C \cup {"omitted"}
        /\ \A opened \in BOOLEAN : Late(opened) \in C \cup {"omitted"}
        /\ state # "none" => Sent(flow.patch, plan, state) \in C \cup {"omitted"}
    BY ContentsAreGiven
  <1>2. server \in C \cup {"none"} /\ before \in C BY <1>1 DEF Holds, World
  <1> HIDE DEF C, before
  <1>3. "default" \in C /\ "a" \in C /\ "b" \in C BY <1>1 DEF Settings, Known, Stored
  <1>4. Begin(before) \in C BY <1>2, <1>3, StoredIsGiven
  <1>5. ASSUME NEW opened \in BOOLEAN PROVE Created(opened) \in C
    <2>1. Stores(Sent(flow.post, plan, "null"), Begin(before)) \in C BY <1>1, <1>3, <1>4, StoredIsGiven
    <2> QED BY <1>1, <1>3, <2>1, StoredIsGiven DEF Created, before
  <1>6. ASSUME state # "none" PROVE Updated \in C
    BY <1>1, <1>3, <1>4, <1>6, StoredIsGiven DEF Updated, before
  <1>7. Left \in C \cup {"none"} BY <1>2, <1>3 DEF Left, Stores
  <1>8. server' \in {server, Left, "none", "a", "b"} \cup Fills(flow) \cup {Created(opened) : opened \in BOOLEAN}
                    \/ (state # "none" /\ server' = Updated)
    BY DEF Next, Terraform, Refresh, PlanChanges, PlanRefused, NoChanges, Create, Update, UpdateMissing, Updating,
           Destroy, DestroyWarns, Fault, Failed, Import, Edit, Outside, Vanish, vars, terraform, world
  <1>9. server' \in C \cup {"none"} BY <1>1, <1>2, <1>3, <1>5, <1>6, <1>7, <1>8
  <1> QED BY <1>9 DEF C

\* Before the first Create Coolify holds what it filled in.
LEMMA InitHolds == Init /\ TypeOK => Holds
  <1> SUFFICES ASSUME Init, TypeOK PROVE Holds OBVIOUS
  <1>1. World /\ Worded BY InitFrame, InitWorded DEF Frame
  <1>2. server = "none" \/ server \in Fills(flow) BY DEF Init
  <1> QED BY <1>1, <1>2, ContentsAreGiven DEF Holds

\* Coolify holds nothing but what the row lets it be told, for any row.
THEOREM AttributeContents == Spec => [](Worded /\ Holds)
  <1>1. Init => Worded /\ Holds BY InitTypes, InitWorded, InitHolds
  <1>2. TypeOK /\ TypeOK' /\ Frame /\ Frame' /\ Worded /\ Holds /\ [Next]_vars => (Worded /\ Holds)'
    BY StepWorded, StepHolds DEF Frame
  <1> QED BY <1>1, <1>2, AttributeFrame, PTL DEF Spec

-----------------------------------------------------------------------------
\* What is planned, what is made of it, and what is heard of that.

\* A Create carries out one of the plans that Firsts names.
LEMMA FirstPlans ==
    ASSUME TypeOK, Frame, Creating
    PROVE  plan \in Firsts(flow)
  <1>1. plan = Plan(others) /\ state = "none" BY DEF Frame, PlanStands, Creating
  <1>2. flow.kind.plan \in Plans BY FlowTypes DEF TypeOK
  <1>3. config \in Configs(flow) BY DEF Frame, World
  <1>4. CASE config # "null"
    BY <1>1, <1>3, <1>4 DEF Plan, Firsts
  <1>5. CASE config = "null"
    <2>1. flow.kind.plan # "required" BY <1>3, <1>5 DEF Configs
    <2>2. flow.kind.plan \in {"default", "kept_or_default"} => plan = "default" /\ "default" \in Configs(flow) \ {"null"}
      BY <1>1, <1>5 DEF Plan, Configs
    <2>3. flow.kind.plan = "optional" => plan = "null" BY <1>1, <1>5 DEF Plan
    <2>4. flow.kind.plan = "default_empty" => plan = "empty" BY <1>1, <1>5 DEF Plan
    <2>5. flow.kind.plan \in {"computed", "kept", "output", "kept_output"} => plan = "unknown"
      BY <1>1, <1>5 DEF Plan
    <2> QED BY <1>2, <2>1, <2>2, <2>3, <2>4, <2>5 DEF Plans, Firsts
  <1> QED BY <1>4, <1>5

\* What a plan leaves unknown is computed.
LEMMA UnknownIsComputed ==
    ASSUME NEW f \in AllKindsOfFlows
    PROVE  /\ "unknown" \in Firsts(f) => f.kind.plan \in {"computed", "kept", "output", "kept_output"}
           /\ \A s \in Terms : "unknown" \in Nexts(f, s) => f.kind.plan \in {"computed", "output"}
  <1>1. "unknown" \notin Configs(f) BY FlowTypes DEF Terms, Known, Stored
  <1>2. "unknown" \in Firsts(f) => f.kind.plan \in {"computed", "kept", "output", "kept_output"}
    BY <1>1 DEF Firsts
  <1>3. ASSUME NEW s \in Terms, "unknown" \in Nexts(f, s) PROVE f.kind.plan \in {"computed", "output"}
    <2>1. s # "unknown" BY DEF Terms, Known, Stored
    <2> QED BY <1>2, <1>3, <2>1 DEF Nexts
  <1> QED BY <1>2, <1>3

\* What Terraform must get back.
LEMMA ExpectedPlans ==
    ASSUME TypeOK
    PROVE  Expected(flow, plan) \/ plan = "unknown" \/ plan = "empty" \/ Withdrawn
  BY DEF Expected, Withdrawable, Withdrawn

\* The handler keeps what it cannot have from this Coolify.
Preserving(p) == old /\ flow.preserved /\ p \notin Unset

\* What a Create makes of what it finds.
LEMMA CreateMakesFrom ==
    ASSUME TypeOK, NEW found, NEW opened \in BOOLEAN, ~old, ~flow.kind.own,
           (IF server = "none" THEN fill ELSE server) \in found
    PROVE  Created(opened) \in MakesFrom(flow, found, plan)
  <1> DEFINE before == IF server = "none" THEN fill ELSE server
             post == Sent(flow.post, plan, "null")
             made == IF post # "omitted" THEN {post}
                     ELSE IF flow.reset THEN {"default"} ELSE found
  <1>1. Stores(post, Begin(before)) \in made BY DEF Stores, Begin
  <1>2. Created(opened) = IF Late(opened) = "omitted" THEN Stores(post, Begin(before)) ELSE Late(opened)
    BY DEF Created, Stores
  <1> HIDE DEF made, post, before
  <1>3. MakesFrom(flow, found, plan) =
            IF flow.late = "never" \/ plan \in Unset THEN made
            ELSE IF Sent(flow.late, plan, "null") # "omitted" THEN {plan} ELSE made \cup {plan}
    BY DEF MakesFrom, made, post
  <1>4. plan # "omitted" BY DEF TypeOK, Planned, Known, Stored, Unset
  <1> QED BY <1>1, <1>2, <1>3, <1>4 DEF Late, IfKnown

\* Makes covers what a Create leaves behind.
LEMMA CreateMakes ==
    ASSUME TypeOK, Frame, Worded, Holds, Creating, NEW opened \in BOOLEAN, ~old, ~flow.kind.own
    PROVE  Created(opened) \in Makes(flow, plan)
  <1> DEFINE before == IF server = "none" THEN fill ELSE server
             found == IF Fresh(flow) THEN Fills(flow) ELSE Contents(flow)
  <1>1. state = "none" BY DEF Creating
  <1>2. Fresh(flow) => before = fill BY <1>1 DEF Frame, FreshIsAbsent
  <1>3. before \in Contents(flow) BY ContentsAreGiven DEF Frame, World, Holds
  <1>4. fill \in Fills(flow) BY DEF Frame, World
  <1>5. before \in found BY <1>2, <1>3, <1>4
  <1> HIDE DEF found
  <1>6. Created(opened) \in MakesFrom(flow, found, plan) BY <1>5, CreateMakesFrom
  <1> QED BY <1>6 DEF Makes, found

\* Heard covers what a Create is answered.
LEMMA CreateHears ==
    ASSUME TypeOK, Frame, Worded, Holds, Creating, NEW opened \in BOOLEAN, ~Preserving(plan)
    PROVE  \E t \in Makes(flow, plan) : Answer(Created(opened)) \in Heard(flow, plan, t)
  <1>1. CASE old \/ flow.kind.own
    <2>1. Answer(Created(opened)) = "empty" BY <1>1 DEF Answer
    <2>2. \A t : "empty" \in Heard(flow, plan, t)
      BY <1>1 DEF Heard, Preserving, Frame, World
    <2>3. fill \in Fills(flow) /\ "default" \in Contents(flow)
      BY ContentsAreGiven DEF Frame, World, Settings, Known, Stored
    <2>4. \E t : t \in Makes(flow, plan) BY <2>3 DEF Makes, MakesFrom
    <2> QED BY <2>1, <2>2, <2>4
  <1>2. CASE ~old /\ ~flow.kind.own
    <2>1. Created(opened) \in Makes(flow, plan) BY <1>2, CreateMakes
    <2>2. Answer(Created(opened)) \in Heard(flow, plan, Created(opened))
      BY <1>2 DEF Answer, Heard, Frame, World
    <2> QED BY <2>1, <2>2
  <1> QED BY <1>1, <1>2

\* A reading that keeps the plan of every Create returns it.
LEMMA CreateReturnsPlan ==
    ASSUME TypeOK, Frame, Worded, Holds, Creating, NEW opened \in BOOLEAN,
           NEW r, CreateKeeps(flow, r), PreservedIsPlanned(flow), Expected(flow, plan), NEW o \in Terms
    PROVE  Flatten(r, plan, Answer(Created(opened)), o) = plan
  <1>1. CASE Preserving(plan) BY <1>1 DEF Flatten, Preserving
  <1>2. CASE ~Preserving(plan)
    <2>1. PICK t \in Makes(flow, plan) : Answer(Created(opened)) \in Heard(flow, plan, t)
      BY <1>2, CreateHears
    <2>2. Read(r, plan, Answer(Created(opened)), o) = plan BY <2>1, FirstPlans DEF CreateKeeps
    <2> QED BY <1>2, <2>2 DEF Flatten, Preserving
  <1> QED BY <1>1, <1>2

\* A Create returns what was planned, and resolves what was left open.
LEMMA CreateConcludes ==
    ASSUME TypeOK, Frame, Worded, Holds, KeepsPlans(flow), Create
    PROVE  outcome' = "ok" \/ plan = "empty" \/ Withdrawn
  <1> DEFINE saved == IF flow.normal THEN NormalizeUnknown(plan) ELSE plan
             returned == Flatten(flow.made, saved, Answer(server'), "null")
  <1>1. Creating /\ Conclude(returned) BY DEF Create
  <1>2. PICK opened \in BOOLEAN : server' = Created(opened) BY DEF Create
  <1>3. CASE Expected(flow, plan)
    <2>1. saved = plan /\ "null" \in Terms BY <1>3 DEF NormalizeUnknown, Terms, Expected
    <2>2. returned = plan BY <1>1, <1>2, <1>3, <2>1, CreateReturnsPlan DEF KeepsPlans
    <2> QED BY <1>1, <1>3, <2>2 DEF Conclude, Expected
  <1>4. CASE plan = "unknown" /\ flow.kind.plan \in {"computed", "kept", "output", "kept_output"}
    <2>1. saved = (IF flow.normal THEN "null" ELSE "unknown") BY <1>4 DEF NormalizeUnknown
    <2>2. saved \in Unset /\ ~Preserving(plan) BY <1>4, <2>1 DEF Unset, Preserving
    <2>3. PICK t \in Makes(flow, "unknown") : Answer(server') \in Heard(flow, "unknown", t)
      BY <1>1, <1>2, <1>4, <2>2, CreateHears
    <2>4. Read(flow.made, saved, Answer(server'), "null") # "unknown"
      BY <1>4, <2>1, <2>3 DEF KeepsPlans, CreateResolves
    <2>5. returned # "unknown" BY <2>2, <2>4 DEF Flatten
    <2> QED BY <1>1, <1>4, <2>5 DEF Conclude
  <1>5. plan = "unknown" => flow.kind.plan \in {"computed", "kept", "output", "kept_output"}
    BY <1>1, FirstPlans, UnknownIsComputed DEF TypeOK
  <1> QED BY <1>3, <1>4, <1>5, ExpectedPlans

\* An Update carries out one of the plans that Nexts names.
LEMMA NextPlans ==
    ASSUME TypeOK, Frame, Updating
    PROVE  plan \in Nexts(flow, state)
  <1>1. /\ plan = Plan(others) /\ ~Refuses(plan) /\ state # "none"
        /\ (plan # state \/ others) /\ ~Replaces /\ state \in Terms
    BY DEF Frame, PlanStands, Updating, Changes, TypeOK, Terms
  <1>2. flow.kind.plan \in Plans BY FlowTypes DEF TypeOK
  <1>3. config \in Configs(flow) BY DEF Frame, World
  <1>4. ~(flow.demanded /\ plan \in Unset) BY <1>1 DEF Refuses
  <1>5. \/ plan \in {state, "unknown"}
        \/ ~(flow.kind.replace = "always" \/ (flow.kind.replace = "if_known" /\ state # "null"))
    BY <1>1 DEF Replaces
  <1>s. state # "unknown" BY <1>1 DEF Terms, Known, Stored
  <1>6. CASE config # "null"
    <2>1. plan \in Configs(flow) \ {"null"} BY <1>1, <1>3, <1>6 DEF Plan
    <2>2. plan # "unknown" BY <2>1 DEF Configs
    <2> QED BY <1>4, <1>5, <2>1, <2>2 DEF Nexts, Firsts
  <1>7. CASE config = "null"
    <2>1. flow.kind.plan # "required" BY <1>3, <1>7 DEF Configs
    <2>2. flow.kind.plan = "default" => plan = "default" /\ "default" \in Configs(flow) \ {"null"}
      BY <1>1, <1>7 DEF Plan, Configs
    <2>3. flow.kind.plan = "kept_or_default" =>
            (plan = state /\ state # "null") \/ (plan = "default" /\ "default" \in Configs(flow) \ {"null"})
      BY <1>1, <1>7 DEF Plan, Configs
    <2>4. flow.kind.plan = "optional" => plan = "null" BY <1>1, <1>7 DEF Plan
    <2>5. flow.kind.plan = "default_empty" => plan = "empty" BY <1>1, <1>7 DEF Plan
    <2>6. flow.kind.plan \in {"kept", "kept_output"} => plan = state BY <1>1, <1>7 DEF Plan
    <2>7. flow.kind.plan \in {"computed", "output"} => plan = "unknown" BY <1>1, <1>7 DEF Plan
    <2> QED BY <1>2, <1>4, <1>5, <1>s, <2>1, <2>2, <2>3, <2>4, <2>5, <2>6, <2>7 DEF Plans, Nexts, Firsts
  <1> QED BY <1>6, <1>7

\* Echoes covers what an Update is answered, for a state that Sights knows.
LEMMA UpdateHears ==
    ASSUME TypeOK, Frame, Updating, server # "none" \/ flow.upserts, PreservedIsPlanned(flow),
           Expected(flow, plan), ~Preserving(plan)
    PROVE  \E b \in Stored : <<state, b>> \in Sights(flow) /\ Answer(Updated) \in Echoes(flow, plan, <<state, b>>)
  <1> DEFINE x == Sent(flow.patch, plan, state)
  <1>1. /\ state \in Terms
        /\ \/ <<state, Answer(server)>> \in Sights(flow) /\ server \in Stored
           \/ Sights(flow) = Terms \X Stored
           \/ old /\ flow.preserved /\ state \notin Unset
    BY UpdateSight
  <1>2. ~(old /\ flow.preserved /\ state \notin Unset)
    <2> SUFFICES ASSUME old, flow.preserved, state \notin Unset PROVE FALSE OBVIOUS
    <2>1. plan \in Unset /\ plan # "unknown" BY DEF Preserving, Expected
    <2>2. plan = "null" /\ plan # state BY <2>1 DEF Unset
    <2>3. plan \in Nexts(flow, state) BY NextPlans
    <2> QED BY <2>2, <2>3 DEF Nexts, Firsts, PreservedIsPlanned
  <1>3. Updated \in Stored /\ Answer(Updated) \in Stored BY HandlerTypes, WorldTypes DEF Updating
  <1>4. CASE x # "omitted"
    <2>1. Answer(Updated) \in Heard(flow, plan, x)
      BY <1>4 DEF Answer, Updated, Stores, Heard, Preserving, Frame, World
    <2>2. PICK b \in Stored : <<state, b>> \in Sights(flow)
      BY <1>1, <1>2, WorldTypes DEF Stored
    <2> QED BY <1>4, <2>1, <2>2 DEF Echoes
  <1>5. CASE x = "omitted"
    <2>1. CASE Sights(flow) = Terms \X Stored
      BY <1>1, <1>3, <1>5, <2>1 DEF Echoes
    <2>2. CASE <<state, Answer(server)>> \in Sights(flow) /\ server \in Stored /\ Sights(flow) # Terms \X Stored
      <3>1. ~flow.reset /\ server # "none" BY <2>2 DEF Sights, Stored
      <3>2. Updated = server BY <1>5, <3>1 DEF Updated, Stores, Begin
      <3> QED BY <1>5, <2>2, <3>2, WorldTypes DEF Echoes
    <2> QED BY <1>1, <1>2, <2>1, <2>2
  <1> QED BY <1>4, <1>5

\* A reading that keeps the plan of every Update returns it.
LEMMA UpdateReturnsPlan ==
    ASSUME TypeOK, Frame, Updating, server # "none" \/ flow.upserts, NEW r, UpdateKeeps(flow, r),
           PreservedIsPlanned(flow), Expected(flow, plan), NEW o \in {state, plan}
    PROVE  Flatten(r, plan, Answer(Updated), o) = plan
  <1>1. CASE Preserving(plan) BY <1>1 DEF Flatten, Preserving
  <1>2. CASE ~Preserving(plan)
    <2>1. PICK b \in Stored : <<state, b>> \in Sights(flow) /\ Answer(Updated) \in Echoes(flow, plan, <<state, b>>)
      BY <1>2, UpdateHears
    <2> DEFINE sight == <<state, b>>
    <2>2. sight[1] = state /\ sight \in Sights(flow) BY <2>1
    <2>3. plan \in Nexts(flow, sight[1]) /\ o \in {sight[1], plan} BY <2>2, NextPlans
    <2> HIDE DEF sight
    <2>4. Answer(Updated) \in Echoes(flow, plan, sight) BY <2>1 DEF sight
    <2>5. Read(r, plan, Answer(Updated), o) = plan
      BY <2>2, <2>3, <2>4 DEF UpdateKeeps
    <2> QED BY <1>2, <2>5 DEF Flatten, Preserving
  <1> QED BY <1>1, <1>2

\* An Update returns what was planned, and resolves what was left open.
LEMMA UpdateConcludes ==
    ASSUME TypeOK, Frame, KeepsPlans(flow), Update
    PROVE  outcome' = "ok" \/ plan = "empty" \/ Withdrawn
  <1> DEFINE returned == Flatten(flow.updated, plan, Answer(server'), state)
  <1>1. Updating /\ (server # "none" \/ flow.upserts) /\ server' = Updated /\ Conclude(returned) BY DEF Update
  <1>2. CASE Expected(flow, plan)
    <2>1. returned = plan BY <1>1, <1>2, UpdateReturnsPlan DEF KeepsPlans
    <2> QED BY <1>1, <1>2, <2>1 DEF Conclude, Expected
  <1>3. CASE plan = "unknown" /\ flow.kind.plan \in {"computed", "output"}
    <2>1. state \in Terms BY <1>1, UpdateSight
    <2>2. Answer(server') \in Stored BY <1>1, HandlerTypes, WorldTypes DEF Updating
    <2>3. Read(flow.updated, "unknown", Answer(server'), state) # "unknown"
      BY <1>3, <2>1, <2>2 DEF KeepsPlans, UpdateResolves
    <2>4. returned # "unknown" BY <1>3, <2>3 DEF Flatten, Unset
    <2> QED BY <1>1, <1>3, <2>4 DEF Conclude
  <1>4. plan = "unknown" => flow.kind.plan \in {"computed", "output"}
    BY <1>1, NextPlans, UnknownIsComputed DEF TypeOK, Terms, Updating
  <1> QED BY <1>2, <1>3, <1>4, ExpectedPlans

\* A bad outcome is about a plan that may go wrong, until the next refresh.
BadOutcome ==
    outcome \in {"inconsistent", "unknown"} =>
        doing = "idle" /\ state # "none" /\ (plan = "empty" \/ Withdrawn)

\* Only Create and Update conclude, and the plan they were wrong about stays.
LEMMA StepOutcome ==
    TypeOK /\ Frame /\ Worded /\ Holds /\ KeepsPlans(flow) /\ BadOutcome /\ [Next]_vars => BadOutcome'
  <1> SUFFICES ASSUME TypeOK, Frame, Worded, Holds, KeepsPlans(flow), BadOutcome, [Next]_vars,
                      outcome' \in {"inconsistent", "unknown"}
               PROVE  doing' = "idle" /\ state' # "none" /\ (plan' = "empty" \/ Withdrawn')
    BY DEF BadOutcome
  <1>1. CASE Create
    BY <1>1, CreateConcludes, CreateTypes DEF Create, Withdrawn, Terms, Known, Stored, world
  <1>2. CASE Update
    BY <1>2, UpdateConcludes, UpdateTypes DEF Update, Withdrawn, Terms, Known, Stored, world
  <1>3. CASE UNCHANGED <<doing, state, plan, flow, outcome>>
    BY <1>3 DEF BadOutcome, Withdrawn
  <1>4. CASE PlanChanges BY <1>4 DEF PlanChanges, Planning, BadOutcome
  <1> QED BY <1>1, <1>2, <1>3, <1>4
          DEF Next, Terraform, Refresh, PlanRefused, NoChanges, UpdateMissing, Destroy, DestroyWarns, Forgotten,
              Fault, Failed, Import, Edit, Outside, Vanish, vars, terraform, world

\* Terraform gets back what it planned, and everything is known after an apply,
\* but for the empty string and a removal that is not sent.
THEOREM PlansAreKept ==
    ASSUME \A f \in Flows : KeepsPlans(f)
    PROVE  Spec => []AppliedAsPlanned
  <1>1. Init => flow \in Flows /\ BadOutcome BY InitRow DEF Init, BadOutcome
  <1>2. TypeOK /\ Frame /\ Worded /\ Holds /\ flow \in Flows /\ BadOutcome /\ [Next]_vars => (flow \in Flows /\ BadOutcome)'
    BY StepRow, StepOutcome
  <1>3. BadOutcome => AppliedAsPlanned BY DEF BadOutcome, AppliedAsPlanned, Blank
  <1> QED BY <1>1, <1>2, <1>3, AttributeFrame, AttributeContents, PTL DEF Spec

-----------------------------------------------------------------------------
\* What an apply that ended well leaves.

\* What the configuration and the schema want, where they say it.
Goal ==
    IF config # "null" THEN config
    ELSE IF flow.kind.plan = "default" THEN "default" ELSE "null"

\* What a Create may carry and must return.
KeptPlans(f) == {p \in Firsts(f) : Expected(f, p)}

\* These are what is configured, and null where a removal is sent.
LEMMA KeptPlansAreGoals ==
    ASSUME NEW f \in AllKindsOfFlows
    PROVE  KeptPlans(f) = (Configs(f) \cap Settings)
                          \cup (IF f.kind.plan = "optional" /\ ~Withdrawable(f) THEN {"null"} ELSE {})
  <1>1. Configs(f) \subseteq Terms BY FlowTypes
  <1> QED BY <1>1 DEF KeptPlans, Firsts, Expected, Withdrawable, Settings, Terms, Known, Stored

\* The state says it, and Read will go on saying it.
Settled ==
    applied /\ state # "none" =>
        /\ Goal \in KeptPlans(flow) =>
            /\ state = Goal
            /\ server # "none" => Flatten(flow.read, Goal, Answer(server), Goal) = Goal
        /\ flow.kind.plan = "kept_or_default" /\ config = "null" => state # "null"

\* What the configuration wants is what is planned.
LEMMA GoalIsPlanned ==
    ASSUME TypeOK, Frame, doing = "planned", Goal \in KeptPlans(flow)
    PROVE  /\ plan = Goal /\ plan \in Terms \ {"empty"} /\ ~Withdrawn
           /\ LiveIsOutput(flow) => ~flow.kind.live
  <1> DEFINE kept == (Configs(flow) \cap Settings)
                      \cup (IF flow.kind.plan = "optional" /\ ~Withdrawable(flow) THEN {"null"} ELSE {})
  <1>0. Goal \in kept BY KeptPlansAreGoals DEF TypeOK
  <1>1. plan = Plan(others) BY DEF Frame, PlanStands
  <1>2. flow.kind.plan \in Plans /\ config \in Configs(flow) BY FlowTypes DEF TypeOK, Frame, World
  <1>3. plan = Goal
    <2>1. CASE config # "null" BY <1>1, <2>1 DEF Plan, Goal
    <2>2. CASE config = "null"
      BY <1>0, <1>1, <1>2, <2>2 DEF Plan, Goal, Settings, Known, Stored, Plans
    <2> QED BY <2>1, <2>2
  <1>4. plan \in Terms \ {"empty"} BY <1>0, <1>3 DEF Settings, Terms
  <1>5. ~Withdrawn BY <1>0, <1>3 DEF Withdrawn, Withdrawable, Settings, Known, Stored
  <1>6. LiveIsOutput(flow) => ~flow.kind.live
    BY <1>0 DEF LiveIsOutput, Configs, Settings, Known, Stored
  <1> QED BY <1>3, <1>4, <1>5, <1>6

\* Reading the same answer again changes nothing.
LEMMA ReadIsIdempotent ==
    ASSUME NEW r \in Readings, NEW p \in Terms, NEW a \in Stored
    PROVE  Read(r, Read(r, p, a, p), a, Read(r, p, a, p)) = Read(r, p, a, p)
  BY DEF Readings, Read, Terms, Stored, Known, Unset, Direct, OrNull, FromAPI, OrDefault, IfPresent,
         PreserveEmpty, PresentOrDefault, PresentOrEmpty, IfConfigured, OrClear, SeedIfConfigured, Seed,
         SeedOrNull, DefaultIfUnknown, NormalizeUnknown

\* So a state that was read is read again unchanged.
LEMMA RefreshIsIdempotent ==
    ASSUME TypeOK, server \in Stored, NEW p \in Terms, NEW s, s = Flatten(flow.read, p, Answer(server), p)
    PROVE  Flatten(flow.read, s, Answer(server), s) = s
  <1>1. flow.read \in Readings /\ Answer(server) \in Stored BY FlowTypes, WorldTypes DEF TypeOK
  <1> QED BY <1>1, ReadIsIdempotent DEF Flatten

\* A Create that ended well settles: Read agrees with what it returned.
LEMMA SettledByCreate ==
    ASSUME TypeOK, Frame, Worded, Holds, Settles(flow), Create
    PROVE  Settled'
  <1> DEFINE saved == IF flow.normal THEN NormalizeUnknown(plan) ELSE plan
             returned == Flatten(flow.made, saved, Answer(server'), "null")
  <1>1. Creating /\ Conclude(returned) /\ UNCHANGED <<flow, old, hides, config>> BY DEF Create, world
  <1>2. PICK opened \in BOOLEAN : server' = Created(opened) BY DEF Create
  <1>3. ASSUME applied', plan # "unknown" PROVE state' = plan
    BY <1>1, <1>3 DEF Conclude, NormalizeUnknown
  <1>4. ASSUME applied', Goal \in KeptPlans(flow)
        PROVE  state' = Goal /\ Flatten(flow.read, Goal, Answer(server'), Goal) = Goal
    <2>1. plan = Goal /\ plan \in Terms \ {"empty"}
      BY <1>1, <1>4, GoalIsPlanned DEF Creating, Settles
    <2>2. Flatten(flow.read, plan, Answer(Created(opened)), plan) = plan
      BY <1>1, <1>4, <2>1, CreateReturnsPlan DEF Settles, KeptPlans
    <2>3. plan # "unknown" BY <2>1 DEF Terms, Known, Stored
    <2> QED BY <1>2, <1>3, <1>4, <2>1, <2>2, <2>3
  <1>5. ASSUME applied', flow.kind.plan = "kept_or_default", config = "null" PROVE state' # "null"
    <2>1. plan = "default" BY <1>1, <1>5 DEF Creating, Frame, PlanStands, Plan
    <2> QED BY <1>3, <1>5, <2>1
  <1>6. Goal' = Goal /\ Answer(server)' = Answer(server') BY <1>1 DEF Goal, Answer
  <1>8. Flatten(flow.read, Goal, Answer(server), Goal)' = Flatten(flow.read, Goal, Answer(server'), Goal)
    BY <1>1, <1>6 DEF Flatten
  <1> QED BY <1>1, <1>4, <1>5, <1>6, <1>8 DEF Settled

\* So does an Update.
LEMMA SettledByUpdate ==
    ASSUME TypeOK, Frame, Settles(flow), Update
    PROVE  Settled'
  <1> DEFINE returned == Flatten(flow.updated, plan, Answer(server'), state)
  <1>1. /\ Updating /\ (server # "none" \/ flow.upserts) /\ server' = Updated /\ Conclude(returned)
        /\ UNCHANGED <<flow, old, hides, config>>
    BY DEF Update, world
  <1>2. ASSUME applied', plan # "unknown" PROVE state' = plan
    BY <1>1, <1>2 DEF Conclude, NormalizeUnknown
  <1>3. ASSUME applied', Goal \in KeptPlans(flow)
        PROVE  state' = Goal /\ Flatten(flow.read, Goal, Answer(server'), Goal) = Goal
    <2>1. plan = Goal /\ plan \in Terms \ {"empty"} /\ ~Withdrawn
      BY <1>1, <1>3, GoalIsPlanned DEF Updating, Settles
    <2>2. plan # "unknown" BY <2>1 DEF Terms, Known, Stored
    <2>3. Expected(flow, plan) BY <1>3, <2>1 DEF KeptPlans
    <2>4. Flatten(flow.read, plan, Answer(Updated), plan) = plan
      BY <1>1, <2>3, UpdateReturnsPlan DEF Settles
    <2> QED BY <1>1, <1>2, <1>3, <2>1, <2>2, <2>4
  <1>4. ASSUME applied', flow.kind.plan = "kept_or_default", config = "null" PROVE state' # "null"
    <2>1. plan \notin {"null", "unknown"}
      BY <1>1, <1>4 DEF Updating, Frame, PlanStands, Plan, TypeOK, Known, Stored
    <2> QED BY <1>2, <1>4, <2>1
  <1>5. Goal' = Goal BY <1>1 DEF Goal
  <1>6. Flatten(flow.read, Goal, Answer(server), Goal)' = Flatten(flow.read, Goal, Answer(server'), Goal)
    BY <1>1, <1>5 DEF Flatten, Answer
  <1> QED BY <1>1, <1>3, <1>4, <1>5, <1>6 DEF Settled

\* The refresh that follows changes nothing of it.
LEMMA SettledByRefresh ==
    ASSUME TypeOK, Settles(flow), Settled, Refresh
    PROVE  Settled'
  <1>1. UNCHANGED <<flow, old, hides, config, server, applied>> /\ state # "none" BY DEF Refresh, world, history
  <1>2. Goal' = Goal BY <1>1 DEF Goal
  <1>3. Flatten(flow.read, Goal, Answer(server), Goal)' = Flatten(flow.read, Goal, Answer(server), Goal)
    BY <1>1, <1>2 DEF Flatten, Answer
  <1>4. CASE server = "none"
    <2>1. state' \in {state, "none"} BY <1>4 DEF Refresh
    <2> QED BY <1>1, <1>2, <1>4, <2>1 DEF Settled
  <1>5. CASE server # "none"
    <2>1. state' = Flatten(flow.read, state, Answer(server), state) BY <1>5 DEF Refresh
    <2>2. ASSUME applied, flow.kind.plan = "kept_or_default", config = "null" PROVE state' # "null"
      <3>1. state \in Stored /\ server \in Stored BY <1>1, <1>5, <2>2 DEF TypeOK, Settled, Known
      <3>2. Answer(server) \in Stored BY <3>1, WorldTypes
      <3>3. state # "null" BY <3>1 DEF Stored
      <3> QED BY <2>1, <2>2, <3>1, <3>2, <3>3 DEF Flatten, Settles
    <2> QED BY <1>1, <1>2, <1>3, <1>5, <2>1, <2>2 DEF Settled
  <1> QED BY <1>4, <1>5

\* A plan without changes is settled, by the refresh before it.
LEMMA SettledByNoChanges ==
    ASSUME TypeOK, Frame, Settles(flow), NoChanges
    PROVE  Settled'
  <1>1. /\ UNCHANGED <<flow, old, hides, config, server, state>> /\ state # "none"
        /\ doing = "planned" /\ plan = state /\ ~others
    BY DEF NoChanges, world, Changes
  <1>2. Goal' = Goal BY <1>1 DEF Goal
  <1>3. Flatten(flow.read, Goal, Answer(server), Goal)' = Flatten(flow.read, Goal, Answer(server), Goal)
    BY <1>1, <1>2 DEF Flatten, Answer
  <1>4. ASSUME Goal \in KeptPlans(flow)
        PROVE  state = Goal /\ (server # "none" => Flatten(flow.read, Goal, Answer(server), Goal) = Goal)
    <2>1. state = Goal /\ ~flow.kind.live BY <1>1, <1>4, GoalIsPlanned DEF Settles
    <2>2. ASSUME server # "none" PROVE Flatten(flow.read, state, Answer(server), state) = state
      <3>1. server \in Stored BY <2>2 DEF TypeOK
      <3>2. \E p \in Terms : state = Flatten(flow.read, p, Answer(server), p)
        BY <1>1, <2>1, <2>2 DEF Frame, Current
      <3> QED BY <3>1, <3>2, RefreshIsIdempotent
    <2> QED BY <2>1, <2>2
  <1>5. flow.kind.plan = "kept_or_default" /\ config = "null" => state # "null"
    BY <1>1 DEF Frame, PlanStands, Plan
  <1> QED BY <1>1, <1>2, <1>3, <1>4, <1>5 DEF Settled

\* Every other step makes what was applied stale.
LEMMA StepSettled ==
    TypeOK /\ Frame /\ Worded /\ Holds /\ Settles(flow) /\ Settled /\ [Next]_vars => Settled'
  <1> SUFFICES ASSUME TypeOK, Frame, Worded, Holds, Settles(flow), Settled, [Next]_vars PROVE Settled' OBVIOUS
  <1>1. CASE ~applied' BY <1>1 DEF Settled
  <1>2. CASE UNCHANGED <<flow, old, hides, config, server, state, applied>>
    BY <1>2 DEF Settled, Goal, Flatten, Answer
  <1>3. Refresh \/ NoChanges \/ Create \/ Update \/ ~applied' \/ UNCHANGED <<flow, old, hides, config, server, state, applied>>
    BY DEF Next, Terraform, PlanChanges, PlanRefused, UpdateMissing, Destroy, DestroyWarns, Forgotten,
           Fault, Failed, Import, Edit, Outside, Vanish, vars, terraform, world, history
  <1> QED BY <1>1, <1>2, <1>3, SettledByCreate, SettledByUpdate, SettledByRefresh, SettledByNoChanges

\* After an apply that ended well the next plan has no change of the attribute:
\* what Create and Update returned is what Read goes on returning.
THEOREM AppliesSettle ==
    ASSUME \A f \in Flows : Settles(f)
    PROVE  Spec => []AppliedSettles
  <1>1. Init => flow \in Flows /\ Settled BY InitRow DEF Init, Settled
  <1>2. TypeOK /\ Frame /\ Worded /\ Holds /\ flow \in Flows /\ Settled /\ [Next]_vars => (flow \in Flows /\ Settled)'
    BY StepRow, StepSettled
  <1>3. TypeOK /\ Frame /\ Settled => AppliedSettles
    <2> SUFFICES ASSUME TypeOK, Frame, Settled, doing = "planned", state # "none", applied, ~others, plan # state,
                        ~Blank
                 PROVE  Withdrawn
      BY DEF AppliedSettles
    <2>1. plan = Plan(others) /\ flow.kind.plan \in Plans /\ config \in Configs(flow)
      BY FlowTypes DEF TypeOK, Frame, PlanStands, World
    <2>2. Goal \notin KeptPlans(flow) BY GoalIsPlanned DEF Settled
    <2>k. Goal \notin (Configs(flow) \cap Settings)
                      \cup (IF flow.kind.plan = "optional" /\ ~Withdrawable(flow) THEN {"null"} ELSE {})
      BY <2>2, KeptPlansAreGoals DEF TypeOK
    <2>3. config = "null"
      BY <2>1, <2>k DEF Goal, Settings, Known, Stored, Configs, Blank
    <2>4. flow.kind.plan \notin {"default", "required"}
      BY <2>1, <2>k, <2>3 DEF Goal, Settings, Known, Stored, Configs
    <2>5. flow.kind.plan # "kept_or_default" BY <2>1, <2>3 DEF Plan, Settled
    <2>6. flow.kind.plan \notin {"kept", "kept_output", "computed", "output"} BY <2>1, <2>3 DEF Plan
    <2>7. flow.kind.plan # "default_empty" BY <2>1, <2>3 DEF Plan, Blank
    <2>8. flow.kind.plan = "optional" /\ plan = "null" BY <2>1, <2>3, <2>4, <2>5, <2>6, <2>7 DEF Plan, Plans
    <2> QED BY <2>k, <2>3, <2>8 DEF Goal, Withdrawn, Withdrawable
  <1> QED BY <1>1, <1>2, <1>3, AttributeFrame, AttributeContents, PTL DEF Spec

-----------------------------------------------------------------------------
\* What the state knows of Coolify.

\* What a request carries of a value is the value, or nothing.
LEMMA SentIsPlan ==
    ASSUME NEW s \in Sendings, NEW p \in Stored, NEW o
    PROVE  /\ p \in Settings => Sent(s, p, o) \in {p, "omitted"}
           /\ Sent(s, p, p) \in {p, "omitted"}
  BY DEF Sendings, Sent, Settings, Stored, Known, Unset, IfKnown, IfNonEmpty, Always, IfNonDefault, Filled,
         IfChanged, IfDifferent, ForUpdate

\* A reading that is not blind returns what Coolify holds.
LEMMA ReadSees ==
    ASSUME NEW f \in AllKindsOfFlows, NEW p \in Terms, NEW t \in Settings, ~BlindAt(f, Read(f.read, p, t, p), t)
    PROVE  Read(f.read, p, t, p) = t
  <1>1. f.read \in Readings BY FlowTypes
  <1> QED BY <1>1
          DEF BlindAt, Readings, Read, Terms, Settings, Stored, Known, Unset, Direct, OrNull, FromAPI, OrDefault,
              IfPresent, PreserveEmpty, PresentOrDefault, PresentOrEmpty, IfConfigured, OrClear, SeedIfConfigured,
              Seed, SeedOrNull, DefaultIfUnknown, NormalizeUnknown

\* What a refresh has read of an object that Read can see, is so.
LEMMA SeenIsHeld ==
    TypeOK /\ Frame /\ doing \in {"refreshed", "planned"} /\ state # "none" /\ server # "none"
    /\ (flow.kind.live => ~drifted) /\ ~Blind => state = server /\ state \in Settings
  <1> SUFFICES ASSUME TypeOK, Frame, doing \in {"refreshed", "planned"}, state # "none", server # "none",
                      flow.kind.live => ~drifted, ~Blind
               PROVE  state = server /\ state \in Settings
    OBVIOUS
  <1>1. PICK p \in Terms : state = Flatten(flow.read, p, Answer(server), p) BY DEF Frame, Current
  <1>2. Answer(server) # "empty" /\ ~BlindAt(flow, state, server) BY DEF Blind
  <1>3. ~old /\ Answer(server) = server /\ server \in Settings BY <1>2 DEF Answer, TypeOK, Settings, Known
  <1>4. state = Read(flow.read, p, server, p) BY <1>1, <1>3 DEF Flatten
  <1> QED BY <1>2, <1>3, <1>4, ReadSees DEF TypeOK

\* The answers depend on the token alone, where nothing is withheld from an
\* older Coolify.
Reply == IF hides THEN [t \in Stored |-> "empty"] ELSE [t \in Stored |-> t]

\* Reply is one of the answers that the rules consider.
LEMMA ReplyIsAnswer ==
    ASSUME World, ~old, ~flow.kind.own
    PROVE  Reply \in Answers(flow) /\ \A t \in Stored : Reply[t] = Answer(t)
  BY DEF World, Reply, Answers, Answer

\* A state without its object was last told of it otherwise; and unless
\* Read leaves it alone, it does not survive the next refresh.
Missing ==
    state # "none" /\ server = "none" =>
        drifted /\ (doing \in {"refreshed", "planned"} => flow.unseen)

\* An object goes behind Terraform, or by a Delete whose answer was lost.
LEMMA StepMissing == TypeOK /\ TypeOK' /\ Missing /\ [Next]_vars => Missing'
  <1> SUFFICES ASSUME TypeOK, TypeOK', Missing, [Next]_vars, state' # "none", server' = "none"
               PROVE  drifted' /\ (doing' \in {"refreshed", "planned"} => flow.unseen)
    BY StepRow DEF Missing
  <1>1. CASE Refresh
    BY <1>1 DEF Refresh, Missing, history
  <1>2. CASE Create \/ Update
    BY <1>2, CreateTypes, UpdateTypes DEF Stored
  <1>3. CASE Fault
    BY <1>3 DEF Fault, Failed, Missing
  <1>4. CASE Vanish BY <1>4 DEF Vanish, terraform
  <1>5. CASE Outside BY <1>5, FlowTypes DEF Outside, TypeOK, Stored
  <1>6. CASE UNCHANGED <<state, server>> /\ (drifted => drifted') /\ doing' \notin {"refreshed", "planned"}
    BY <1>6 DEF Missing
  <1>7. CASE PlanChanges BY <1>7 DEF PlanChanges, Planning, Missing, history
  <1>8. CASE UNCHANGED vars BY <1>8 DEF vars, terraform, history, Missing
  <1>9. CASE Destroy \/ DestroyWarns BY <1>9 DEF Destroy, DestroyWarns, Forgotten
  <1>10. CASE Import BY <1>10 DEF Import
  <1>11. CASE PlanRefused \/ NoChanges \/ UpdateMissing \/ Edit
    BY <1>6, <1>11 DEF PlanRefused, NoChanges, UpdateMissing, Failed, Edit, history
  <1> QED BY <1>1, <1>2, <1>3, <1>4, <1>5, <1>7, <1>8, <1>9, <1>10, <1>11 DEF Next, Terraform

\* What was applied is what was planned of the configuration.
Applied ==
    applied =>
        /\ state # "none"
        /\ server = "none" => flow.unseen
        /\ config # "null" => plan = config
        /\ config = "null" /\ flow.kind.plan = "default_empty" => plan = "empty"
        /\ config = "null" /\ flow.kind.plan = "optional" => plan = "null"

\* What is configured is planned, whatever else changes.
LEMMA PlanIsConfigured ==
    ASSUME NEW others1 \in BOOLEAN
    PROVE  /\ config # "null" => Plan(others1) = config
           /\ config = "null" /\ flow.kind.plan = "default_empty" => Plan(others1) = "empty"
           /\ config = "null" /\ flow.kind.plan = "optional" => Plan(others1) = "null"
  BY DEF Plan

\* The plan made after an apply is the plan that was applied, where the
\* configuration decides it.
LEMMA StepApplied == TypeOK /\ Frame /\ Missing /\ Applied /\ [Next]_vars => Applied'
  <1> SUFFICES ASSUME TypeOK, Frame, Missing, Applied, [Next]_vars, applied' PROVE Applied' BY DEF Applied
  <1>1. CASE Create \/ Update \/ NoChanges
    <2>1. /\ UNCHANGED <<flow, config, plan>> /\ doing = "planned"
      BY <1>1 DEF Create, Update, NoChanges, Creating, Updating, world
    <2>2. plan = Plan(others) /\ others \in BOOLEAN BY <2>1 DEF Frame, PlanStands, TypeOK
    <2>3. state' # "none" /\ (server' = "none" => flow.unseen)
      <3>1. CASE Create \/ Update
        BY <3>1, CreateTypes, UpdateTypes DEF Terms, Known, Stored
      <3>2. CASE NoChanges BY <3>2 DEF NoChanges, Missing
      <3> QED BY <1>1, <3>1, <3>2
    <2> QED BY <2>1, <2>2, <2>3, PlanIsConfigured DEF Applied
  <1>2. CASE Refresh
    <2>1. UNCHANGED <<flow, config, plan, server, applied>> /\ state # "none" BY <1>2 DEF Refresh, world, history
    <2>2. server # "none" => state' \in Terms
      BY <1>2, <2>1, ReadIsTerm DEF Refresh, TypeOK, Terms
    <2>3. server = "none" => state' = state BY <1>2, <2>1 DEF Refresh, Applied
    <2>4. state' # "none" BY <2>1, <2>2, <2>3 DEF Terms, Known, Stored
    <2> QED BY <2>1, <2>4 DEF Applied
  <1>3. CASE PlanChanges
    <2>1. UNCHANGED <<flow, config, state, server, applied>> /\ plan' = Plan(others') /\ others' \in BOOLEAN
      BY <1>3 DEF PlanChanges, world, history
    <2> QED BY <2>1, PlanIsConfigured DEF Applied
  <1>4. CASE UNCHANGED <<flow, config, plan, state, server, applied>>
    BY <1>4 DEF Applied
  <1> QED BY <1>1, <1>2, <1>3, <1>4
          DEF Next, Terraform, PlanRefused, UpdateMissing, Failed, Destroy, DestroyWarns, Forgotten, Fault,
              Import, Edit, Outside, Vanish, vars, world, terraform, history

\* What is missing was changed past Terraform, and what was applied was planned,
\* for any row.
THEOREM AttributeHistory == Spec => [](Missing /\ Applied)
  <1>1. Init => Missing /\ Applied BY DEF Init, Missing, Applied
  <1>2. TypeOK /\ TypeOK' /\ Frame /\ Missing /\ Applied /\ [Next]_vars => (Missing /\ Applied)'
    BY StepMissing, StepApplied
  <1> QED BY <1>1, <1>2, AttributeFrame, PTL DEF Spec

-----------------------------------------------------------------------------
\* The state says what Coolify holds, as long as nobody changed it past
\* Terraform.
Tracking ==
    Tracked(flow) /\ ~old /\ ~drifted /\ state # "none" =>
        Agrees(flow, state, server, Answer(server))

\* What Create saves, and from what.
LEMMA CreateSaves ==
    ASSUME TypeOK, Frame, Create, ~old
    PROVE  state' = SavedByCreate(flow, plan, Answer(server'))
  BY DEF Create, Conclude, SavedByCreate, Flatten

\* What Update saves, and from what.
LEMMA UpdateSaves ==
    ASSUME TypeOK, Frame, Update, ~old
    PROVE  state' = SavedByUpdate(flow, plan, Answer(server'), state)
  BY DEF Update, Conclude, SavedByUpdate, Flatten

\* What it leaves of what was there.
LEMMA UpdateLeaves ==
    ASSUME TypeOK, server \in Stored, ~old, ~flow.kind.own
    PROVE  Updated = Leaves(flow, plan, state, server)
  BY DEF Updated, Leaves, Stores, Begin, Stored

\* Reading again what was just read changes nothing.
LEMMA ReadAgain ==
    ASSUME TypeOK, Frame, doing \in {"refreshed", "planned"}, state # "none", server # "none",
           flow.kind.live => ~drifted, ~old
    PROVE  Read(flow.read, state, Answer(server), state) = state
  <1>1. server \in Stored BY DEF TypeOK
  <1>2. \E p \in Terms : state = Flatten(flow.read, p, Answer(server), p) BY DEF Frame, Current
  <1>3. Flatten(flow.read, state, Answer(server), state) = state BY <1>1, <1>2, RefreshIsIdempotent
  <1> QED BY <1>3 DEF Flatten

\* A Create that tracks saves a state that says what Coolify holds.
LEMMA TrackingByCreate ==
    ASSUME TypeOK, Frame, Worded, Holds, Tracks(flow), Create
    PROVE  Tracking'
  <1> SUFFICES ASSUME Tracked(flow), ~old
               PROVE  Agrees(flow, state', server', Answer(server'))
    BY DEF Tracking, Answer, Create, world
  <1>1. Creating /\ ~flow.kind.own /\ server' \in Stored BY CreateTypes DEF Create, Tracked
  <1>2. server' \in Makes(flow, plan) /\ plan \in Firsts(flow) BY <1>1, CreateMakes, FirstPlans DEF Create
  <1>3. Reply \in Answers(flow) /\ Reply[server'] = Answer(server') BY <1>1, ReplyIsAnswer DEF Frame
  <1>4. Agrees(flow, SavedByCreate(flow, plan, Reply[server']), server', Reply[server'])
    BY <1>2, <1>3 DEF Tracks, CreateTracks
  <1> QED BY <1>3, <1>4, CreateSaves

\* So does an Update, of a state that did.
LEMMA TrackingByUpdate ==
    ASSUME TypeOK, Frame, Missing, Tracks(flow), Tracking, Update
    PROVE  Tracking'
  <1> SUFFICES ASSUME Tracked(flow), ~old, ~drifted
               PROVE  Agrees(flow, state', server', Answer(server'))
    BY DEF Tracking, Answer, Update, world
  <1>1. Updating /\ state # "none" /\ ~flow.kind.own /\ server' \in Stored /\ server' = Updated /\ doing = "planned"
    BY UpdateTypes DEF Update, Updating, Tracked
  <1>2. server \in Stored /\ state \in Terms BY <1>1 DEF Missing, TypeOK, Terms
  <1>3. Reply \in Answers(flow) /\ \A t \in Stored : Reply[t] = Answer(t) BY <1>1, ReplyIsAnswer DEF Frame
  <1>4. Read(flow.read, state, Reply[server], state) = state
    BY <1>1, <1>2, <1>3, ReadAgain DEF Stored
  <1>5. Tells(flow, state, server) BY <1>1 DEF Tracking, Agrees
  <1>6. server' = Leaves(flow, plan, state, server) BY <1>1, <1>2, UpdateLeaves
  <1>7. plan \in Nexts(flow, state) BY <1>1, NextPlans
  <1>8. Agrees(flow, SavedByUpdate(flow, plan, Reply[server'], state), server', Reply[server'])
    BY <1>2, <1>3, <1>4, <1>5, <1>6, <1>7 DEF Tracks, UpdateTracks
  <1> QED BY <1>1, <1>3, <1>8, UpdateSaves

\* A refresh keeps it so: what it reads was already agreed on.
LEMMA TrackingByRefresh ==
    ASSUME TypeOK, TypeOK', Missing, Tracking, Refresh
    PROVE  Tracking'
  <1>1. UNCHANGED <<flow, old, hides, server, drifted>> /\ state # "none" BY DEF Refresh, world, history
  <1> SUFFICES ASSUME Tracked(flow), ~old, ~drifted
               PROVE  Agrees(flow, state', server, Answer(server))
    BY <1>1 DEF Tracking, Answer
  <1>2. server # "none" /\ server \in Stored /\ state \in Terms BY <1>1 DEF Missing, TypeOK, Terms
  <1>3. state' = Read(flow.read, state, Answer(server), state) BY <1>2 DEF Refresh, Flatten
  <1>4. Read(flow.read, state', Answer(server), state') = state'
    BY <1>2, <1>3, RefreshIsIdempotent DEF Flatten
  <1>5. Agrees(flow, state, server, Answer(server)) BY <1>1 DEF Tracking
  <1> QED BY <1>3, <1>4, <1>5 DEF Agrees

\* Steps that touch neither the state nor what Coolify holds.
LEMMA QuietSteps ==
    ASSUME PlanChanges \/ PlanRefused \/ NoChanges \/ UpdateMissing \/ Edit \/ UNCHANGED vars
    PROVE  UNCHANGED <<flow, old, hides, fill, state, server>> /\ (drifted => drifted')
  <1>1. CASE PlanChanges BY <1>1 DEF PlanChanges, world, history
  <1>2. CASE PlanRefused BY <1>2 DEF PlanRefused, world, history
  <1>3. CASE NoChanges BY <1>3 DEF NoChanges, world
  <1>4. CASE UpdateMissing BY <1>4 DEF UpdateMissing, Failed, world
  <1>5. CASE Edit BY <1>5 DEF Edit, world
  <1>6. CASE UNCHANGED vars BY <1>6 DEF vars, world, terraform, history
  <1> QED BY <1>1, <1>2, <1>3, <1>4, <1>5, <1>6

\* Whatever else changes Coolify is remembered as drift.
LEMMA StepTracking ==
    TypeOK /\ TypeOK' /\ Frame /\ Worded /\ Holds /\ Missing /\ Tracks(flow) /\ Tracking /\ [Next]_vars => Tracking'
  <1> SUFFICES ASSUME TypeOK, TypeOK', Frame, Worded, Holds, Missing, Tracks(flow), Tracking, [Next]_vars
               PROVE  Tracking'
    OBVIOUS
  <1>1. CASE drifted' \/ state' = "none" BY <1>1 DEF Tracking
  <1>2. CASE UNCHANGED <<flow, old, hides, state, server>> /\ (drifted => drifted')
    BY <1>2 DEF Tracking, Answer
  <1>3. CASE Fault
    <2>1. CASE server' # server BY <1>1, <1>3, <2>1 DEF Fault, Failed
    <2>2. CASE server' = server BY <1>2, <1>3, <2>2 DEF Fault, Failed, world
    <2> QED BY <2>1, <2>2
  <1>4. CASE Destroy \/ DestroyWarns \/ Import \/ Outside \/ Vanish
    BY <1>1, <1>4 DEF Destroy, DestroyWarns, Forgotten, Import, Outside, Vanish
  <1>5. CASE PlanChanges \/ PlanRefused \/ NoChanges \/ UpdateMissing \/ Edit \/ UNCHANGED vars
    BY <1>2, <1>5, QuietSteps
  <1> QED BY <1>3, <1>4, <1>5, TrackingByCreate, TrackingByUpdate, TrackingByRefresh DEF Next, Terraform

-----------------------------------------------------------------------------
\* An update of something that is not there is about what Read leaves alone.
LEMMA MissingIsUnseen ==
    TypeOK /\ Missing /\ UnseenIsKept(flow) /\ doing \in {"refreshed", "planned"} /\ state # "none"
    /\ server = "none" => Unseen
  BY DEF Missing, UnseenIsKept, Unseen, Blind, BlindAt

\* A state that is the plan says what Coolify holds, if Read can see it.
LEMMA UnchangedIsHeld ==
    TypeOK /\ Frame /\ Missing /\ Tracking /\ UnseenIsKept(flow) /\ LiveIsOutput(flow)
    /\ doing = "planned" /\ state # "none" /\ plan = state /\ (others \/ config # "null") /\ state \in Settings
    /\ ~flow.kind.own /\ ~Trusted(flow) /\ ~old => server = state \/ Unseen
  <1> SUFFICES ASSUME TypeOK, Frame, Missing, Tracking, UnseenIsKept(flow), LiveIsOutput(flow),
                      doing = "planned", state # "none", plan = state, others \/ config # "null", state \in Settings,
                      ~flow.kind.own, ~Trusted(flow), ~old
               PROVE  server = state \/ Unseen
    OBVIOUS
  <1>1. ~flow.kind.live
    <2>1. plan = Plan(others) /\ config \in Configs(flow) BY DEF Frame, PlanStands, World
    <2>2. plan \notin Unset BY DEF Settings, Known, Stored, Unset
    <2> QED BY <2>1, <2>2 DEF LiveIsOutput, Plan, Configs, Unset
  <1>2. CASE server = "none" BY <1>2, MissingIsUnseen
  <1>3. CASE server # "none" /\ drifted BY <1>1, <1>3, SeenIsHeld DEF Unseen
  <1>4. CASE server # "none" /\ ~drifted BY <1>4 DEF Tracking, Tracked, Agrees, Tells
  <1> QED BY <1>2, <1>3, <1>4

\* So an update that plans no change sends nothing new.
LEMMA UnchangedUpdate ==
    ASSUME TypeOK, Frame, Missing, Tracking, LeavesUnchanged(flow), Update, plan = state
    PROVE  server' = server \/ Unseen \/ Blank
  <1>1. Updating /\ server' = Updated /\ state \in Terms /\ state # "none" /\ doing = "planned" /\ others
    BY DEF Update, Updating, Changes, TypeOK, Terms
  <1>2. UnseenIsKept(flow) /\ LiveIsOutput(flow) /\ LeavesOpen(flow) BY DEF LeavesUnchanged
  <1> SUFFICES ASSUME server \in Stored, ~Blank PROVE server' = server \/ Unseen
    BY <1>1, <1>2, MissingIsUnseen DEF TypeOK
  <1> DEFINE x == Sent(flow.patch, plan, state)
  <1>3. Updated = Stores(x, Begin(server)) BY DEF Updated, Stored
  <1>4. CASE old \/ flow.kind.own
    <2>1. ~flow.reset BY <1>4 DEF LeavesUnchanged, Frame, World
    <2> QED BY <1>1, <1>3, <1>4, <2>1 DEF Stores, Begin
  <1>5. CASE state = "null"
    <2>1. config = "null" BY <1>1, <1>5 DEF Frame, PlanStands, Plan
    <2> QED BY <1>2, <1>5, <2>1, OpenIsLeft DEF Unset, Stored
  <1>6. CASE ~old /\ ~flow.kind.own /\ state # "null"
    <2>1. plan \in Settings /\ flow.patch \in Sendings
      BY <1>1, <1>6, FlowTypes DEF Blank, Terms, Settings, TypeOK
    <2>2. x \in {plan, "omitted"} BY <2>1, SentIsPlan DEF Settings, Known
    <2>3. CASE x = "omitted"
      <3>1. ~flow.reset BY <2>1, <2>3 DEF LeavesUnchanged, Settings, Known, Stored
      <3> QED BY <1>1, <1>3, <2>3, <3>1 DEF Stores, Begin
    <2>4. CASE x = plan /\ plan # "omitted"
      <3>1. server' = plan BY <1>1, <1>3, <1>6, <2>4 DEF Stores
      <3>2. flow.patch # "never" BY <2>4 DEF Sent
      <3>3. ~Trusted(flow) BY <3>2 DEF LeavesUnchanged
      <3> QED BY <1>1, <1>2, <1>6, <2>1, <3>1, <3>3, UnchangedIsHeld
    <2> QED BY <2>1, <2>2, <2>3, <2>4 DEF Settings, Known, Stored
  <1> QED BY <1>1, <1>4, <1>5, <1>6

\* An update of other attributes leaves an unchanged one as Coolify has it, also
\* after faults, imports and changes made past Terraform that Read can see.
THEOREM UnchangedStays ==
    ASSUME \A f \in Flows : Tracks(f) /\ LeavesUnchanged(f)
    PROVE  Spec => UnchangedIsLeft
  <1>1. Init => flow \in Flows /\ Tracking BY InitRow DEF Init, Tracking
  <1>2. TypeOK /\ TypeOK' /\ Frame /\ Worded /\ Holds /\ Missing /\ flow \in Flows /\ Tracking /\ [Next]_vars =>
            (flow \in Flows /\ Tracking)'
    BY StepRow, StepTracking
  <1>3. TypeOK /\ Frame /\ Missing /\ flow \in Flows /\ Tracking /\ [Next]_vars =>
            [Update /\ plan = state => server' = server \/ Unseen \/ Blank]_vars
    BY UnchangedUpdate
  <1> QED BY <1>1, <1>2, <1>3, AttributeFrame, AttributeContents, AttributeHistory, PTL DEF Spec, UnchangedIsLeft

\* And an update that changes what Coolify holds, changes what is planned.
LEMMA RestartedUpdate ==
    ASSUME TypeOK, Frame, Missing, Tracking, LeavesUnchanged(flow), Restarts(flow), Update, flow.redeploys,
           server' # server
    PROVE  restarted' \/ Unseen \/ Blank
  <1>1. /\ Updating /\ server' = Updated /\ state \in Terms /\ state # "none" /\ doing = "planned"
        /\ restarted' = (flow.restarts /\ FieldChanged) /\ UnseenIsKept(flow)
    BY DEF Update, Updating, TypeOK, Terms, LeavesUnchanged
  <1> SUFFICES ASSUME server \in Stored, ~Blank PROVE restarted' \/ Unseen
    BY <1>1, MissingIsUnseen DEF TypeOK
  <1> DEFINE x == Sent(flow.patch, plan, state)
  <1>2. Updated = Stores(x, Begin(server)) BY DEF Updated, Stored
  <1>3. CASE flow.kind.own \/ flow.patch = "never"
    <2>1. ~flow.reset BY <1>3 DEF LeavesUnchanged, Sent, Settings, Known, Stored
    <2>2. server' = server BY <1>1, <1>2, <1>3, <2>1 DEF Stores, Begin, Sent
    <2> QED BY <2>2
  <1>4. CASE plan = state BY <1>4, UnchangedUpdate
  <1>5. CASE /\ plan # state /\ ~FieldChanged /\ flow.restarts /\ ~flow.reset
             /\ \A p \in Nexts(flow, "empty") \cap Unset : Sent(flow.patch, p, "empty") = "omitted"
    <2>1. plan \in Unset /\ state \in {"null", "empty"} /\ plan \in Nexts(flow, state)
      BY <1>1, <1>5, NextPlans DEF FieldChanged, Always, Blank, TypeOK, Terms, Planned, Known, Stored, Unset
    <2>2. config = "null"
      BY <1>1, <2>1 DEF Frame, PlanStands, Plan, World, Configs, Unset, TypeOK, Known, Stored, Updating
    <2>3. CASE state = "null" BY <2>1, <2>2, <2>3, OpenIsLeft DEF LeavesUnchanged, Stored
    <2>4. CASE state = "empty"
      <3>1. x = "omitted" BY <1>5, <2>1, <2>4
      <3> QED BY <1>1, <1>2, <1>5, <3>1 DEF Stores, Begin
    <2> QED BY <2>1, <2>3, <2>4
  <1> QED BY <1>1, <1>3, <1>4, <1>5 DEF Restarts

\* An update that changes what Coolify stores of an application restarts it.
THEOREM RestartedWhenChanged ==
    ASSUME \A f \in Flows : Tracks(f) /\ LeavesUnchanged(f) /\ Restarts(f)
    PROVE  Spec => ChangeRestarts
  <1>1. Init => flow \in Flows /\ Tracking BY InitRow DEF Init, Tracking
  <1>2. TypeOK /\ TypeOK' /\ Frame /\ Worded /\ Holds /\ Missing /\ flow \in Flows /\ Tracking /\ [Next]_vars =>
            (flow \in Flows /\ Tracking)'
    BY StepRow, StepTracking
  <1>3. TypeOK /\ Frame /\ Missing /\ flow \in Flows /\ Tracking /\ [Next]_vars =>
            [Update /\ flow.redeploys /\ server' # server => restarted' \/ Unseen \/ Blank]_vars
    BY RestartedUpdate
  <1> QED BY <1>1, <1>2, <1>3, AttributeFrame, AttributeContents, AttributeHistory, PTL DEF Spec, ChangeRestarts

-----------------------------------------------------------------------------
\* Coolify holds what was applied, wherever Read would show otherwise.
Served ==
    applied /\ config \in Settings /\ Tracked(flow) => server = config \/ old \/ Unseen

\* What is configured, Create sends.
LEMMA ServedByCreate ==
    ASSUME TypeOK, Frame, Worded, Holds, Serves(flow), Create
    PROVE  Served'
  <1> SUFFICES ASSUME config \in Settings, Tracked(flow), ~old PROVE server' = config
    BY DEF Served, Create, world
  <1>1. Creating /\ ~flow.kind.own /\ doing = "planned" BY DEF Create, Creating, Tracked
  <1>2. plan = config
    BY <1>1, PlanIsConfigured DEF Frame, PlanStands, TypeOK, Settings, Known, Stored
  <1>3. server' \in Makes(flow, plan) /\ plan \in Firsts(flow) BY <1>1, CreateMakes, FirstPlans DEF Create
  <1> QED BY <1>2, <1>3 DEF Serves

\* What a Create or an Update returned of a known plan, where it ended well.
LEMMA AppliedIsPlan ==
    ASSUME Create \/ Update, applied', plan # "unknown"
    PROVE  state' = plan
  BY DEF Create, Update, Conclude, NormalizeUnknown

\* What is configured, Update sends, or the state has said that it is there.
LEMMA ServedByUpdate ==
    ASSUME TypeOK, Frame, Missing, Tracking, LeavesUnchanged(flow), Serves(flow), Update
    PROVE  Served'
  <1>1. UNCHANGED <<flow, old, hides, config, plan, drifted>> /\ server' = Updated BY DEF Update, world
  <1>2. /\ Updating /\ (server # "none" \/ flow.upserts) /\ state \in Terms /\ state # "none" /\ doing = "planned"
        /\ UnseenIsKept(flow) /\ LiveIsOutput(flow)
    BY DEF Update, Updating, TypeOK, Terms, LeavesUnchanged
  <1> SUFFICES ASSUME applied', config \in Settings, Tracked(flow), ~old, server' # config PROVE Unseen'
    BY <1>1 DEF Served
  <1> DEFINE x == Sent(flow.patch, plan, state)
  <1>3. plan = config /\ config # "null" /\ ~flow.kind.own /\ ~Trusted(flow)
    BY <1>2, PlanIsConfigured DEF Frame, PlanStands, TypeOK, Settings, Known, Stored, Tracked
  <1>4. state' = plan BY <1>3, AppliedIsPlan DEF Settings, Known, Stored
  <1>5. plan \in Nexts(flow, state) /\ plan \in Configs(flow) BY <1>2, <1>3, NextPlans DEF Frame, World
  <1>6. x = "omitted"
    <2>1. x \in {plan, "omitted"} BY <1>3, FlowTypes, SentIsPlan DEF TypeOK, Settings, Known
    <2>2. x # plan BY <1>1, <1>3 DEF Updated, Stores, Settings, Known, Stored
    <2> QED BY <2>1, <2>2
  <1>7. CASE server = "none"
    BY <1>1, <1>2, <1>7 DEF Missing, UnseenIsKept, Unseen, Blind, BlindAt
  <1>8. CASE server # "none" /\ state = plan
    <2>1. ~flow.reset BY <1>3, <1>6, <1>8 DEF LeavesUnchanged, Settings, Known, Stored
    <2>2. server' = server BY <1>1, <1>6, <1>8, <2>1 DEF Updated, Stores, Begin
    <2>3. Unseen BY <1>2, <1>3, <1>8, <2>2, UnchangedIsHeld
    <2> QED BY <1>1, <1>4, <1>8, <2>2, <2>3 DEF Unseen, Blind, Answer
  <1>9. CASE server # "none" /\ state # plan
    <2>1. server \in Stored /\ Answer(server) \in Stored BY <1>9, WorldTypes DEF TypeOK
    <2>2. \A b \in Stored : <<state, b>> \in Sights(flow) =>
            ~flow.reset /\ flow.kind.replace = "if_known" /\ state = "null" /\ b = "empty"
      <3> SUFFICES ASSUME NEW b \in Stored, <<state, b>> \in Sights(flow)
                   PROVE  ~flow.reset /\ flow.kind.replace = "if_known" /\ state = "null" /\ b = "empty"
        OBVIOUS
      <3> DEFINE sight == <<state, b>>
      <3>1. sight[1] = state /\ sight \in Sights(flow) OBVIOUS
      <3>2. plan \in Nexts(flow, sight[1]) \cap Configs(flow) \cap Settings BY <1>3, <1>5, <3>1
      <3>3. sight = <<"null", "empty">> => state = "null" /\ b = "empty" OBVIOUS
      <3>4. plan # sight[1] /\ Sent(flow.patch, plan, sight[1]) # plan
        BY <1>3, <1>6, <1>9, <3>1 DEF Settings, Known, Stored
      <3> HIDE DEF sight
      <3> QED BY <3>1, <3>2, <3>3, <3>4 DEF Serves
    <2>3. Sights(flow) # Terms \X Stored BY <1>2, <2>2 DEF Stored
    <2>4. <<state, Answer(server)>> \in Sights(flow) BY <1>2, <2>3, UpdateSight
    <2>5. ~flow.reset /\ flow.kind.replace = "if_known" /\ state = "null" /\ Answer(server) = "empty"
      BY <2>1, <2>2, <2>4
    <2>6. server' = server BY <1>1, <1>6, <1>9, <2>5 DEF Updated, Stores, Begin
    <2>7. drifted BY <1>2, <2>5 DEF Tracking, Agrees, Tells
    <2> QED BY <1>1, <2>5, <2>6, <2>7 DEF Unseen, Blind, Answer
  <1> QED BY <1>7, <1>8, <1>9

\* A plan without changes says that it is there.
LEMMA ServedByNoChanges ==
    ASSUME TypeOK, Frame, Missing, Tracking, LeavesUnchanged(flow), NoChanges
    PROVE  Served'
  <1>1. UNCHANGED <<flow, old, hides, config, plan, state, server, drifted>> BY DEF NoChanges, world
  <1> SUFFICES ASSUME config \in Settings, Tracked(flow), ~old PROVE server = config \/ Unseen
    BY <1>1 DEF Served, Unseen, Blind, Answer
  <1>2. doing = "planned" /\ state # "none" /\ plan = state /\ config # "null"
    BY DEF NoChanges, Changes, Settings, Known, Stored
  <1>3. plan = config BY <1>2, PlanIsConfigured DEF Frame, PlanStands, TypeOK
  <1> QED BY <1>2, <1>3, UnchangedIsHeld DEF LeavesUnchanged, Tracked

\* A refresh of what settled sees no less than before.
LEMMA ServedByRefresh ==
    ASSUME TypeOK, Frame, Settled, Settled', Applied', Served, Refresh
    PROVE  Served'
  <1>1. UNCHANGED <<flow, old, hides, config, plan, server, drifted, applied>> /\ state # "none"
    BY DEF Refresh, world, history
  <1> SUFFICES ASSUME applied, config \in Settings PROVE state' = state
    BY <1>1 DEF Served, Unseen, Blind, Answer
  <1>2. Goal = config /\ Goal' = config BY <1>1 DEF Goal, Settings, Known, Stored
  <1>3. Goal \in KeptPlans(flow) BY <1>2, KeptPlansAreGoals DEF TypeOK, Frame, World
  <1>4. state = config BY <1>1, <1>2, <1>3 DEF Settled
  <1>5. state' = config BY <1>1, <1>2, <1>3 DEF Settled, Applied
  <1> QED BY <1>4, <1>5

\* No other step keeps what was applied and changes Coolify.
LEMMA StepServed ==
    TypeOK /\ Frame /\ Worded /\ Holds /\ Missing /\ Applied' /\ Tracking /\ LeavesUnchanged(flow) /\ Serves(flow)
    /\ Settled /\ Settled' /\ Served /\ [Next]_vars => Served'
  <1> SUFFICES ASSUME TypeOK, Frame, Worded, Holds, Missing, Applied', Tracking, LeavesUnchanged(flow), Serves(flow),
                      Settled, Settled', Served, [Next]_vars
               PROVE  Served'
    OBVIOUS
  <1>1. CASE ~applied' BY <1>1 DEF Served
  <1>2. CASE UNCHANGED <<flow, old, hides, config, state, server, applied, drifted>>
    BY <1>2 DEF Served, Unseen, Blind, Answer
  <1>3. CASE PlanChanges BY <1>2, <1>3 DEF PlanChanges, world, history
  <1>6. CASE PlanRefused BY <1>2, <1>6 DEF PlanRefused, world, history
  <1>4. CASE UNCHANGED vars BY <1>2, <1>4 DEF vars, world, terraform, history
  <1>5. CASE UpdateMissing \/ Destroy \/ DestroyWarns \/ Fault \/ Import \/ Edit \/ Outside \/ Vanish
    BY <1>1, <1>5 DEF UpdateMissing, Failed, Destroy, DestroyWarns, Forgotten, Fault, Import, Edit, Outside, Vanish
  <1> QED BY <1>3, <1>4, <1>5, <1>6, ServedByCreate, ServedByUpdate, ServedByNoChanges, ServedByRefresh DEF Next, Terraform

\* After an apply that ended well Coolify holds what the configuration says,
\* wherever Read would show otherwise.
THEOREM ServedWhenApplied ==
    ASSUME \A f \in Flows : Tracks(f) /\ LeavesUnchanged(f) /\ Settles(f) /\ Serves(f)
    PROVE  Spec => []ConfiguredIsServed
  <1>1. Init => flow \in Flows /\ Settled /\ Tracking /\ Served BY InitRow DEF Init, Settled, Tracking, Served
  <1>2. TypeOK /\ TypeOK' /\ Frame /\ Worded /\ Holds /\ Missing /\ Applied'
          /\ flow \in Flows /\ Settled /\ Tracking /\ Served /\ [Next]_vars =>
            (flow \in Flows /\ Settled /\ Tracking /\ Served)'
    <2> SUFFICES ASSUME TypeOK, TypeOK', Frame, Worded, Holds, Missing, Applied', flow \in Flows, Settled, Tracking,
                        Served, [Next]_vars
                 PROVE  (flow \in Flows /\ Settled /\ Tracking /\ Served)'
      OBVIOUS
    <2>1. (flow \in Flows)' BY StepRow
    <2>2. Settled' BY StepSettled
    <2>3. Tracking' BY StepTracking
    <2>4. Served' BY <2>2, StepServed
    <2> QED BY <2>1, <2>2, <2>3, <2>4
  <1>3. TypeOK /\ Served => ConfiguredIsServed
    BY DEF TypeOK, Served, ConfiguredIsServed, Tracked, Trusted, TakenOnTrust, Blank, Settings
  <1> QED BY <1>1, <1>2, <1>3, AttributeFrame, AttributeContents, AttributeHistory, PTL DEF Spec

-----------------------------------------------------------------------------
\* Where the state says that nothing is set.

\* What nobody was told is what Coolify filled in: without the resource, and
\* where Coolify does not store the attribute at all.
Untold ==
    (state = "none" \/ flow.kind.own) /\ ~drifted => server \in Fills(flow) \cup {"none"}

\* So it is where Terraform's state says null.
Admitted ==
    Nullable(flow) /\ ~flow.kind.live /\ ~flow.kind.own /\ ~old /\ ~drifted /\ state # "none"
    /\ "null" \in {state, Read(flow.read, state, Answer(server), state)} => server \in Fills(flow)

\* Or Read cannot see that it is not.
Overlooked ==
    applied /\ state = "null" /\ Nullable(flow) /\ ~flow.kind.live /\ drifted /\ server # "none" =>
        server \in Fills(flow) \/ Blind

\* A Delete forgets everything with the object, or leaves drift behind.
LEMMA StepUntold == TypeOK /\ TypeOK' /\ World /\ Admits(flow) /\ Untold /\ [Next]_vars => Untold'
  <1> SUFFICES ASSUME TypeOK, TypeOK', World, Admits(flow), Untold, [Next]_vars,
                      state' = "none" \/ flow.kind.own, ~drifted'
               PROVE  server' \in Fills(flow) \cup {"none"}
    BY StepRow DEF Untold
  <1>1. CASE Create \/ Update
    <2>1. UNCHANGED drifted /\ state' \in Terms BY <1>1, CreateTypes, UpdateTypes DEF Create, Update
    <2>2. flow.kind.own /\ ~flow.reset BY <2>1 DEF Admits, Terms, Known, Stored
    <2>3. server' = IF server = "none" THEN fill ELSE server
      BY <1>1, <2>2 DEF Create, Created, Update, Updated, Stores, Begin
    <2> QED BY <2>1, <2>2, <2>3 DEF Untold, World
  <1>2. CASE Refresh
    <2>1. UNCHANGED <<server, drifted>> /\ state # "none" BY <1>2 DEF Refresh, history
    <2>2. CASE flow.kind.own BY <2>1, <2>2 DEF Untold
    <2>3. CASE state' = "none"
      <3>1. server # "none" => state' \in Terms BY <1>2, <2>1, ReadIsTerm DEF Refresh, TypeOK, Terms
      <3> QED BY <2>1, <2>3, <3>1 DEF Terms, Known, Stored
    <2> QED BY <2>2, <2>3
  <1>3. CASE Destroy \/ DestroyWarns
    <2>1. flow.deletes /\ ~flow.lenient BY <1>3 DEF Destroy, DestroyWarns, Forgotten, Admits
    <2> QED BY <1>3, <2>1 DEF Destroy, DestroyWarns, Left
  <1>4. CASE Fault BY <1>4 DEF Fault, Failed, Untold
  <1>5. CASE Import \/ Outside \/ Vanish BY <1>5 DEF Import, Outside, Vanish
  <1>6. CASE PlanChanges \/ PlanRefused \/ NoChanges \/ UpdateMissing \/ Edit \/ UNCHANGED vars
    BY <1>6, QuietSteps DEF Untold
  <1> QED BY <1>1, <1>2, <1>3, <1>4, <1>5, <1>6 DEF Next, Terraform

\* A Create saves null of what it has not sent.
LEMMA AdmittedByCreate ==
    ASSUME TypeOK, Frame, Untold, Admits(flow), Create
    PROVE  Admitted'
  <1>1. UNCHANGED <<flow, old, hides, drifted>> /\ Creating /\ state = "none" BY DEF Create, Creating, world
  <1> SUFFICES ASSUME Nullable(flow), ~flow.kind.live, ~flow.kind.own, ~old, ~drifted,
                      "null" \in {state', Read(flow.read, state', Answer(server'), state')}
               PROVE  server' \in Fills(flow)
    BY <1>1 DEF Admitted, Answer
  <1>2. (IF server = "none" THEN fill ELSE server) \in Fills(flow) BY <1>1 DEF Untold, Frame, World
  <1>3. server' \in MakesFrom(flow, Fills(flow), plan) /\ plan \in Firsts(flow) /\ server' \in Stored
    BY <1>1, <1>2, CreateMakesFrom, FirstPlans, CreateTypes DEF Create
  <1>4. Reply \in Answers(flow) /\ Reply[server'] = Answer(server') BY <1>3, ReplyIsAnswer DEF Frame
  <1>5. state' = SavedByCreate(flow, plan, Answer(server')) BY CreateSaves
  <1> QED BY <1>3, <1>4, <1>5 DEF Admits, CreateAdmits

\* So does an Update, of a state that was honest.
LEMMA AdmittedByUpdate ==
    ASSUME TypeOK, Frame, Missing, Admitted, Admits(flow), Update
    PROVE  Admitted'
  <1>1. UNCHANGED <<flow, old, hides, drifted>> /\ Updating /\ state # "none" /\ doing = "planned" /\ server' = Updated
    BY DEF Update, Updating, world
  <1> SUFFICES ASSUME Nullable(flow), ~flow.kind.live, ~flow.kind.own, ~old, ~drifted,
                      "null" \in {state', Read(flow.read, state', Answer(server'), state')}
               PROVE  server' \in Fills(flow)
    BY <1>1 DEF Admitted, Answer
  <1>2. server \in Stored /\ state \in Terms /\ server' \in Stored
    BY <1>1, UpdateTypes DEF Missing, TypeOK, Terms
  <1>3. Reply \in Answers(flow) /\ \A t \in Stored : Reply[t] = Answer(t) BY ReplyIsAnswer DEF Frame
  <1>4. Read(flow.read, state, Reply[server], state) = state
    BY <1>1, <1>2, <1>3, ReadAgain DEF Stored
  <1>5. state = "null" => server \in Fills(flow) BY <1>1 DEF Admitted
  <1>6. server' = Leaves(flow, plan, state, server) BY <1>1, <1>2, UpdateLeaves
  <1>7. plan \in Nexts(flow, state) BY <1>1, NextPlans
  <1>8. state' = SavedByUpdate(flow, plan, Reply[server'], state) BY <1>2, <1>3, UpdateSaves
  <1>9. "null" \in {state', Read(flow.read, state', Reply[server'], state')} BY <1>2, <1>3
  <1> QED BY <1>2, <1>3, <1>4, <1>5, <1>6, <1>7, <1>8, <1>9 DEF Admits, UpdateAdmits

\* A refresh was honest about what it reads next.
LEMMA AdmittedByRefresh ==
    ASSUME TypeOK, Missing, Admitted, Refresh
    PROVE  Admitted'
  <1>1. UNCHANGED <<flow, old, hides, server, drifted>> /\ state # "none" BY DEF Refresh, world, history
  <1> SUFFICES ASSUME Nullable(flow), ~flow.kind.live, ~flow.kind.own, ~old, ~drifted,
                      "null" \in {state', Read(flow.read, state', Answer(server), state')}
               PROVE  server \in Fills(flow)
    BY <1>1 DEF Admitted, Answer
  <1>2. server # "none" /\ server \in Stored /\ state \in Terms BY <1>1 DEF Missing, TypeOK, Terms
  <1>3. state' = Read(flow.read, state, Answer(server), state) BY <1>2 DEF Refresh, Flatten
  <1>4. Read(flow.read, state', Answer(server), state') = state'
    BY <1>2, <1>3, RefreshIsIdempotent DEF Flatten
  <1> QED BY <1>1, <1>3, <1>4 DEF Admitted

\* Whatever else changes Coolify is remembered as drift.
LEMMA StepAdmitted ==
    TypeOK /\ Frame /\ Missing /\ Untold /\ Admits(flow) /\ Admitted /\ [Next]_vars => Admitted'
  <1> SUFFICES ASSUME TypeOK, Frame, Missing, Untold, Admits(flow), Admitted, [Next]_vars PROVE Admitted' OBVIOUS
  <1>1. CASE drifted' \/ state' = "none" BY <1>1 DEF Admitted
  <1>2. CASE UNCHANGED <<flow, old, hides, state, server>> /\ (drifted => drifted')
    BY <1>2 DEF Admitted, Answer
  <1>3. CASE Fault
    <2>1. CASE server' # server BY <1>1, <1>3, <2>1 DEF Fault, Failed
    <2>2. CASE server' = server BY <1>2, <1>3, <2>2 DEF Fault, Failed, world
    <2> QED BY <2>1, <2>2
  <1>4. CASE Destroy \/ DestroyWarns \/ Import \/ Outside \/ Vanish
    BY <1>1, <1>4 DEF Destroy, DestroyWarns, Forgotten, Import, Outside, Vanish
  <1>5. CASE PlanChanges \/ PlanRefused \/ NoChanges \/ UpdateMissing \/ Edit \/ UNCHANGED vars
    BY <1>2, <1>5, QuietSteps
  <1> QED BY <1>3, <1>4, <1>5, AdmittedByCreate, AdmittedByUpdate, AdmittedByRefresh DEF Next, Terraform

\* A Create that finds something saves null where Read would not show it.
LEMMA OverlookedByCreate ==
    ASSUME TypeOK, Frame, Worded, Holds, Admits(flow), Create
    PROVE  Overlooked'
  <1>1. UNCHANGED <<flow, old, hides, drifted>> /\ Creating BY DEF Create, world
  <1> SUFFICES ASSUME Nullable(flow), ~flow.kind.live, state' = "null", ~BlindAt(flow, "null", server'),
                      Answer(server') # "empty"
               PROVE  server' \in Fills(flow)
    BY <1>1 DEF Overlooked, Blind, Answer
  <1>2. ~old /\ ~flow.kind.own /\ Answer(server') = server' /\ server' # "empty" BY DEF Answer
  <1>3. server' \in Makes(flow, plan) /\ plan \in Firsts(flow)
    BY <1>1, <1>2, CreateMakes, FirstPlans DEF Create
  <1>4. SavedByCreate(flow, plan, server') = "null" BY <1>2, CreateSaves
  <1> QED BY <1>2, <1>3, <1>4 DEF Admits, CreateOverlooks

\* So does an Update of something that drifted.
LEMMA OverlookedByUpdate ==
    ASSUME TypeOK, Frame, Missing, Admits(flow), Update
    PROVE  Overlooked'
  <1>1. UNCHANGED <<flow, old, hides, drifted>> /\ Updating /\ state # "none" /\ doing = "planned" /\ server' = Updated
    BY DEF Update, Updating, world
  <1> SUFFICES ASSUME Nullable(flow), ~flow.kind.live, state' = "null", ~BlindAt(flow, "null", server'),
                      Answer(server') # "empty"
               PROVE  server' \in Fills(flow)
    BY <1>1 DEF Overlooked, Blind, Answer
  <1>2. ~old /\ ~hides /\ ~flow.kind.own /\ Answer(server') = server' /\ server' # "empty" BY DEF Answer
  <1>3. server # "none" BY <1>1 DEF Missing, Admits, UnseenIsKept, BlindAt
  <1>4. server \in Stored /\ state \in Terms BY <1>1, <1>3 DEF TypeOK, Terms
  <1>5. Read(flow.read, state, server, state) = state
    BY <1>1, <1>2, <1>3, ReadAgain DEF Answer
  <1>6. server' = Leaves(flow, plan, state, server) BY <1>1, <1>2, <1>4, UpdateLeaves
  <1>7. plan \in Nexts(flow, state) BY <1>1, NextPlans
  <1>8. SavedByUpdate(flow, plan, server', state) = "null" BY <1>2, UpdateSaves
  <1> QED BY <1>2, <1>4, <1>5, <1>6, <1>7, <1>8 DEF Admits, UpdateOverlooks

\* A plan without changes was read before.
LEMMA OverlookedByNoChanges ==
    ASSUME TypeOK, Frame, NoChanges
    PROVE  Overlooked'
  <1>1. UNCHANGED <<flow, old, hides, state, server, drifted>> /\ doing = "planned" /\ state # "none"
    BY DEF NoChanges, world
  <1> SUFFICES ASSUME state = "null", ~flow.kind.live, server # "none", ~Blind PROVE FALSE
    BY <1>1 DEF Overlooked, Blind, Answer
  <1> QED BY <1>1, SeenIsHeld DEF Settings, Known, Stored

\* A refresh returns null of what it cannot see.
LEMMA OverlookedByRefresh ==
    ASSUME TypeOK, Refresh
    PROVE  Overlooked'
  <1>1. UNCHANGED <<flow, old, hides, server, drifted>> /\ state # "none" BY DEF Refresh, world, history
  <1> SUFFICES ASSUME state' = "null", server # "none", ~BlindAt(flow, state', server), Answer(server) # "empty"
               PROVE  FALSE
    BY <1>1 DEF Overlooked, Blind, Answer
  <1>2. ~old /\ Answer(server) = server /\ server \in Settings BY DEF Answer, TypeOK, Settings, Known
  <1>3. state' = Read(flow.read, state, server, state) /\ state \in Terms
    BY <1>1, <1>2 DEF Refresh, Flatten, TypeOK, Terms
  <1>4. state' = server BY <1>2, <1>3, ReadSees DEF TypeOK
  <1> QED BY <1>2, <1>4 DEF Settings, Known, Stored

\* No other step keeps what was applied and changes Coolify.
LEMMA StepOverlooked ==
    TypeOK /\ Frame /\ Worded /\ Holds /\ Missing /\ Admits(flow) /\ Overlooked /\ [Next]_vars => Overlooked'
  <1> SUFFICES ASSUME TypeOK, Frame, Worded, Holds, Missing, Admits(flow), Overlooked, [Next]_vars PROVE Overlooked'
    OBVIOUS
  <1>1. CASE ~applied' BY <1>1 DEF Overlooked
  <1>2. CASE UNCHANGED <<flow, old, hides, state, server, applied, drifted>>
    BY <1>2 DEF Overlooked, Blind, Answer
  <1>3. CASE PlanChanges BY <1>2, <1>3 DEF PlanChanges, world, history
  <1>4. CASE PlanRefused BY <1>2, <1>4 DEF PlanRefused, world, history
  <1>5. CASE UNCHANGED vars BY <1>2, <1>5 DEF vars, world, terraform, history
  <1>6. CASE UpdateMissing \/ Destroy \/ DestroyWarns \/ Fault \/ Import \/ Edit \/ Outside \/ Vanish
    BY <1>1, <1>6 DEF UpdateMissing, Failed, Destroy, DestroyWarns, Forgotten, Fault, Import, Edit, Outside, Vanish
  <1> QED BY <1>3, <1>4, <1>5, <1>6, OverlookedByCreate, OverlookedByUpdate, OverlookedByNoChanges,
             OverlookedByRefresh DEF Next, Terraform

\* Where a state of null cannot have settled, it is a withdrawal, or about
\* the empty string.
LEMMA NullSettles ==
    ASSUME TypeOK, Frame, Settled, Applied, applied, state = "null"
    PROVE  Nullable(flow) \/ Blank \/ Withdrawn
  <1> SUFFICES ASSUME ~Nullable(flow), ~Blank PROVE Withdrawn OBVIOUS
  <1>1. flow.kind.plan \in Plans /\ config \in Configs(flow) BY FlowTypes DEF TypeOK, Frame, World
  <1>2. Goal \notin KeptPlans(flow) \/ Goal = "null" BY DEF Settled
  <1>3. Goal \notin (Configs(flow) \cap Settings) BY <1>2, KeptPlansAreGoals DEF TypeOK, Settings, Known, Stored
  <1>4. config = "null"
    BY <1>1, <1>3 DEF Goal, Blank, Settings, Known, Stored, TypeOK
  <1>5. flow.kind.plan \notin {"required", "default"}
    BY <1>1, <1>3, <1>4 DEF Goal, Configs, Settings, Known, Stored
  <1>6. flow.kind.plan \notin {"default_empty", "kept_or_default"} BY <1>4 DEF Applied, Settled, Blank
  <1> QED BY <1>1, <1>4, <1>5, <1>6 DEF Nullable, Plans, Withdrawable, Withdrawn, Applied

\* The three cases together.
LEMMA RemovalHolds ==
    TypeOK /\ Frame /\ Missing /\ Applied /\ Settled /\ Untold /\ Admitted /\ Overlooked /\ Admits(flow)
    => RemovalIsHonest
  <1> SUFFICES ASSUME TypeOK, Frame, Missing, Applied, Settled, Untold, Admitted, Overlooked, Admits(flow),
                      applied, state = "null", ~flow.kind.live, ~old, ~Unseen, ~Blank, ~Withdrawn
               PROVE  server \in Fills(flow)
    BY DEF RemovalIsHonest
  <1>1. Nullable(flow) BY NullSettles
  <1>2. server # "none" BY DEF Applied, Missing, Admits, UnseenIsKept, Unseen, Blind, BlindAt
  <1>3. CASE drifted BY <1>1, <1>2, <1>3 DEF Overlooked, Unseen
  <1>4. CASE ~drifted /\ flow.kind.own BY <1>2, <1>4 DEF Untold
  <1>5. CASE ~drifted /\ ~flow.kind.own BY <1>1, <1>5 DEF Admitted
  <1> QED BY <1>3, <1>4, <1>5

\* Where the state says that nothing is set after an apply, nothing is: what was
\* removed from the configuration was removed from Coolify.
THEOREM RemovalsAreHonest ==
    ASSUME \A f \in Flows : Settles(f) /\ Admits(f)
    PROVE  Spec => []RemovalIsHonest
  <1>1. Init /\ TypeOK /\ Frame => flow \in Flows /\ Settled /\ Untold /\ Admitted /\ Overlooked
    BY InitRow DEF Init, Settled, Untold, Admitted, Overlooked
  <1>2. TypeOK /\ TypeOK' /\ Frame /\ Worded /\ Holds /\ Missing
          /\ flow \in Flows /\ Settled /\ Untold /\ Admitted /\ Overlooked /\ [Next]_vars =>
            (flow \in Flows /\ Settled /\ Untold /\ Admitted /\ Overlooked)'
    <2> SUFFICES ASSUME TypeOK, TypeOK', Frame, Worded, Holds, Missing, flow \in Flows, Settled, Untold, Admitted,
                        Overlooked, [Next]_vars
                 PROVE  (flow \in Flows /\ Settled /\ Untold /\ Admitted /\ Overlooked)'
      OBVIOUS
    <2>0. World /\ Settles(flow) /\ Admits(flow) BY DEF Frame
    <2>1. (flow \in Flows)' BY StepRow
    <2>2. Settled' BY <2>0, StepSettled
    <2>3. Untold' BY <2>0, StepUntold
    <2>4. Admitted' BY <2>0, StepAdmitted
    <2>5. Overlooked' BY <2>0, StepOverlooked
    <2> QED BY <2>1, <2>2, <2>3, <2>4, <2>5
  <1>3. TypeOK /\ Frame /\ Missing /\ Applied /\ flow \in Flows /\ Settled /\ Untold /\ Admitted /\ Overlooked
            => RemovalIsHonest
    BY RemovalHolds
  <1> QED BY <1>1, <1>2, <1>3, AttributeFrame, AttributeContents, AttributeHistory, PTL DEF Spec

-----------------------------------------------------------------------------
\* An import takes over what it must not replace.
Recognised ==
    imported /\ flow.kind.replace # "no" =>
        /\ flow.import # "never"
        /\ state = "none" => server = "none" /\ flow.deletes /\ ~flow.unseen
        /\ flow.import = "null" /\ (flow.read = "kept" \/ hides) => state \in {"null", "none"}
        /\ flow.import = "id" /\ flow.read = "kept" => server \in {"none", state} \/ state = "none"

\* What an import of an identifier takes over is not read.
LEMMA IdIsKept ==
    ASSUME NEW f, Recognises(f), f.kind.replace # "no", f.import = "id", f.read = "kept"
    PROVE  /\ ~f.reset /\ (f.deletes \/ ~f.off)
           /\ \A s \in Stored : \A p \in Nexts(f, s) : Sent(f.patch, p, s) \in {s, "omitted"}
  <1>1. ~(\A p \in Terms, t \in Settings : Read(f.read, p, t, p) = t)
    <2>1. "null" \in Terms /\ "a" \in Settings BY DEF Terms, Settings, Known, Stored
    <2>2. Read(f.read, "null", "a", "null") = "null" BY DEF Read
    <2> QED BY <2>1, <2>2
  <1> QED BY <1>1 DEF Recognises

\* ImportState takes it from the identifier, or Read finds it.
LEMMA RecognisedByImport ==
    ASSUME TypeOK, Frame, Recognises(flow), Import
    PROVE  Recognised'
  <1>1. UNCHANGED <<flow, old, hides, server>> /\ server \in Stored /\ flow.import # "never"
    BY DEF Import, world, TypeOK
  <1> DEFINE blank == CASE flow.import = "id" -> server
                        [] flow.import = "default" -> "default"
                        [] OTHER -> "null"
  <1>2. state' = Flatten(flow.read, blank, Answer(server), blank) BY DEF Import
  <1>3. blank \in Terms BY <1>1 DEF Terms, Known, Stored
  <1>4. state' \in Terms BY <1>1, <1>2, <1>3, ReadIsTerm
  <1> SUFFICES ASSUME flow.kind.replace # "no"
               PROVE  /\ flow.import = "null" /\ (flow.read = "kept" \/ hides) => state' = "null"
                      /\ flow.import = "id" /\ flow.read = "kept" => state' = server
    BY <1>1, <1>4 DEF Recognised, Terms, Known, Stored
  <1>5. ~old BY <1>1 DEF Recognises, Frame, World
  <1>6. state' = Read(flow.read, blank, Answer(server), blank) BY <1>2, <1>5 DEF Flatten
  <1>7. flow.read = "kept" => state' = blank BY <1>6 DEF Read
  <1>8. ASSUME flow.import = "null", hides, flow.read # "kept" PROVE state' = "null"
    <2>1. Answer(server) = "empty" /\ flow.kind.secret BY <1>8 DEF Answer, Frame, World
    <2> QED BY <1>1, <1>6, <1>8, <2>1 DEF Recognises
  <1> QED BY <1>7, <1>8

\* The refresh after an import leaves it.
LEMMA RecognisedByRefresh ==
    ASSUME TypeOK, Frame, Recognises(flow), Recognised, Refresh
    PROVE  Recognised'
  <1>1. UNCHANGED <<flow, old, hides, server, imported>> /\ state # "none" BY DEF Refresh, world, history
  <1> SUFFICES ASSUME imported, flow.kind.replace # "no" PROVE Recognised' BY <1>1 DEF Recognised
  <1>2. flow.import # "never" BY DEF Recognised
  <1>3. CASE server = "none"
    <2>1. state' = state \/ (state' = "none" /\ ~flow.unseen) BY <1>3 DEF Refresh
    <2>2. flow.deletes BY <1>3 DEF Frame, GoneWasDeleted
    <2> QED BY <1>1, <1>2, <1>3, <2>1, <2>2 DEF Recognised
  <1>4. CASE server # "none"
    <2>1. server \in Stored /\ state \in Terms /\ ~old BY <1>1, <1>2, <1>4 DEF TypeOK, Terms, Recognises, Frame, World
    <2>2. state' = Read(flow.read, state, Answer(server), state) BY <1>4, <2>1 DEF Refresh, Flatten
    <2>3. state' \in Terms BY <1>4, <2>1, ReadIsTerm DEF Refresh
    <2>4. flow.read = "kept" => state' = state BY <2>2 DEF Read
    <2>5. ASSUME flow.import = "null", hides, flow.read # "kept" PROVE state' = "null"
      <3>1. Answer(server) = "empty" /\ flow.kind.secret BY <2>5 DEF Answer, Frame, World
      <3>2. state = "null" BY <1>1, <2>5 DEF Recognised
      <3> QED BY <1>2, <2>2, <2>5, <3>1, <3>2 DEF Recognises
    <2> QED BY <1>1, <1>2, <1>4, <2>3, <2>4, <2>5 DEF Recognised, Terms, Known, Stored
  <1> QED BY <1>3, <1>4

\* A request that was lost changed nothing of what was taken over.
LEMMA RecognisedByFault ==
    ASSUME TypeOK, Frame, Recognises(flow), Recognised, Fault
    PROVE  Recognised'
  <1>1. UNCHANGED <<flow, old, hides, state, imported>> BY DEF Fault, Failed, world
  <1> SUFFICES ASSUME imported, flow.kind.replace # "no",
                      flow.import = "id" /\ flow.read = "kept" => server \in {"none", state} \/ state = "none"
               PROVE  /\ state = "none" => server' = "none"
                      /\ flow.import = "id" /\ flow.read = "kept" => server' \in {"none", state} \/ state = "none"
    BY <1>1 DEF Recognised
  <1>2. CASE server' = server BY <1>2 DEF Recognised
  <1>3. CASE Creating /\ flow.existing
    <2>1. state = "none" BY <1>3 DEF Creating
    <2> QED BY <1>3, <2>1 DEF Recognised, Recognises
  <1>4. CASE Updating /\ server # "none" /\ server' = Updated
    <2>1. state # "none" /\ state \in Terms /\ server \in Stored BY <1>4 DEF Updating, TypeOK, Terms
    <2>2. ASSUME flow.import = "id", flow.read = "kept" PROVE server' = state
      <3>1. ~flow.reset /\ \A s \in Stored : \A p \in Nexts(flow, s) : Sent(flow.patch, p, s) \in {s, "omitted"}
        BY <2>2, IdIsKept
      <3>2. server = state BY <1>4, <2>1, <2>2
      <3>3. plan \in Nexts(flow, state) BY <1>4, NextPlans
      <3>4. Sent(flow.patch, plan, state) \in {state, "omitted"} BY <2>1, <3>1, <3>2, <3>3
      <3> QED BY <1>4, <3>1, <3>2, <3>4 DEF Updated, Stores, Begin
    <2> QED BY <2>1, <2>2
  <1>5. CASE Destroying /\ server' = Left
    <2>1. state # "none" BY <1>5 DEF Destroying
    <2>2. ASSUME flow.import = "id", flow.read = "kept" PROVE server' \in {"none", state}
      <3>1. flow.deletes \/ ~flow.off BY <2>2, IdIsKept
      <3>2. server \in {"none", state} BY <2>1, <2>2
      <3> QED BY <1>5, <3>1, <3>2 DEF Left
    <2> QED BY <2>1, <2>2
  <1> QED BY <1>2, <1>3, <1>4, <1>5 DEF Fault

\* What identifies an object is not changed past Terraform.
LEMMA StepRecognised ==
    TypeOK /\ Frame /\ Recognises(flow) /\ Recognised /\ [Next]_vars => Recognised'
  <1> SUFFICES ASSUME TypeOK, Frame, Recognises(flow), Recognised, [Next]_vars PROVE Recognised' OBVIOUS
  <1>1. CASE ~imported' BY <1>1 DEF Recognised
  <1>2. CASE UNCHANGED <<flow, hides, state, server, imported>> BY <1>2 DEF Recognised
  <1>3. CASE NoChanges \/ Create \/ Update \/ Destroy \/ DestroyWarns
    BY <1>1, <1>3 DEF NoChanges, Create, Update, Conclude, Destroy, DestroyWarns, Forgotten
  <1>4. CASE PlanChanges BY <1>2, <1>4 DEF PlanChanges, world, history
  <1>5. CASE PlanRefused BY <1>2, <1>5 DEF PlanRefused, world, history
  <1>6. CASE UpdateMissing BY <1>2, <1>6 DEF UpdateMissing, Failed, world
  <1>7. CASE Edit BY <1>2, <1>7 DEF Edit, world
  <1>8. CASE UNCHANGED vars BY <1>2, <1>8 DEF vars, world, terraform, history
  <1>9. CASE Outside \/ Vanish
    <2>1. /\ UNCHANGED <<flow, hides, state, imported>> /\ server # "none"
          /\ flow.import # "id" \/ server' = "none"
      BY <1>9 DEF Outside, Vanish, world, terraform
    <2> QED BY <2>1 DEF Recognised
  <1> QED BY <1>3, <1>4, <1>5, <1>6, <1>7, <1>8, <1>9, RecognisedByImport, RecognisedByRefresh, RecognisedByFault
          DEF Next, Terraform

\* So a plan that says what Coolify holds is the state.
LEMMA RecognisedIsKept ==
    TypeOK /\ Frame /\ Recognises(flow) /\ Recognised => ImportKeeps
  <1> SUFFICES ASSUME TypeOK, Frame, Recognises(flow), Recognised, doing = "planned", imported, config = server,
                      Replaces, ~Blank
               PROVE  FALSE
    BY DEF ImportKeeps
  <1>1. flow.kind.replace # "no" /\ flow.import # "never" BY DEF Replaces, Recognised
  <1>2. ~old /\ ~flow.kind.own /\ ~flow.kind.live BY <1>1 DEF Recognises, Frame, World
  <1>3. server \in Settings /\ state \in Terms
    <2>1. config \in Terms /\ server \in Stored BY DEF TypeOK, Terms, Known, Stored
    <2> QED BY <1>1, <2>1 DEF Blank, Settings, Known, Stored, Recognised, TypeOK, Terms
  <1>4. plan = server
    BY <1>3, PlanIsConfigured DEF Frame, PlanStands, TypeOK, Settings, Known, Stored
  <1>5. plan # state /\ (flow.kind.replace = "if_known" => state # "null") BY DEF Replaces
  <1>6. CASE flow.read = "kept" /\ flow.import = "null" /\ flow.kind.replace = "if_known"
    BY <1>1, <1>3, <1>5, <1>6 DEF Recognised, Terms, Known, Stored
  <1>7. CASE flow.read = "kept" /\ flow.import = "id"
    BY <1>1, <1>3, <1>4, <1>5, <1>7 DEF Recognised, Terms, Settings, Known, Stored
  <1>8. CASE /\ \A p \in Terms, t \in Settings : Read(flow.read, p, t, p) = t
             /\ flow.kind.secret => flow.import = "null" /\ flow.kind.replace = "if_known"
    <2>1. CASE hides
      BY <1>1, <1>3, <1>5, <1>8, <2>1 DEF Recognised, Frame, World, Terms, Known, Stored
    <2>2. CASE ~hides
      <3>1. Answer(server) = server BY <1>2, <2>2 DEF Answer
      <3>2. PICK p \in Terms : state = Flatten(flow.read, p, Answer(server), p)
        BY <1>2, <1>3 DEF Frame, Current, Terms, Settings, Known, Stored
      <3>3. state = server BY <1>2, <1>3, <1>8, <3>1, <3>2 DEF Flatten
      <3> QED BY <1>4, <1>5, <3>3
    <2> QED BY <2>1, <2>2
  <1> QED BY <1>1, <1>6, <1>7, <1>8 DEF Recognises

\* Importing an object whose configuration says what Coolify holds does not plan
\* to replace it.
THEOREM ImportsKeep ==
    ASSUME \A f \in Flows : Recognises(f)
    PROVE  Spec => []ImportKeeps
  <1>1. Init => flow \in Flows /\ Recognised BY InitRow DEF Init, Recognised
  <1>2. TypeOK /\ Frame /\ flow \in Flows /\ Recognised /\ [Next]_vars => (flow \in Flows /\ Recognised)'
    BY StepRow, StepRecognised
  <1>3. TypeOK /\ Frame /\ flow \in Flows /\ Recognised => ImportKeeps
    BY RecognisedIsKept
  <1> QED BY <1>1, <1>2, <1>3, AttributeFrame, PTL DEF Spec
-----------------------------------------------------------------------------
\* A table whose rows are sound keeps every property, for any number of
\* edits, faults and changes made past Terraform. RowsAreSound is how a run
\* finds the hypothesis true of a given table: every row is that of some
\* initial state.
THEOREM SoundTables ==
    ASSUME \A f \in Flows : Sound(f)
    PROVE  Spec => /\ [](AppliedAsPlanned /\ AppliedSettles /\ ConfiguredIsServed)
                   /\ [](RemovalIsHonest /\ ImportKeeps /\ WithheldIsAnnounced)
                   /\ UnchangedIsLeft /\ ChangeRestarts /\ LeftOpenIsLeft /\ DestroyedIsOff
  <1>1. \A f \in Flows : /\ KeepsPlans(f) /\ Settles(f) /\ Announces(f) /\ SwitchesOff(f)
                         /\ LeavesOpen(f) /\ Tracks(f) /\ LeavesUnchanged(f) /\ Serves(f)
                         /\ Restarts(f) /\ Admits(f) /\ Recognises(f)
    BY DEF Sound
  <1>2. Spec => []AppliedAsPlanned BY <1>1, PlansAreKept
  <1>3. Spec => []AppliedSettles BY <1>1, AppliesSettle
  <1>4. Spec => []ConfiguredIsServed BY <1>1, ServedWhenApplied
  <1>5. Spec => []RemovalIsHonest BY <1>1, RemovalsAreHonest
  <1>6. Spec => []ImportKeeps BY <1>1, ImportsKeep
  <1>7. Spec => []WithheldIsAnnounced BY <1>1, AnnouncedWhenWithheld
  <1>8. Spec => UnchangedIsLeft BY <1>1, UnchangedStays
  <1>9. Spec => ChangeRestarts BY <1>1, RestartedWhenChanged
  <1>10. Spec => LeftOpenIsLeft BY <1>1, LeftOpenWhenNeverSet
  <1>11. Spec => DestroyedIsOff BY <1>1, SwitchedOffWhenDestroyed
  <1> QED BY <1>2, <1>3, <1>4, <1>5, <1>6, <1>7, <1>8, <1>9, <1>10, <1>11, PTL
===============================================================================
