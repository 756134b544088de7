------------------------- MODULE ResourceAppliedProofs -------------------------
(***************************************************************************)
(* That an apply which ended well left the object and the state as         *)
(* configured, for every set of handlers that satisfies ProgramsAssumption *)
(* and ShapesAssumption.                                                   *)
(*                                                                         *)
(* The invariant follows the object's attributes through a handler: a      *)
(* Create past its POST has what POST accepts, and past its late PATCH     *)
(* everything; an Update past its PATCH has everything; and what a handler *)
(* holds for its next save is the plan or what the object has. All of it   *)
(* only while nobody else changed the object since the apply began.        *)
(***************************************************************************)
EXTENDS ResourceLifecycleProofs

Sent(k) == \E j \in 1..(k - 1) : program.create[j] \in Extends
Looked(k) == \E j \in 1..(k - 1) : program.create[j] \in {"get", "look"}

Has(i, val) == Exists(i) /\ objects[i].val = val

Planned == doing = "planned" /\ state # None => Has(state.id, state.val)

Creating ==
    doing = "create" =>
        /\ view \in {config, Posted}
        /\ Sent(pc) \/ ~Looked(pc) => view = config
        /\ pc # 1 => Has(id, IF Sent(pc) THEN config ELSE Posted)

Updating ==
    doing = "update" =>
        /\ view = config /\ ~state.tainted
        /\ Has(id, IF pc = 1 THEN state.val ELSE config)

Reading == doing = "read" /\ pc # 1 => Has(id, view)

JustSaved ==
    doing \in {"create", "read", "update"} /\ pc # 1 /\ program[doing][pc - 1] = "save" =>
        resp = [id |-> id, val |-> view]

Quiet == Planned /\ Creating /\ Updating /\ Reading /\ JustSaved /\ SuccessMeansApplied

AInv ==
    /\ doing # "idle" => outcome = "none"
    /\ ~touched => Quiet

-----------------------------------------------------------------------------
(***************************************************************************)
(* Lemmas about values and places in a program.                            *)
(***************************************************************************)
LEMMA PostedValues ==
    ASSUME config \in Values
    PROVE  /\ Posted \in Values
           /\ config.extended = Default => Posted = config
           /\ Extended(Posted) = config /\ Extended(config) = config
  BY ValuesAssumption DEF Values, Posted, Extended

LEMMA PatchedValues ==
    ASSUME config \in Values, state.val \in Values
    PROVE  Patched(state.val) = config /\ Patched(config) = config
  BY DEF Values, Patched

LEMMA Further ==
    ASSUME TypeOK, pc \in 1..Len(program.create), pc' = pc + 1, UNCHANGED program
    PROVE  /\ Sent(pc)' <=> Sent(pc) \/ program.create[pc] \in Extends
           /\ Looked(pc)' <=> Looked(pc) \/ program.create[pc] \in {"get", "look"}
           /\ pc' # 1 /\ pc' - 1 = pc
  <1>1. \A j : j \in 1..(pc' - 1) <=> j \in 1..(pc - 1) \/ j = pc
    OBVIOUS
  <1>2. QED
    BY <1>1 DEF Sent, Looked

LEMMA Shapes ==
    ASSUME TypeOK
    PROVE  /\ program.read # <<>> /\ program.read[1] = "find" /\ program.read[Len(program.read)] = "save"
           /\ program.update # <<>> /\ program.update[1] \in Patches
           /\ program.update[Len(program.update)] = "save"
           /\ program.create[Len(program.create)] = "save"
           /\ \A j, k \in 1..Len(program.create) :
                j < k /\ program.create[j] \in {"get", "look"} /\ program.create[k] \in Extends
                    => program.create[k] = "settle"
  BY ShapesAssumption DEF TypeOK

-----------------------------------------------------------------------------
(***************************************************************************)
(* Steps after which there is nothing to show.                             *)
(***************************************************************************)
LEMMA ErrorApplied ==
    ASSUME doing' = "idle", outcome' # "ok"
    PROVE  AInv'
  BY DEF AInv, Quiet, Planned, Creating, Updating, Reading, JustSaved, SuccessMeansApplied

LEMMA TouchedApplied ==
    ASSUME AInv, UNCHANGED <<doing, outcome>>, touched'
    PROVE  AInv'
  BY DEF AInv

LEMMA DeletingApplied ==
    ASSUME AInv, doing = "delete", UNCHANGED <<doing, outcome>>
    PROVE  AInv'
  BY DEF AInv, Quiet, Planned, Creating, Updating, Reading, JustSaved, SuccessMeansApplied

LEMMA FailuresApplied ==
    ASSUME \/ \E steps : Refused(steps)
           \/ PostLost \/ GetMissing \/ FindFails \/ WriteLost \/ WriteRefused \/ WriteMissing
           \/ DeleteLost \/ PollGivesUp
    PROVE  AInv'
  <1>1. doing' = "idle" /\ outcome' = "error"
    BY DEF Refused, PostLost, GetMissing, FindFails, WriteLost, WriteRefused, WriteMissing,
           DeleteLost, PollGivesUp, WriteError, ReturnError
  <1>2. QED
    BY <1>1, ErrorApplied

-----------------------------------------------------------------------------
(***************************************************************************)
(* Terraform core.                                                         *)
(***************************************************************************)
LEMMA PlanApplied == ASSUME IInv, AInv, Plan PROVE AInv'
  <1>1. CASE Refresh
    BY <1>1 DEF Refresh, Start, AInv, Quiet, Planned, Creating, Updating, Reading, JustSaved, SuccessMeansApplied
  <1>2. CASE NothingToRefresh
    BY <1>2 DEF NothingToRefresh, AInv, Quiet, Planned, Creating, Updating, Reading, JustSaved, SuccessMeansApplied
  <1>3. CASE Create
    <2>1. doing' = "create" /\ pc' = 1 /\ view' = config /\ UNCHANGED <<config, outcome, touched>> /\ outcome = "none"
      BY <1>3 DEF Create, Start, AInv
    <2>2. ~Sent(1)' /\ ~Looked(1)'
      BY DEF Sent, Looked
    <2>3. QED
      BY <2>1, <2>2 DEF AInv, Quiet, Planned, Creating, Updating, Reading, JustSaved, SuccessMeansApplied
  <1>4. CASE Update
    <2>1. /\ doing' = "update" /\ pc' = 1 /\ view' = config /\ UNCHANGED <<config, state, objects, outcome, touched>>
          /\ outcome = "none" /\ state # None /\ ~state.tainted /\ id' = state.id /\ doing = "planned"
      BY <1>4 DEF Update, Start, AInv, server
    <2>2. ~touched => Has(state.id, state.val)
      BY <2>1 DEF AInv, Quiet, Planned
    <2>3. QED
      BY <2>1, <2>2 DEF AInv, Quiet, Planned, Creating, Updating, Reading, JustSaved, SuccessMeansApplied, Has, Exists
  <1>5. CASE Destroy
    BY <1>5 DEF Destroy, Start, AInv, Quiet, Planned, Creating, Updating, Reading, JustSaved, SuccessMeansApplied
  <1>6. CASE NoChanges
    <2>1. doing = "planned" /\ doing' = "idle" /\ UNCHANGED <<config, state, objects, touched>>
          /\ IF state = None THEN config = None ELSE ~state.tainted /\ state.val = config
      BY <1>6 DEF NoChanges, server
    <2>2. ~touched /\ state # None => config # None
      BY <2>1, ValuesAssumption DEF IInv, TypeOK, States, Saved
    <2>3. QED
      BY <2>1, <2>2 DEF AInv, Quiet, Planned, Creating, Updating, Reading, JustSaved, SuccessMeansApplied, Has, Exists
  <1>7. QED
    BY <1>1, <1>2, <1>3, <1>4, <1>5, <1>6 DEF Plan

LEMMA EditApplied == ASSUME AInv, Edit PROVE AInv'
  BY ErrorApplied DEF Edit, handler

\* What a handler returns is what it saved last.
LEMMA ReturnApplied == ASSUME IInv, AInv, Return PROVE AInv'
  <1>1. /\ doing \in Handlers /\ pc = Len(program[doing]) + 1 /\ UNCHANGED <<program, config, objects, touched, id, pc>>
        /\ state' = IF doing = "delete" THEN None ELSE Kept(resp, doing = "read" /\ state.tainted)
        /\ doing' = IF doing = "read" \/ (doing = "delete" /\ config # None) THEN "planned" ELSE "idle"
        /\ outcome' = IF doing' = "idle" THEN "ok" ELSE outcome
    BY DEF Return, server
  <1>2. doing' # "idle" => outcome' = "none"
    BY <1>1 DEF AInv, Handlers
  <1>3. ASSUME ~touched' PROVE Quiet'
    <2>1. Quiet
      BY <1>1, <1>3 DEF AInv
    <2>2. CASE doing = "delete"
      BY <1>1, <1>2, <2>2 DEF Quiet, Planned, Creating, Updating, Reading, JustSaved, SuccessMeansApplied
    <2>3. CASE doing # "delete"
      <3>1. /\ pc # 1 /\ pc - 1 = Len(program[doing]) /\ program[doing][pc - 1] = "save"
        BY <1>1, <2>3, Shapes, ProgramTypes DEF IInv, Handlers, SavesSoon
      <3>2. resp = [id |-> id, val |-> view] /\ resp # None /\ id \in Ids /\ view \in Values
        <4>1. resp = [id |-> id, val |-> view]
          BY <1>1, <2>1, <2>3, <3>1 DEF Quiet, JustSaved, Handlers
        <4>2. id \in Ids /\ view \in Values
          BY <1>1, <2>3, <3>1 DEF IInv, TypeOK, Frame, CreateFrame, Handlers, States
        <4>3. [id |-> id, val |-> view] \in Saved
          BY <4>2 DEF Saved
        <4>4. QED
          BY <4>1, <4>2, <4>3, ValuesAssumption
      <3>3. state' = [id |-> id, val |-> view, tainted |-> (doing = "read" /\ state.tainted)]
        BY <1>1, <2>3, <3>2 DEF Kept
      <3>4. state' # None
        <4>1. (doing = "read" /\ state.tainted) \in BOOLEAN
          BY DEF IInv, TypeOK, Frame, States
        <4>2. state' \in States
          BY <3>2, <3>3, <4>1 DEF States
        <4>3. QED
          BY <4>2, ValuesAssumption
      <3>5. state'.id = id /\ state'.val = view /\ state'.tainted = (doing = "read" /\ state.tainted)
        BY <3>3
      <3>6. CASE doing = "read"
        <4>1. Has(id, view)
          BY <2>1, <3>1, <3>6 DEF Quiet, Reading
        <4>2. QED
          BY <1>1, <3>5, <3>6, <4>1
          DEF Quiet, Planned, Creating, Updating, Reading, JustSaved, SuccessMeansApplied, Has, Exists, AInv
      <3>7. CASE doing = "create"
        <4>1. config \in Values /\ config # None
          BY <3>7 DEF IInv, Frame, TypeOK
        <4>2. ~Sent(pc) => Posted = config
          BY <1>1, <3>7 DEF Sent, Posted
        <4>3. view = config /\ Has(id, config)
          BY <2>1, <3>1, <3>7, <4>2 DEF Quiet, Creating
        <4>4. QED
          BY <1>1, <3>4, <3>5, <3>7, <4>1, <4>3
          DEF Quiet, Planned, Creating, Updating, Reading, JustSaved, SuccessMeansApplied, Has, Exists
      <3>8. CASE doing = "update"
        <4>1. view = config /\ Has(id, config) /\ config # None
          BY <2>1, <3>1, <3>8 DEF Quiet, Updating, IInv, Frame
        <4>2. QED
          BY <1>1, <3>4, <3>5, <3>8, <4>1
          DEF Quiet, Planned, Creating, Updating, Reading, JustSaved, SuccessMeansApplied, Has, Exists
      <3>9. QED
        BY <1>1, <2>3, <3>6, <3>7, <3>8 DEF Handlers
    <2>4. QED
      BY <2>2, <2>3
  <1>4. QED
    BY <1>2, <1>3 DEF AInv

-----------------------------------------------------------------------------
(***************************************************************************)
(* The steps of the handlers.                                              *)
(***************************************************************************)

\* What remains to be shown of a step that goes on.
LEMMA GoesOnApplied ==
    ASSUME IInv, AInv, doing \in {"create", "read", "update"}, pc \in 1..Len(program[doing]),
           pc' = pc + 1, UNCHANGED <<program, config, state, outcome, doing, touched>>,
           program[doing][pc] = "save" => resp' = [id |-> id', val |-> view'],
           ~touched => Creating' /\ Updating' /\ Reading'
    PROVE  AInv'
  <1>1. pc' - 1 = pc
    OBVIOUS
  <1>2. outcome' = "none"
    BY DEF AInv
  <1>3. Planned' /\ JustSaved' /\ SuccessMeansApplied'
    BY <1>1, <1>2 DEF Planned, JustSaved, SuccessMeansApplied
  <1>4. QED
    BY <1>2, <1>3 DEF AInv, Quiet

LEMMA SaveApplied == ASSUME IInv, AInv, Save PROVE AInv'
  <1>1. /\ doing \in Handlers /\ pc \in 1..Len(program[doing]) /\ program[doing][pc] = "save"
        /\ pc' = pc + 1 /\ resp' = [id |-> id, val |-> view]
        /\ UNCHANGED <<program, config, state, outcome, doing, touched, id, view, objects>>
    BY DEF Save, At, Advance, core, server
  <1>2. doing \in {"create", "read", "update"}
    BY <1>1, StepsOfHandlers DEF IInv, DeleteSteps, Handlers
  <1>3. ASSUME ~touched, doing = "create" PROVE Creating'
    <2>1. pc # 1 /\ (Sent(pc)' <=> Sent(pc)) /\ (Looked(pc)' <=> Looked(pc))
      BY <1>1, <1>3, Further, ProgramTypes DEF IInv, Extends
    <2>2. QED
      BY <1>1, <1>3, <2>1 DEF AInv, Quiet, Creating, Has, Exists, Posted
  <1>4. ASSUME ~touched, doing = "update" PROVE Updating'
    <2>1. pc # 1
      BY <1>1, <1>4, Shapes DEF IInv, Patches
    <2>2. QED
      BY <1>1, <1>4, <2>1 DEF AInv, Quiet, Updating, Has, Exists
  <1>5. ASSUME ~touched, doing = "read" PROVE Reading'
    <2>1. pc # 1
      BY <1>1, <1>5, Shapes DEF IInv
    <2>2. QED
      BY <1>1, <1>5, <2>1 DEF AInv, Quiet, Reading, Has, Exists
  <1>6. ~touched => Creating' /\ Updating' /\ Reading'
    BY <1>1, <1>3, <1>4, <1>5 DEF Creating, Updating, Reading
  <1>7. QED
    BY <1>1, <1>2, <1>6, GoesOnApplied

LEMMA PostApplied == ASSUME IInv, AInv, Post PROVE AInv'
  <1>1. /\ doing = "create" /\ pc = 1 /\ pc \in 1..Len(program.create) /\ program.create[pc] = "post"
        /\ pc' = pc + 1 /\ UNCHANGED <<program, config, state, outcome, doing, touched, view>>
    BY HandlersOfSteps DEF Post, At, Advance, core, IInv
  <1>2. PICK i \in Ids : NewObject(i) /\ id' = i
    BY DEF Post
  <1>3. objects'[i] = [val |-> Posted, deleting |-> FALSE, stale |-> FALSE] /\ i # None /\ objects'[i] # None
    <2>1. objects'[i] = [val |-> Posted, deleting |-> FALSE, stale |-> FALSE] /\ i # None
      BY <1>2, ValuesAssumption DEF NewObject, IInv, TypeOK
    <2>2. objects'[i] \in Objects
      BY <2>1, <1>1, PostedValues DEF Objects, IInv, Frame, TypeOK
    <2>3. QED
      BY <2>1, <2>2, ValuesAssumption
  <1>4. ~Sent(pc)' /\ ~Looked(pc)' /\ ~Looked(pc)
    BY <1>1, Further DEF IInv, Extends, Sent, Looked
  <1>5. ~touched => Creating'
    BY <1>1, <1>2, <1>3, <1>4 DEF AInv, Quiet, Creating, Has, Exists, Posted
  <1>6. ~touched => Creating' /\ Updating' /\ Reading'
    BY <1>1, <1>5 DEF Updating, Reading
  <1>7. QED
    BY <1>1, <1>6, GoesOnApplied

\* Reads, of Create and Update.
LEMMA ReadApplied == ASSUME IInv, AInv, Get \/ Look \/ LookFails PROVE AInv'
  <1>1. /\ doing \in {"create", "update"} /\ pc \in 1..Len(program[doing]) /\ program[doing][pc] \in {"get", "look"}
        /\ pc' = pc + 1 /\ UNCHANGED <<program, config, state, outcome, doing, touched, id, objects>>
        /\ view' = view \/ (Exists(id) /\ view' = objects[id].val)
    BY HandlersOfSteps DEF Get, Look, LookFails, At, Advance, core, server, IInv
  <1>2. ASSUME ~touched, doing = "create" PROVE Creating'
    <2>1. pc # 1 /\ (Sent(pc)' <=> Sent(pc)) /\ Looked(pc)'
      BY <1>1, <1>2, Further, ProgramTypes DEF IInv, Extends
    <2>2. QED
      BY <1>1, <1>2, <2>1 DEF AInv, Quiet, Creating, Has, Exists, Posted
  <1>3. ASSUME ~touched, doing = "update" PROVE Updating'
    <2>1. pc # 1
      BY <1>1, <1>3, Shapes DEF IInv, Patches
    <2>2. QED
      BY <1>1, <1>3, <2>1 DEF AInv, Quiet, Updating, Has, Exists
  <1>4. ~touched => Creating' /\ Updating' /\ Reading'
    BY <1>1, <1>2, <1>3 DEF Creating, Updating, Reading
  <1>5. QED
    BY <1>1, <1>4, GoesOnApplied

LEMMA FindApplied == ASSUME IInv, AInv, Find \/ FindMissing PROVE AInv'
  <1>1. CASE Find
    <2>1. /\ doing = "read" /\ pc \in 1..Len(program[doing]) /\ program[doing][pc] = "find"
          /\ pc' = pc + 1 /\ UNCHANGED <<program, config, state, outcome, doing, touched, id, objects>>
          /\ Exists(id) /\ view' = objects[id].val
      BY <1>1, HandlersOfSteps DEF Find, At, Advance, core, server, IInv
    <2>2. Creating' /\ Updating' /\ Reading'
      BY <2>1 DEF Creating, Updating, Reading, Has, Exists
    <2>3. QED
      BY <2>1, <2>2, GoesOnApplied
  <1>2. CASE FindMissing
    <2>1. state' = None /\ doing' = "planned" /\ UNCHANGED <<outcome, touched>> /\ doing # "idle"
      BY <1>2 DEF FindMissing, At, Handlers
    <2>2. QED
      BY <2>1 DEF AInv, Quiet, Planned, Creating, Updating, Reading, JustSaved, SuccessMeansApplied
  <1>3. QED
    BY <1>1, <1>2

\* The object after a PATCH.
LEMMA WrittenValue ==
    ASSUME IInv, ToSend, Exists(id), objects' = [objects EXCEPT ![id] = Written(@)], UNCHANGED id
    PROVE  /\ Exists(id)' /\ objects'[id] = Written(objects[id])
           /\ Written(objects[id]).val = IF doing = "update" THEN Patched(objects[id].val)
                                         ELSE Extended(objects[id].val)
  <1>1. objects[id] \in Objects /\ id \in Ids /\ Written(objects[id]) \in Objects
    BY WrittenObject
  <1>2. Written(objects[id]).val = IF doing = "update" THEN Patched(objects[id].val)
                                   ELSE Extended(objects[id].val)
    BY <1>1 DEF Written, Objects
  <1>3. objects'[id] = Written(objects[id])
    BY <1>1 DEF IInv, TypeOK
  <1>4. Exists(id)'
    BY <1>1, <1>3, ValuesAssumption DEF Exists
  <1>5. QED
    BY <1>2, <1>3, <1>4

LEMMA WriteApplied == ASSUME IInv, AInv, Write PROVE AInv'
  <1>1. /\ doing \in {"create", "update"} /\ pc \in 1..Len(program[doing]) /\ pc' = pc + 1
        /\ UNCHANGED <<program, config, state, outcome, doing, touched, id>>
        /\ program[doing][pc] \in Extends \cup Patches
        /\ doing = "create" <=> program[doing][pc] \in Extends
        /\ view' = IF program[doing][pc] \in Answers THEN Written(objects[id]).val ELSE view
    BY HandlersOfSteps DEF Write, ToSend, At, Advance, core, IInv, Extends, Patches, Answers
  <1>2. /\ Exists(id)' /\ objects'[id] = Written(objects[id])
        /\ Written(objects[id]).val = IF doing = "update" THEN Patched(objects[id].val)
                                      ELSE Extended(objects[id].val)
    BY <1>1, WrittenValue DEF Write
  <1>3. config \in Values /\ program[doing][pc] # "save"
    BY <1>1 DEF IInv, Frame, TypeOK, Extends, Patches
  <1>4. ASSUME ~touched, doing = "create" PROVE Creating'
    <2>1. pc # 1 /\ Sent(pc)' /\ pc' # 1
      BY <1>1, <1>4, Further, ProgramTypes DEF IInv, Extends
    <2>2. objects'[id].val = config
      BY <1>2, <1>3, <1>4, <2>1, PostedValues DEF AInv, Quiet, Creating, Has
    <2>3. view' = config
      <3>1. CASE program.create[pc] = "settle"
        BY <1>1, <1>2, <1>4, <2>2, <3>1 DEF Answers
      <3>2. CASE program.create[pc] # "settle"
        <4>1. ~Looked(pc)
          BY <1>1, <1>4, <3>2, Shapes DEF Looked, IInv, TypeOK
        <4>2. QED
          BY <1>1, <1>4, <3>2, <4>1 DEF AInv, Quiet, Creating, Answers, Extends
      <3>3. QED
        BY <3>1, <3>2
    <2>4. QED
      BY <1>1, <1>2, <2>1, <2>2, <2>3 DEF Creating, Has
  <1>5. ASSUME ~touched, doing = "update" PROVE Updating'
    <2>1. state.val \in Values
      BY <1>5 DEF IInv, Frame, TypeOK, States
    <2>2. objects'[id].val = config
      BY <1>2, <1>3, <1>5, <2>1, PatchedValues DEF AInv, Quiet, Updating, Has
    <2>3. pc' # 1
      BY <1>1
    <2>4. QED
      BY <1>1, <1>2, <1>5, <2>2, <2>3 DEF AInv, Quiet, Updating, Has
  <1>6. ~touched => Creating' /\ Updating' /\ Reading'
    BY <1>1, <1>4, <1>5 DEF Creating, Updating, Reading
  <1>7. QED
    BY <1>1, <1>3, <1>6, GoesOnApplied

\* There is nothing to send when POST has done it all.
LEMMA NothingToSendApplied == ASSUME IInv, AInv, NothingToSend PROVE AInv'
  <1>1. /\ doing = "create" /\ pc \in 1..Len(program.create) /\ pc' = pc + 1 /\ program.create[pc] \in Extends
        /\ UNCHANGED <<program, config, state, outcome, doing, touched, id, view, objects>>
        /\ config.extended = Default
    BY HandlersOfSteps DEF NothingToSend, At, Advance, core, server, IInv, Extends
  <1>2. Posted = config
    BY <1>1, PostedValues DEF IInv, Frame, TypeOK
  <1>3. Posted' = config' /\ pc # 1
    BY <1>1, <1>2, ProgramTypes DEF Posted, IInv, Extends
  <1>4. ~touched => Creating' /\ Updating' /\ Reading'
    BY <1>1, <1>2, <1>3 DEF AInv, Quiet, Creating, Updating, Reading, Has, Exists
  <1>5. QED
    BY <1>1, <1>4, GoesOnApplied DEF Extends

LEMMA RestartApplied == ASSUME IInv, AInv, Restart \/ RestartFails PROVE AInv'
  <1>1. /\ doing = "update" /\ pc \in 1..Len(program.update) /\ pc' = pc + 1 /\ program.update[pc] = "restart"
        /\ UNCHANGED <<program, config, state, outcome, doing, touched, id, view>>
        /\ objects' = objects \/ (Exists(id) /\ objects' = [objects EXCEPT ![id].stale = FALSE])
    BY HandlersOfSteps DEF Restart, RestartFails, At, core, server, IInv
  <1>2. pc # 1
    BY <1>1, Shapes DEF IInv, Patches
  <1>3. ASSUME Exists(id) PROVE Exists(id)' /\ objects'[id].val = objects[id].val
    <2>1. objects[id] \in Objects /\ id \in Ids
      BY <1>3 DEF Exists, IInv, TypeOK
    <2>2. CASE objects' = [objects EXCEPT ![id].stale = FALSE]
      <3>1. objects'[id] = [objects[id] EXCEPT !.stale = FALSE]
        BY <2>1, <2>2 DEF IInv, TypeOK
      <3>2. objects'[id] \in Objects /\ objects'[id].val = objects[id].val
        BY <2>1, <3>1 DEF Objects
      <3>3. QED
        BY <1>1, <1>3, <3>2, ValuesAssumption DEF Exists
    <2>3. QED
      BY <1>1, <1>3, <2>2 DEF Exists
  <1>4. ~touched => Creating' /\ Updating' /\ Reading'
    BY <1>1, <1>2, <1>3 DEF AInv, Quiet, Creating, Updating, Reading, Has
  <1>5. QED
    BY <1>1, <1>4, GoesOnApplied

LEMMA RemoverApplied == ASSUME IInv, AInv, Delete \/ DeleteInUse \/ PollGone PROVE AInv'
  <1>1. doing = "delete" /\ UNCHANGED <<doing, outcome>>
    BY HandlersOfSteps DEF Delete, DeleteInUse, PollGone, At, Advance, core, handler, IInv
  <1>2. QED
    BY <1>1, DeletingApplied

-----------------------------------------------------------------------------
(***************************************************************************)
(* The invariant and what follows from it.                                 *)
(***************************************************************************)
LEMMA InitApplied == Init => AInv
  BY DEF Init, AInv, Quiet, Planned, Creating, Updating, Reading, JustSaved, SuccessMeansApplied

LEMMA NextApplied == ASSUME IInv, AInv, [Next]_vars PROVE AInv'
  <1>1. CASE Plan \/ Edit
    BY <1>1, PlanApplied, EditApplied
  <1>2. CASE Read
    BY <1>2, FailuresApplied, ReadApplied, FindApplied DEF Read
  <1>3. CASE Mutate
    BY <1>3, FailuresApplied, PostApplied, WriteApplied, NothingToSendApplied, RestartApplied DEF Mutate
  <1>4. CASE Remover
    BY <1>4, FailuresApplied, RemoverApplied DEF Remover
  <1>5. CASE Save \/ Return
    BY <1>5, SaveApplied, ReturnApplied
  <1>6. CASE \E i \in Ids : Remove(i) \/ OutsideDelete(i) \/ OutsideEdit(i)
    BY <1>6, TouchedApplied DEF Remove, OutsideDelete, OutsideEdit, core, handler
  <1>7. CASE UNCHANGED vars
    BY <1>7 DEF vars, core, handler, server, AInv, Quiet, Planned, Creating, Updating, Reading, JustSaved,
                SuccessMeansApplied, Sent, Looked, Has, Exists, Posted
  <1>8. QED
    BY <1>1, <1>2, <1>3, <1>4, <1>5, <1>6, <1>7 DEF Next, Run

LEMMA AppliedInductive == Spec => [](IInv /\ AInv)
  <1>1. Init => IInv /\ AInv
    BY InitIInv, InitApplied
  <1>2. IInv /\ AInv /\ [Next]_vars => (IInv /\ AInv)'
    BY NextIInv, NextApplied
  <1>3. QED
    BY <1>1, <1>2, PTL DEF Spec

\* An apply that ended without an error left the object and the state as
\* configured, whatever handlers of these shapes run, through any number of
\* refused and lost calls, unless somebody else changed the object meanwhile.
THEOREM SuccessIsApplied == Spec => []SuccessMeansApplied
  <1>1. IInv /\ AInv => SuccessMeansApplied
    BY DEF AInv, Quiet, SuccessMeansApplied
  <1>2. QED
    BY <1>1, AppliedInductive, PTL

-----------------------------------------------------------------------------
(***************************************************************************)
(* Restarts. The run restart_after_update shows an update that succeeds    *)
(* without one, after a PATCH whose answer was lost. Here: that is the     *)
(* only way.                                                               *)
(***************************************************************************)

\* The update of an application restarts it right after its PATCH.
RestartsAfterPatch ==
    \A p \in Programs : \A k \in 1..Len(p.update) :
        p.update[k] \in Patches => k + 1 <= Len(p.update) /\ p.update[k + 1] = "restart"

\* The answer to the PATCH of an update is lost.
PatchLost == doing = "update" /\ WriteLost

Stale(i) == Exists(i) /\ objects[i].stale
Ahead == doing = "update" /\ pc \in 1..Len(program.update) /\ program.update[pc] = "restart"

\* What the resource owns runs its configuration, or a warning has said that
\* it does not, or the restart is the next step.
Restarted == Stale(Owned) => warned \/ Ahead

\* A step that makes nothing stale, and does not skip the restart.
LEMMA StaleKept ==
    ASSUME IInv, Restarted, [Next]_vars, known' \subseteq known, warned' = warned,
           \A i \in Ids : Stale(i)' => Stale(i), Ahead => Ahead'
    PROVE  Restarted'
  <1>1. Owned' \in {Owned, None}
    <2>1. Promised
      BY StepPromise
    <2>2. \A i : Promise!Adopt(i) => FALSE
      BY DEF Promise!Adopt
    <2>3. QED
      BY <2>1, <2>2 DEF Promised, Promise!Next, Promise!Condemn, Promise!Disown, Promise!Vanish, Promise!vars
  <1>2. Stale(Owned)' => Owned' # None /\ Owned' = Owned /\ Owned \in Ids
    BY <1>1 DEF Stale, Exists, Owned, IInv, TypeOK, States
  <1>3. Stale(Owned)' => Stale(Owned)
    BY <1>2 DEF Stale, Exists
  <1>4. QED
    BY <1>3 DEF Restarted

\* Before the restart nothing else happens in the handler.
LEMMA AtRestart ==
    ASSUME IInv, Ahead
    PROVE  /\ doing \in Handlers /\ ~(pc = Len(program[doing]) + 1)
           /\ \A S : At(S) => "restart" \in S
  BY ProgramTypes DEF Ahead, At, Handlers, IInv

\* Steps that leave the server and the warning alone.
LEMMA QuietRestarted ==
    ASSUME IInv, Restarted, [Next]_vars, UNCHANGED <<server, warned>>, Ahead => Ahead'
    PROVE  Restarted'
  BY StaleKept DEF server, Stale, Exists

\* Everything but a POST, a write, a restart and what happens on the server.
LEMMA OthersRestarted ==
    ASSUME IInv, Restarted, [Next]_vars,
           \/ Plan \/ Edit \/ Read \/ Save \/ Return
           \/ Refused({"post"}) \/ NothingToSend \/ WriteRefused \/ WriteMissing
           \/ Refused({"delete", "retry"}) \/ DeleteInUse \/ PollGone \/ PollGivesUp
    PROVE  Restarted'
  <1>1. UNCHANGED <<server, warned>>
    BY DEF Plan, Edit, Refresh, NothingToRefresh, Create, Update, Destroy, NoChanges, Start,
           Read, Get, GetMissing, Look, LookFails, Find, FindMissing, FindFails, Save, Return, Refused, NothingToSend,
           WriteRefused, WriteMissing, WriteError, DeleteInUse, PollGone, PollGivesUp, Advance, ReturnError
  <1>2. ~Ahead
    BY AtRestart
    DEF Plan, Edit, Refresh, NothingToRefresh, Create, Update, Destroy, NoChanges, Handlers,
        Read, Get, GetMissing, Look, LookFails, Find, FindMissing, FindFails, Save, Return, Refused, NothingToSend,
        WriteRefused, WriteMissing, DeleteInUse, PollGone, PollGivesUp, ToSend, Patches, Extends
  <1>3. QED
    BY <1>1, <1>2, QuietRestarted

\* A new object runs what it was created with, and so does one nobody knows.
LEMMA PostRestarted == ASSUME IInv, Restarted, Post \/ PostLost PROVE Restarted'
  <1>1. doing = "create" /\ pc = 1 /\ state = None /\ id = None
    BY HandlersOfSteps DEF Post, PostLost, At, IInv, Frame, CreateFrame
  <1>2. PICK i \in Ids : Fresh(i) /\ NewObject(i) /\ (Post => id' = i)
    BY DEF Post, PostLost
  <1>3. /\ objects'[i] = [val |-> Posted, deleting |-> FALSE, stale |-> FALSE]
        /\ \A j \in Ids : j # i => objects'[j] = objects[j]
    BY <1>2 DEF NewObject, IInv, TypeOK
  <1>4. ~Stale(i)'
    BY <1>3 DEF Stale
  <1>5. CASE Post
    <2>1. Owned' = i
      BY <1>1, <1>2, <1>5 DEF Post, Advance, core, Owned
    <2>2. QED
      BY <1>4, <2>1 DEF Restarted, Stale, Exists
  <1>6. CASE PostLost
    <2>1. [Next]_vars /\ UNCHANGED <<known, warned>> /\ ~Ahead
      BY <1>1, <1>6 DEF Next, Run, Mutate, PostLost, ReturnError, Ahead
    <2>2. \A j \in Ids : Stale(j)' => Stale(j)
      BY <1>3, <1>4 DEF Stale, Exists
    <2>3. QED
      BY <2>1, <2>2, StaleKept
  <1>7. QED
    BY <1>5, <1>6

\* A write of Create leaves what runs alone, and one of Update has its
\* restart next.
LEMMA WriteRestarted ==
    ASSUME RestartsAfterPatch, IInv, Restarted, Write \/ WriteLost, ~PatchLost
    PROVE  Restarted'
  <1>1. /\ doing \in {"create", "update"} /\ pc \in 1..Len(program[doing])
        /\ program[doing][pc] \in Patches \cup Extends /\ program[doing][pc] # "restart"
    BY HandlersOfSteps DEF Write, WriteLost, ToSend, At, IInv, Patches, Extends
  <1>2. CASE doing = "update"
    <2>1. Write /\ program.update[pc] \in Patches
      BY <1>1, <1>2, HandlersOfSteps DEF PatchLost, IInv, Handlers
    <2>2. pc + 1 \in 1..Len(program.update) /\ program.update[pc + 1] = "restart"
      BY <1>1, <1>2, <2>1, ProgramTypes DEF RestartsAfterPatch, IInv, TypeOK
    <2>3. Ahead'
      BY <1>2, <2>1, <2>2 DEF Write, Advance, Ahead
    <2>4. QED
      BY <2>3 DEF Restarted
  <1>3. CASE doing = "create"
    <2>1. Exists(id) /\ objects' = [objects EXCEPT ![id] = Written(objects[id])] /\ ToSend
      BY DEF Write, WriteLost, IInv, TypeOK
    <2>2. Written(objects[id]).stale = objects[id].stale
      BY <1>3, <2>1, ObjectsTyped DEF Written, Objects
    <2>3. \A j \in Ids : Stale(j)' => Stale(j)
      BY <2>1, <2>2 DEF Stale, Exists, IInv, TypeOK
    <2>4. UNCHANGED <<known, warned>> /\ ~Ahead /\ [Next]_vars
      BY <1>3 DEF Write, WriteLost, WriteError, ReturnError, Advance, Ahead, Next, Run, Mutate
    <2>5. QED
      BY <2>3, <2>4, StaleKept
  <1>4. QED
    BY <1>1, <1>2, <1>3

\* A restart that succeeds makes the object fresh, one that fails warns.
LEMMA RestartRestarted == ASSUME IInv, Restart \/ RestartFails PROVE Restarted'
  <1>1. CASE RestartFails
    BY <1>1 DEF RestartFails, Restarted
  <1>2. CASE Restart
    <2>1. doing = "update" /\ state # None /\ id = state.id
      BY <1>2, HandlersOfSteps DEF Restart, At, IInv, Frame
    <2>2. Owned' = id
      BY <1>2, <2>1 DEF Restart, core, Owned
    <2>3. objects' = [objects EXCEPT ![id] = [objects[id] EXCEPT !.stale = FALSE]]
      BY <1>2 DEF Restart
    <2>4. objects'[id].stale = FALSE
      BY <1>2, <2>3, ObjectsTyped DEF Restart, Objects, IInv, TypeOK
    <2>5. QED
      BY <2>2, <2>4 DEF Restarted, Stale
  <1>3. QED
    BY <1>1, <1>2

\* Deletions, and changes past Terraform, make nothing stale.
LEMMA ServerRestarted ==
    ASSUME IInv, Restarted, [Next]_vars,
           Delete \/ DeleteLost \/ \E i \in Ids : Remove(i) \/ OutsideDelete(i) \/ OutsideEdit(i)
    PROVE  Restarted'
  <1>1. CASE Delete \/ DeleteLost
    <2>1. ~Ahead
      BY <1>1, HandlersOfSteps DEF Delete, DeleteLost, At, Ahead, IInv
    <2>2. UNCHANGED <<known, warned>>
      BY <1>1 DEF Delete, DeleteLost, Advance, ReturnError, server
    <2>3. CASE Exists(id) /\ objects' = [objects EXCEPT ![id].deleting = TRUE]
      <3>1. objects' = [objects EXCEPT ![id] = [objects[id] EXCEPT !.deleting = TRUE]]
        BY <2>3
      <3>2. [objects[id] EXCEPT !.deleting = TRUE].stale = objects[id].stale
        BY <2>3, ObjectsTyped DEF Objects
      <3>3. \A j \in Ids : Stale(j)' => Stale(j)
        BY <2>3, <3>1, <3>2 DEF Stale, Exists, IInv, TypeOK
      <3>4. QED
        BY <2>1, <2>2, <3>3, StaleKept
    <2>4. CASE UNCHANGED server
      BY <2>1, <2>2, <2>4, QuietRestarted
    <2>5. QED
      BY <1>1, <2>3, <2>4 DEF Delete, DeleteLost
  <1>2. ASSUME NEW i \in Ids, Remove(i) \/ OutsideDelete(i) PROVE Restarted'
    <2>1. known' \subseteq known /\ warned' = warned /\ (Ahead => Ahead')
      BY <1>2 DEF Remove, OutsideDelete, Gone, handler, Ahead
    <2>2. \A j \in Ids : objects'[j] = IF j = i THEN None ELSE objects[j]
      BY <1>2 DEF Remove, OutsideDelete, Gone, IInv, TypeOK
    <2>3. \A j \in Ids : Stale(j)' => Stale(j)
      BY <2>2 DEF Stale, Exists
    <2>4. QED
      BY <2>1, <2>3, StaleKept
  <1>3. ASSUME NEW i \in Ids, OutsideEdit(i) PROVE Restarted'
    <2>1. PICK v \in Values : objects' = [objects EXCEPT ![i] = [objects[i] EXCEPT !.val = v]]
      BY <1>3 DEF OutsideEdit
    <2>2. [objects[i] EXCEPT !.val = v].stale = objects[i].stale /\ objects[i] # None
      BY <1>3 DEF OutsideEdit, Exists, IInv, TypeOK, Objects
    <2>3. \A j \in Ids : Stale(j)' => Stale(j)
      BY <2>1, <2>2 DEF Stale, Exists, IInv, TypeOK
    <2>4. known' \subseteq known /\ warned' = warned /\ (Ahead => Ahead')
      BY <1>3 DEF OutsideEdit, handler, Ahead
    <2>5. QED
      BY <2>3, <2>4, StaleKept
  <1>4. QED
    BY <1>1, <1>2, <1>3

\* Every step keeps it unless it loses the answer to an update's PATCH.
LEMMA NextRestarted ==
    ASSUME RestartsAfterPatch, IInv, Restarted, [Next]_vars, ~PatchLost
    PROVE  Restarted'
  <1>1. CASE Plan \/ Edit \/ Read \/ Save \/ Return
    BY <1>1, OthersRestarted
  <1>2. CASE Mutate
    BY <1>2, OthersRestarted, PostRestarted, WriteRestarted, RestartRestarted DEF Mutate
  <1>3. CASE Remover
    BY <1>3, OthersRestarted, ServerRestarted DEF Remover
  <1>4. CASE \E i \in Ids : Remove(i) \/ OutsideDelete(i) \/ OutsideEdit(i)
    BY <1>4, ServerRestarted
  <1>5. CASE UNCHANGED vars
    BY <1>5, QuietRestarted DEF vars, handler, Ahead
  <1>6. QED
    BY <1>1, <1>2, <1>3, <1>4, <1>5 DEF Next, Run

\* While no answer to the PATCH of an update is lost, the promise of
\* redeploy_on_update is kept by every resource whose update restarts right
\* after its PATCH, whatever else is refused, lost, fails, is edited or
\* deleted: the containers run the configuration of the last update, or a
\* warning has said that they do not.
THEOREM RestartedUnlessLost ==
    ASSUME RestartsAfterPatch
    PROVE  Spec /\ [][~PatchLost]_vars => []UpdatedIsRestarted
  <1>1. Init => Restarted
    BY DEF Init, Restarted, Stale, Exists, Owned
  <1>2. IInv /\ Restarted /\ [Next]_vars /\ [~PatchLost]_vars => Restarted'
    <2> SUFFICES ASSUME IInv, Restarted, [Next]_vars, [~PatchLost]_vars PROVE Restarted'
      OBVIOUS
    <2>1. CASE UNCHANGED vars
      BY <2>1, QuietRestarted DEF vars, handler, Ahead
    <2>2. CASE ~PatchLost
      BY <2>2, NextRestarted
    <2>3. QED
      BY <2>1, <2>2
  <1>3. IInv /\ AInv /\ Restarted => UpdatedIsRestarted
    <2> SUFFICES ASSUME IInv, AInv, Restarted, outcome = "ok", config # None, ~touched, ~warned
                 PROVE  ~objects[state.id].stale
      BY DEF UpdatedIsRestarted
    <2>1. state # None /\ Exists(state.id)
      BY DEF AInv, Quiet, SuccessMeansApplied
    <2>2. ~Ahead
      BY DEF AInv, Ahead
    <2>3. QED
      BY <2>1, <2>2 DEF Restarted, Stale, Owned
  <1>4. QED
    BY <1>1, <1>2, <1>3, AppliedInductive, PTL DEF Spec

(***************************************************************************)
(* Errors have causes.                                                     *)
(***************************************************************************)

\* An apply fails because a call of its own was refused or lost, or because
\* somebody changed the server's objects since it began.
ErrorsHaveCauses ==
    [][outcome' = "error" /\ outcome # "error" => faults' = faults + 1 \/ touched]_vars

\* A handler that looks for its object, or writes to it, finds it there.
LEMMA NothingMissing ==
    ASSUME IInv, AInv, GetMissing \/ WriteMissing
    PROVE  touched
  <1> SUFFICES ASSUME ~touched PROVE FALSE
    BY DEF IInv, TypeOK
  <1>1. /\ doing \in {"create", "update"} /\ ~Exists(id)
        /\ pc \in 1..Len(program[doing]) /\ program[doing][pc] \in {"get"} \cup Patches \cup Extends
    BY HandlersOfSteps DEF GetMissing, WriteMissing, ToSend, At, IInv
  <1>2. doing = "create" => pc # 1
    BY <1>1, ProgramTypes DEF IInv, Extends, Patches
  <1>3. QED
    BY <1>1, <1>2 DEF AInv, Quiet, Creating, Updating, Has

\* No handler fails by itself: what its program reads back or writes to
\* is there, in every kind of resource and after every history of failures and
\* repairs. With HandlersRunOut and SuccessIsApplied this is what Converges
\* rests on: an apply without a failed call and without interference ends,
\* ends well, and leaves the object as configured.
THEOREM NoErrorWithoutCause == Spec => ErrorsHaveCauses
  <1> DEFINE Caused == outcome' = "error" /\ outcome # "error" => faults' = faults + 1 \/ touched
  <1>1. ASSUME IInv, AInv, [Next]_vars PROVE Caused
    <2> USE DEF Advance, core
    <2>1. CASE \E steps : Refused(steps)
      BY <2>1 DEF Refused, Fault
    <2>2. CASE GetMissing \/ WriteMissing
      BY <1>1, <2>2, NothingMissing
    <2>3. CASE PostLost \/ WriteLost \/ WriteRefused \/ DeleteLost \/ RestartFails
      BY <2>3 DEF PostLost, WriteLost, WriteRefused, DeleteLost, RestartFails, Fault
    <2>4. CASE Get \/ Look \/ LookFails \/ Find \/ FindMissing \/ Post \/ Write \/ NothingToSend \/ Restart
      BY <2>4 DEF Get, Look, LookFails, Find, FindMissing, Post, Write, NothingToSend, Restart
    <2>5. CASE Delete \/ DeleteInUse \/ PollGone \/ Save
      BY <2>5 DEF Delete, DeleteInUse, PollGone, Save
    <2>6. CASE Return
      BY <2>6 DEF Return
    <2>7. CASE Plan \/ Edit
      BY <2>7 DEF Plan, Refresh, NothingToRefresh, Create, Update, Destroy, NoChanges, Start, Edit
    <2>8. CASE \E i \in Ids : Remove(i) \/ OutsideDelete(i) \/ OutsideEdit(i)
      BY <2>8 DEF Remove, OutsideDelete, OutsideEdit
    <2>9. CASE UNCHANGED vars
      BY <2>9 DEF vars
    <2>10. QED
      BY <1>1, <2>1, <2>2, <2>3, <2>4, <2>5, <2>6, <2>7, <2>8, <2>9
      DEF Next, Run, Read, Mutate, Remover, FindFails, PollGivesUp
  <1>2. IInv /\ AInv /\ [Next]_vars => [Caused]_vars
    BY <1>1
  <1>3. QED
    BY <1>2, AppliedInductive, PTL DEF Spec, ErrorsHaveCauses
=============================================================================
