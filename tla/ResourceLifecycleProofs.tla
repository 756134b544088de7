----------------------- MODULE ResourceLifecycleProofs -----------------------
(***************************************************************************)
(* Proofs about ResourceLifecycle, for every set of handlers that satisfies *)
(* ProgramsAssumption and for any number of values, UUIDs and faults.      *)
(*                                                                         *)
(* The inductive invariant says what a running handler may rely on: whose  *)
(* UUID it holds, that a Create past its POST holds the new UUID and has   *)
(* only looked around until it saves, and that a Delete past its DELETE    *)
(* works on an object that is going or gone.                               *)
(***************************************************************************)
EXTENDS ResourceLifecycle, TLAPS

\* What a running handler holds of Terraform's state.
Frame ==
    /\ doing = "create" => state = None
    /\ doing \in {"create", "update"} => config # None
    /\ doing \in {"read", "update", "delete"} => state # None /\ id = state.id
    /\ doing \in {"read", "update"} => resp # None
    /\ doing \in {"read", "update"} => resp.id = id

\* How far a Create is: before its POST it holds nothing, after it the new
\* UUID, and nothing but reads stands between the POST and the first save.
CreateFrame ==
    doing = "create" =>
        /\ pc = 1 => id = None /\ resp = None
        /\ pc # 1 => id \in Ids
        /\ resp # None => resp.id = id
        /\ resp = None => \A j \in 2..(pc - 1) : program.create[j] = "look"

\* How far a Delete is: past its DELETE the object is going, past its poll
\* it is gone.
Going(i) == Exists(i) => objects[i].deleting
DeleteFrame ==
    doing = "delete" =>
        /\ (\E j \in 1..(pc - 1) : program.delete[j] \in {"delete", "retry"}) => Going(id)
        /\ (\E j \in 1..(pc - 1) : program.delete[j] = "poll") => ~Exists(id)

KnownExist == \A i \in known : objects[i] # None

IInv ==
    /\ TypeOK /\ Frame /\ CreateFrame /\ DeleteFrame
    /\ KnownExist /\ AcknowledgedIsTracked

-----------------------------------------------------------------------------
\* Which handler a step belongs to.

\* ProgramsAssumption, for the program of this resource.
LEMMA ProgramTypes ==
    ASSUME TypeOK
    PROVE  /\ program.create \in Seq(CreateSteps)
           /\ program.read \in Seq(ReadSteps)
           /\ program.update \in Seq(UpdateSteps)
           /\ program.delete \in Seq(DeleteSteps)
           /\ \A k \in 1..Len(program.create) : (k = 1) <=> (program.create[k] = "post")
           /\ SavesSoon(program.create)
           /\ \E k \in 1..Len(program.delete) : program.delete[k] \in {"delete", "retry"}
  BY ProgramsAssumption DEF TypeOK

\* A handler runs only the steps of its own kind,
LEMMA StepsOfHandlers ==
    ASSUME TypeOK, doing \in Handlers, pc \in 1..Len(program[doing])
    PROVE  /\ doing = "create" => program[doing][pc] \in CreateSteps
           /\ doing = "read" => program[doing][pc] \in ReadSteps
           /\ doing = "update" => program[doing][pc] \in UpdateSteps
           /\ doing = "delete" => program[doing][pc] \in DeleteSteps
  BY ProgramTypes

\* and so a step tells which handler runs.
LEMMA HandlersOfSteps ==
    ASSUME TypeOK, doing \in Handlers, pc \in 1..Len(program[doing])
    PROVE  /\ program[doing][pc] = "post" => doing = "create" /\ pc = 1
           /\ program[doing][pc] \in Extends => doing = "create"
           /\ program[doing][pc] \in Patches => doing = "update"
           /\ program[doing][pc] = "find" => doing = "read"
           /\ program[doing][pc] \in {"delete", "retry", "poll"} => doing = "delete"
           /\ program[doing][pc] \in {"look", "get"} => doing \in {"create", "update"}
           /\ program[doing][pc] = "restart" => doing = "update"
  <1>1. doing = "create" /\ program[doing][pc] = "post" => pc = 1
    BY ProgramTypes
  <1>2. QED
    BY <1>1, StepsOfHandlers
    DEF Handlers, CreateSteps, ReadSteps, UpdateSteps, DeleteSteps, Extends, Patches

\* A Create that fails after its POST has saved the UUID: until the first
\* save it only looks around.
LEMMA FailsAfterSave ==
    ASSUME IInv, doing = "create", pc \in 1..Len(program.create),
           program.create[pc] \notin {"post", "save", "look"}
    PROVE  resp # None
  <1> SUFFICES ASSUME resp = None PROVE FALSE
    OBVIOUS
  <1>1. PICK k \in 2..Len(program.create) :
            program.create[k] = "save" /\ \A j \in 2..(k - 1) : program.create[j] = "look"
    BY ProgramTypes DEF IInv, SavesSoon
  <1>2. \A j \in 2..(pc - 1) : program.create[j] = "look"
    BY DEF IInv, CreateFrame
  <1>3. pc # 1
    BY ProgramTypes DEF IInv
  <1>4. pc <= k
    BY <1>1, <1>2, ProgramTypes
  <1>5. QED
    BY <1>1, <1>3, <1>4, ProgramTypes

\* A Create that returns has saved.
LEMMA ReturnsAfterSave ==
    ASSUME IInv, doing = "create", pc = Len(program.create) + 1
    PROVE  resp # None
  <1> SUFFICES ASSUME resp = None PROVE FALSE
    OBVIOUS
  <1>1. PICK k \in 2..Len(program.create) : program.create[k] = "save"
    BY ProgramTypes DEF IInv, SavesSoon
  <1>2. \A j \in 2..(pc - 1) : program.create[j] = "look"
    BY DEF IInv, CreateFrame
  <1>3. QED
    BY <1>1, <1>2, ProgramTypes DEF IInv

-----------------------------------------------------------------------------
\* What every step but a POST does on the server.
KeepsKnown ==
    /\ objects' \in [Ids -> Objects \cup {None}]
    /\ known' \subseteq known
    /\ \A i \in known' : objects'[i] # None /\ (objects[i].deleting => objects'[i].deleting)

ServerStep ==
    /\ KeepsKnown
    /\ \A i \in Ids : Going(i) => Going(i)'
    /\ \A i \in Ids : ~Exists(i) => ~Exists(i)'

\* A step that leaves the server alone keeps every known object,
LEMMA ServerUnchanged ==
    ASSUME IInv, UNCHANGED server
    PROVE  ServerStep
  BY DEF IInv, TypeOK, KnownExist, server, ServerStep, KeepsKnown, Going, Exists

\* A write to an object that leaves its deletion alone, or begins it.
LEMMA ServerWrites ==
    ASSUME IInv, NEW i \in Ids, NEW o \in Objects, objects[i] # None,
           objects[i].deleting => o.deleting,
           objects' = [objects EXCEPT ![i] = o], UNCHANGED known
    PROVE  ServerStep
  BY ValuesAssumption DEF IInv, TypeOK, KnownExist, ServerStep, KeepsKnown, Going, Exists

\* and so does the removal of one, which is known no longer.
LEMMA ServerRemoves ==
    ASSUME IInv, NEW i \in Ids, Gone(i)
    PROVE  ServerStep
  <1>1. objects' \in [Ids -> Objects \cup {None}]
    BY DEF IInv, TypeOK, Gone
  <1>2. \A j \in Ids : objects'[j] = IF j = i THEN None ELSE objects[j]
    BY DEF IInv, TypeOK, Gone
  <1>3. known' = known \ {i} /\ known \subseteq Ids
    BY DEF IInv, TypeOK, Gone
  <1>4. KeepsKnown
    BY <1>1, <1>2, <1>3 DEF KeepsKnown, IInv, KnownExist
  <1>5. QED
    BY <1>2, <1>4 DEF ServerStep, Going, Exists

-----------------------------------------------------------------------------
\* The three ways a step goes on: it fails, it advances, or it is not the
\* handler's.

\* Returning an error keeps the invariant when what was saved names the object.
LEMMA FailingStep ==
    ASSUME IInv, doing \in Handlers,
           NEW r \in Saved \cup {None}, ReturnError(r),
           resp # None => r # None,
           doing \in {"create", "update"} /\ r # None => r.id = id,
           doing = "create" => pc = 1 \/ resp # None,
           KeepsKnown, touched' \in BOOLEAN, faults' \in 0..MaxFaults
    PROVE  IInv'
  <1>1. state' \in States \cup {None}
    BY DEF IInv, TypeOK, ReturnError, Kept, Saved, States
  <1>2. TypeOK'
    BY <1>1 DEF IInv, TypeOK, ReturnError, KeepsKnown
  <1>3. doing' = "idle"
    BY DEF ReturnError
  <1>4. (Frame /\ CreateFrame /\ DeleteFrame)'
    BY <1>3 DEF Frame, CreateFrame, DeleteFrame
  <1>5. KnownExist'
    BY DEF KnownExist, KeepsKnown
  <1>6. AcknowledgedIsTracked'
    <2> SUFFICES ASSUME NEW i \in known', ~objects'[i].deleting
                 PROVE  state' # None /\ state'.id = i
      BY DEF AcknowledgedIsTracked
    <2>1. i \in known /\ ~objects[i].deleting /\ i \in Ids
      BY DEF KeepsKnown, IInv, TypeOK
    <2>2. \/ state # None /\ state.id = i
          \/ doing = "create" /\ id = i
      BY <2>1 DEF IInv, AcknowledgedIsTracked
    <2>3. CASE doing \in {"read", "delete"}
      BY <2>2, <2>3 DEF ReturnError
    <2>4. CASE doing \in {"create", "update"}
      <3>1. id = i
        BY <2>2, <2>4 DEF IInv, Frame
      <3>2. resp # None
        BY <2>4, <3>1, <2>1, ValuesAssumption DEF IInv, Frame, CreateFrame
      <3>3. r \in Saved /\ r.id = i
        BY <2>4, <3>1, <3>2
      <3>4. state' = [id |-> r.id, val |-> r.val, tainted |-> (doing = "create")]
        BY <2>4, <3>2 DEF ReturnError, Kept
      <3>5. state' \in States
        BY <3>3, <3>4 DEF Saved, States
      <3>6. QED
        BY <3>3, <3>4, <3>5, ValuesAssumption
    <2>5. QED
      BY <2>3, <2>4 DEF Handlers
  <1>7. QED
    BY <1>2, <1>4, <1>5, <1>6 DEF IInv

\* Going on to the next step keeps it when the frame and the server agree.
LEMMA AdvancingStep ==
    ASSUME IInv, doing \in Handlers, pc \in 1..Len(program[doing]),
           program[doing][pc] # "post",
           pc' = pc + 1, UNCHANGED <<program, core, doing, id, resp, edits, outsiders>>,
           warned' \in BOOLEAN, touched' \in BOOLEAN, faults' \in 0..MaxFaults,
           view' \in Values, ServerStep,
           doing = "create" /\ resp = None => program.create[pc] = "look",
           doing = "delete" /\ program.delete[pc] \in {"delete", "retry"} => Going(id)',
           doing = "delete" /\ program.delete[pc] = "poll" => ~Exists(id)'
    PROVE  IInv'
  <1>1. TypeOK'
    BY DEF IInv, TypeOK, core, ServerStep, KeepsKnown
  <1>2. Frame'
    BY DEF IInv, Frame, core
  <1>3. CreateFrame'
    <2> SUFFICES ASSUME doing = "create" PROVE CreateFrame'
      BY DEF CreateFrame
    <2>1. pc # 1
      BY ProgramTypes DEF IInv
    <2>2. pc' # 1
      BY DEF IInv, TypeOK
    <2>3. resp = None => \A j \in 2..(pc' - 1) : program.create[j] = "look"
      BY DEF IInv, CreateFrame, TypeOK
    <2>4. QED
      BY <2>1, <2>2, <2>3 DEF IInv, CreateFrame
  <1>4. DeleteFrame'
    <2> SUFFICES ASSUME doing = "delete" PROVE DeleteFrame'
      BY DEF DeleteFrame
    <2>1. id \in Ids
      BY DEF IInv, Frame, TypeOK, States
    <2>2. \A j \in 1..(pc' - 1) : j \in 1..(pc - 1) \/ j = pc
      OBVIOUS
    <2>3. (\E j \in 1..(pc' - 1) : program.delete[j] \in {"delete", "retry"}) => Going(id)'
      BY <2>1, <2>2 DEF IInv, DeleteFrame, ServerStep
    <2>4. (\E j \in 1..(pc' - 1) : program.delete[j] = "poll") => ~Exists(id)'
      BY <2>1, <2>2 DEF IInv, DeleteFrame, ServerStep
    <2>5. QED
      BY <2>3, <2>4 DEF DeleteFrame, Going, Exists
  <1>5. KnownExist'
    BY DEF KnownExist, ServerStep, KeepsKnown
  <1>6. AcknowledgedIsTracked'
    BY DEF IInv, AcknowledgedIsTracked, ServerStep, KeepsKnown, core
  <1>7. QED
    BY <1>1, <1>2, <1>3, <1>4, <1>5, <1>6 DEF IInv

\* What happens on the server keeps it, whichever handler runs.
LEMMA OutsideStep ==
    ASSUME IInv, UNCHANGED <<program, core, handler, warned, faults, edits>>,
           ServerStep, touched' \in BOOLEAN, outsiders' \in 0..MaxOutside
    PROVE  IInv'
  <1>1. TypeOK'
    BY DEF IInv, TypeOK, core, handler, ServerStep, KeepsKnown
  <1>2. Frame' /\ CreateFrame'
    BY DEF IInv, Frame, CreateFrame, core, handler
  <1>3. DeleteFrame'
    <2> SUFFICES ASSUME doing = "delete" PROVE DeleteFrame'
      BY DEF DeleteFrame, handler
    <2>1. id \in Ids /\ id' = id
      BY DEF IInv, Frame, TypeOK, States, handler
    <2>2. QED
      BY <2>1 DEF IInv, DeleteFrame, ServerStep, handler, Going, Exists
  <1>4. KnownExist'
    BY DEF KnownExist, ServerStep, KeepsKnown
  <1>5. AcknowledgedIsTracked'
    BY DEF IInv, AcknowledgedIsTracked, ServerStep, KeepsKnown, core, handler
  <1>6. QED
    BY <1>1, <1>2, <1>3, <1>4, <1>5 DEF IInv

-----------------------------------------------------------------------------
\* The invariant holds initially and every action preserves it.

\* It holds before the first apply.
LEMMA InitIInv == Init => IInv
  <1> SUFFICES ASSUME Init PROVE IInv
    OBVIOUS
  <1>1. TypeOK
    <2>1. objects \in [Ids -> Objects \cup {None}]
      BY DEF Init
    <2>2. faults \in 0..MaxFaults /\ edits \in 0..MaxEdits /\ outsiders \in 0..MaxOutside
      BY BoundsAssumption DEF Init
    <2>3. warned \in BOOLEAN /\ touched \in BOOLEAN
      BY DEF Init
    <2>4. pc \in Nat
      BY DEF Init
    <2>5. QED
      BY <2>1, <2>2, <2>3, <2>4, Zenon DEF Init, TypeOK
  <1>2. QED
    BY <1>1 DEF Init, IInv, Frame, CreateFrame, DeleteFrame, KnownExist, AcknowledgedIsTracked, Handlers

\* Between two handlers only the configuration and what Terraform does change.
LEMMA IdleStep ==
    ASSUME IInv, UNCHANGED <<program, state, pc, id, view, resp, warned, server>>,
           config' \in Values \cup {None}, doing \notin Handlers,
           doing' \in {"idle", "planned"}, outcome' \in {"none", "ok", "error"},
           touched' \in BOOLEAN, edits' \in 0..MaxEdits, UNCHANGED <<faults, outsiders>>
    PROVE  IInv'
  <1>1. TypeOK'
    BY DEF IInv, TypeOK, server
  <1>2. (Frame /\ CreateFrame /\ DeleteFrame)'
    BY DEF Frame, CreateFrame, DeleteFrame
  <1>3. (KnownExist /\ AcknowledgedIsTracked)'
    BY DEF IInv, KnownExist, AcknowledgedIsTracked, server, Handlers
  <1>4. QED
    BY <1>1, <1>2, <1>3 DEF IInv

\* A handler starts with the frame it relies on.
LEMMA StartStep ==
    ASSUME IInv, NEW h \in Handlers, doing = "idle" \/ doing = "planned", Start(h),
           h = "create" <=> state = None,
           h \in {"create", "update"} => config # None,
           outcome' \in {"none", "ok", "error"}, touched' \in BOOLEAN
    PROVE  IInv'
  <1>1. state # None => state \in States
    BY DEF IInv, TypeOK
  <1>2. view' \in Values
    BY <1>1 DEF IInv, TypeOK, Start, States, Handlers
  <1>3. id' \in Ids \cup {None} /\ resp' \in Saved \cup {None}
    BY <1>1 DEF Start, States, Saved
  <1>4. TypeOK'
    BY <1>2, <1>3 DEF IInv, TypeOK, Start, server, bounds
  <1>5. state # None => resp' # None /\ resp'.id = id' /\ id' = state.id
    BY <1>1, <1>3, ValuesAssumption DEF Start, States, Saved
  <1>6. Frame'
    BY <1>5 DEF Frame, Start, Handlers
  <1>7. CreateFrame'
    BY DEF CreateFrame, Start
  <1>8. DeleteFrame'
    BY DEF DeleteFrame, Start
  <1>9. (KnownExist /\ AcknowledgedIsTracked)'
    BY DEF IInv, KnownExist, AcknowledgedIsTracked, Start, server
  <1>10. QED
    BY <1>4, <1>6, <1>7, <1>8, <1>9 DEF IInv

\* What Terraform does between two handlers.
LEMMA PlanStep == ASSUME IInv, Plan PROVE IInv'
  <1>1. CASE Refresh
    BY <1>1, StartStep DEF Refresh, Handlers
  <1>2. CASE NothingToRefresh
    BY <1>2, IdleStep DEF NothingToRefresh, bounds, IInv, TypeOK, Handlers
  <1>3. CASE Create
    BY <1>3, StartStep DEF Create, Handlers, IInv, TypeOK
  <1>4. CASE Update
    BY <1>4, StartStep DEF Update, Handlers, IInv, TypeOK
  <1>5. CASE Destroy
    BY <1>5, StartStep DEF Destroy, Handlers, IInv, TypeOK
  <1>6. CASE NoChanges
    BY <1>6, IdleStep DEF NoChanges, bounds, IInv, TypeOK, Handlers
  <1>7. QED
    BY <1>1, <1>2, <1>3, <1>4, <1>5, <1>6 DEF Plan

\* An edit of the configuration.
LEMMA EditStep == ASSUME IInv, Edit PROVE IInv'
  BY IdleStep, BoundsAssumption DEF Edit, handler, IInv, TypeOK, Handlers

\* A handler that returns: what was deleted is going, what was created is saved.
LEMMA ReturnStep == ASSUME IInv, Return PROVE IInv'
  <1>1. doing = "delete" => \E k \in 1..(pc - 1) : program.delete[k] \in {"delete", "retry"}
    <2> SUFFICES ASSUME doing = "delete"
                 PROVE  \E k \in 1..(pc - 1) : program.delete[k] \in {"delete", "retry"}
      OBVIOUS
    <2>1. pc - 1 = Len(program.delete)
      BY ProgramTypes DEF Return, IInv
    <2>2. QED
      BY <2>1, ProgramTypes DEF IInv
  <1>2. doing \in {"create", "read", "update"} => resp # None /\ resp \in Saved /\ resp.id = id
    BY ReturnsAfterSave DEF IInv, Frame, CreateFrame, TypeOK, Return
  <1>3. doing = "delete" => state' = None
    BY DEF Return
  <1>4. doing # "delete" => state' \in States /\ state'.id = id
    BY <1>2 DEF Return, Kept, Saved, States, Handlers
  <1>5. doing' \in {"idle", "planned"} /\ outcome' \in {"none", "ok", "error"}
    BY DEF Return, IInv, TypeOK
  <1>6. TypeOK'
    BY <1>3, <1>4, <1>5 DEF IInv, TypeOK, Return, server, bounds
  <1>7. (Frame /\ CreateFrame /\ DeleteFrame)'
    BY <1>5 DEF Frame, CreateFrame, DeleteFrame
  <1>8. KnownExist'
    BY DEF IInv, KnownExist, Return, server
  <1>9. AcknowledgedIsTracked'
    <2> SUFFICES ASSUME NEW i \in known, ~objects[i].deleting
                 PROVE  state' # None /\ state'.id = i
      BY DEF AcknowledgedIsTracked, Return, server
    <2>1. doing \in {"read", "update", "delete"} => state # None /\ id = state.id
      BY DEF IInv, Frame
    <2>2. id = i
      BY <2>1 DEF IInv, Frame, AcknowledgedIsTracked, Return, Handlers
    <2>3. doing # "delete"
      BY <1>1, <2>2, ValuesAssumption DEF IInv, DeleteFrame, Going, Exists, KnownExist, TypeOK
    <2>4. QED
      BY <1>4, <2>2, <2>3, ValuesAssumption
  <1>10. QED
    BY <1>6, <1>7, <1>8, <1>9 DEF IInv

\* State.Set puts the UUID the handler works on into the response.
LEMMA SaveStep == ASSUME IInv, Save PROVE IInv'
  <1>1. doing \in Handlers /\ pc \in 1..Len(program[doing]) /\ program[doing][pc] = "save"
    BY DEF Save, At
  <1>2. doing \in {"create", "read", "update"}
    BY <1>1, StepsOfHandlers DEF IInv, Handlers, DeleteSteps
  <1>3. doing = "create" => pc # 1
    BY <1>1, ProgramTypes DEF IInv
  <1>4. id \in Ids
    BY <1>2, <1>3 DEF IInv, Frame, CreateFrame, TypeOK, States
  <1>5. resp' \in Saved /\ resp'.id = id /\ resp' # None
    BY <1>4, ValuesAssumption DEF Save, Saved, IInv, TypeOK
  <1>6. TypeOK'
    BY <1>5 DEF IInv, TypeOK, Save, Advance, core, server
  <1>7. Frame'
    BY <1>5 DEF IInv, Frame, Save, Advance, core
  <1>8. CreateFrame'
    BY <1>1, <1>4, <1>5 DEF CreateFrame, Save, Advance
  <1>9. DeleteFrame'
    BY <1>2 DEF DeleteFrame, Save, Advance
  <1>10. (KnownExist /\ AcknowledgedIsTracked)'
    BY DEF IInv, KnownExist, AcknowledgedIsTracked, Save, Advance, core, server
  <1>11. QED
    BY <1>6, <1>7, <1>8, <1>9, <1>10 DEF IInv

\* The answered POST: the new object is in the hands of Create.
LEMMA PostStep == ASSUME IInv, Post PROVE IInv'
  <1>1. doing = "create" /\ pc = 1 /\ state = None /\ config \in Values /\ id = None
    BY HandlersOfSteps DEF Post, At, IInv, Frame, CreateFrame, TypeOK
  <1>2. PICK i \in Ids : Fresh(i) /\ NewObject(i) /\ id' = i /\ known' = known \cup {i}
    BY DEF Post
  <1>3. Posted \in Values
    BY <1>1, ValuesAssumption DEF Posted, Values
  <1>4. [val |-> Posted, deleting |-> FALSE, stale |-> FALSE] \in Objects
    BY <1>3 DEF Objects
  <1>5. objects' \in [Ids -> Objects \cup {None}]
    BY <1>2, <1>4 DEF NewObject, IInv, TypeOK
  <1>6. TypeOK'
    BY <1>2, <1>5 DEF IInv, TypeOK, Post, Advance, core
  <1>7. Frame'
    BY <1>1 DEF IInv, Frame, Post, Advance, core
  <1>8. CreateFrame' /\ DeleteFrame'
    BY <1>1, <1>2 DEF IInv, CreateFrame, DeleteFrame, Post, Advance
  <1>9. \A j \in Ids : j # i => objects'[j] = objects[j]
    BY <1>2 DEF NewObject, IInv, TypeOK
  <1>10. objects'[i] # None
    BY <1>2, <1>4, ValuesAssumption DEF NewObject, IInv, TypeOK
  <1>11. KnownExist'
    BY <1>2, <1>9, <1>10 DEF IInv, TypeOK, KnownExist
  <1>12. AcknowledgedIsTracked'
    <2>1. \A j \in known : objects[j].deleting
      BY <1>1, ValuesAssumption DEF IInv, AcknowledgedIsTracked, TypeOK
    <2>2. i \notin known
      BY <1>2 DEF Fresh, IInv, KnownExist
    <2>3. QED
      BY <1>1, <1>2, <1>9, <2>1, <2>2 DEF AcknowledgedIsTracked, Post, Advance, IInv, TypeOK
  <1>13. QED
    BY <1>6, <1>7, <1>8, <1>11, <1>12 DEF IInv

-----------------------------------------------------------------------------
\* Steps that fail.

\* What an error returns is the handler's own UUID, and a Create that fails
\* has not posted yet or has saved.
LEMMA SavedSoFar ==
    ASSUME IInv, doing \in Handlers, pc \in 1..Len(program[doing]),
           program[doing][pc] \notin {"save", "look"}
    PROVE  /\ doing \in {"create", "update"} /\ resp # None => resp.id = id
           /\ doing = "create" => pc = 1 \/ resp # None
  <1>1. doing = "create" /\ program[doing][pc] = "post" => pc = 1
    BY HandlersOfSteps DEF IInv
  <1>2. QED
    BY <1>1, FailsAfterSave DEF IInv, Frame, CreateFrame

\* A refused call ends the handler with what it has saved.
LEMMA RefusedStep ==
    ASSUME IInv, NEW S, Refused(S), "save" \notin S, "look" \notin S
    PROVE  IInv'
  <1>1. doing \in Handlers /\ pc \in 1..Len(program[doing]) /\ program[doing][pc] \notin {"save", "look"}
    BY DEF Refused, At
  <1>2. KeepsKnown
    BY ServerUnchanged DEF Refused, ServerStep
  <1>3. touched' \in BOOLEAN /\ faults' \in 0..MaxFaults /\ resp \in Saved \cup {None}
    BY BoundsAssumption DEF Refused, Fault, IInv, TypeOK
  <1>4. QED
    BY <1>1, <1>2, <1>3, SavedSoFar, FailingStep DEF Refused

\* A GET or a write that finds no object.
LEMMA MissingStep == ASSUME IInv, GetMissing \/ WriteMissing PROVE IInv'
  <1>1. doing \in Handlers /\ pc \in 1..Len(program[doing]) /\ program[doing][pc] \notin {"save", "look"}
    BY DEF GetMissing, WriteMissing, ToSend, At, Patches, Extends
  <1>2. KeepsKnown
    BY ServerUnchanged DEF GetMissing, WriteMissing, ServerStep
  <1>3. touched' \in BOOLEAN /\ faults' \in 0..MaxFaults /\ resp \in Saved \cup {None} /\ ReturnError(resp)
    BY DEF GetMissing, WriteMissing, IInv, TypeOK
  <1>4. QED
    BY <1>1, <1>2, <1>3, SavedSoFar, FailingStep

\* The POST was applied and not answered: nobody knows the new object.
LEMMA PostLostStep == ASSUME IInv, PostLost PROVE IInv'
  <1>1. doing \in Handlers /\ pc \in 1..Len(program[doing]) /\ program[doing][pc] = "post"
    BY DEF PostLost, At
  <1>2. doing = "create" /\ config \in Values
    BY <1>1, HandlersOfSteps DEF IInv, Frame, TypeOK
  <1>3. PICK i \in Ids : Fresh(i) /\ NewObject(i)
    BY DEF PostLost
  <1>4. [val |-> Posted, deleting |-> FALSE, stale |-> FALSE] \in Objects
    BY <1>2, ValuesAssumption DEF Posted, Values, Objects
  <1>5. objects' \in [Ids -> Objects \cup {None}]
    BY <1>3, <1>4 DEF NewObject, IInv, TypeOK
  <1>6. \A j \in known : j # i /\ objects'[j] = objects[j] /\ objects[j] # None
    BY <1>3 DEF Fresh, NewObject, IInv, TypeOK, KnownExist
  <1>7. KeepsKnown
    BY <1>5, <1>6 DEF KeepsKnown, PostLost
  <1>8. touched' \in BOOLEAN /\ faults' \in 0..MaxFaults /\ resp \in Saved \cup {None}
    BY BoundsAssumption DEF PostLost, Fault, IInv, TypeOK
  <1>9. QED
    BY <1>1, <1>7, <1>8, SavedSoFar, FailingStep DEF PostLost

\* What a write does to the object.
LEMMA WrittenObject ==
    ASSUME IInv, ToSend, Exists(id)
    PROVE  /\ id \in Ids /\ objects[id] \in Objects
           /\ Written(objects[id]) \in Objects
           /\ Written(objects[id]).deleting = objects[id].deleting
           /\ Written(objects[id]).val \in Values
  <1>1. id \in Ids /\ objects[id] \in Objects
    BY DEF Exists, IInv, TypeOK
  <1>2. doing \in {"create", "update"} /\ config \in Values
    BY HandlersOfSteps DEF ToSend, At, IInv, Frame, TypeOK
  <1>3. doing = "update" => Patched(objects[id].val) \in Values
    BY <1>1, <1>2 DEF Patched, Values, Objects, IInv, Frame, TypeOK, States
  <1>4. Extended(objects[id].val) \in Values
    BY <1>1, <1>2 DEF Extended, Values, Objects
  <1>5. CASE doing = "update"
    BY <1>1, <1>3, <1>5 DEF Written, Objects
  <1>6. CASE doing = "create"
    BY <1>1, <1>4, <1>6 DEF Written, Objects
  <1>7. QED
    BY <1>1, <1>2, <1>5, <1>6

\* A PATCH changes one object and deletes none.
LEMMA WriteOnServer ==
    ASSUME IInv, ToSend, Exists(id),
           objects' = [objects EXCEPT ![id] = Written(@)], UNCHANGED known
    PROVE  ServerStep
  <1>1. objects' = [objects EXCEPT ![id] = Written(objects[id])]
    BY DEF IInv, TypeOK
  <1>2. QED
    BY <1>1, WrittenObject, ServerWrites DEF Exists

\* However a failed write ends, KeepsKnown is all that is needed of the server.
LEMMA WriteErrorStep ==
    ASSUME IInv, ToSend, NEW objs \in [Ids -> Objects \cup {None}], WriteError(objs),
           KeepsKnown, UNCHANGED touched, Fault
    PROVE  IInv'
  <1>1. doing \in Handlers /\ pc \in 1..Len(program[doing]) /\ program[doing][pc] \notin {"save", "look"}
    BY DEF ToSend, At, Patches, Extends
  <1>2. touched' \in BOOLEAN /\ faults' \in 0..MaxFaults /\ resp \in Saved \cup {None}
    BY BoundsAssumption DEF Fault, IInv, TypeOK
  <1>3. CASE ReturnError(resp)
    BY <1>1, <1>2, <1>3, SavedSoFar, FailingStep
  <1>4. CASE At({"recover"}) /\ objs[id] # None /\ ReturnError([id |-> id, val |-> objs[id].val])
    <2>1. doing = "create" /\ program[doing][pc] = "recover"
      BY <1>1, <1>4, HandlersOfSteps DEF At, Extends, IInv
    <2>2. resp # None /\ id \in Ids
      BY <1>1, <2>1, FailsAfterSave, ProgramTypes DEF IInv, CreateFrame, TypeOK, Saved
    <2>3. [id |-> id, val |-> objs[id].val] \in Saved
      BY <1>4, <2>2 DEF Saved, Objects
    <2>4. QED
      BY <1>1, <1>2, <1>4, <2>2, <2>3, ValuesAssumption, FailingStep
  <1>5. QED
    BY <1>3, <1>4 DEF WriteError

\* A PATCH that fails, applied or not.
LEMMA WriteFails == ASSUME IInv, WriteLost \/ WriteRefused PROVE IInv'
  <1>1. CASE WriteLost
    <2>1. ServerStep
      BY <1>1, WriteOnServer DEF WriteLost
    <2>2. QED
      BY <1>1, <2>1, WriteErrorStep DEF WriteLost, ServerStep, KeepsKnown
  <1>2. CASE WriteRefused
    <2>1. ServerStep
      BY <1>2, ServerUnchanged DEF WriteRefused
    <2>2. QED
      BY <1>2, <2>1, WriteErrorStep DEF WriteRefused, ServerStep, IInv, TypeOK
  <1>3. QED
    BY <1>1, <1>2

-----------------------------------------------------------------------------
\* Steps that go on.

\* What a handler finds on the server is well typed.
LEMMA ObjectsTyped ==
    ASSUME IInv, Exists(id)
    PROVE  id \in Ids /\ objects[id] \in Objects /\ objects[id].val \in Values
  BY DEF IInv, TypeOK, Exists, Objects

\* Reads that find their object, or do without.
LEMMA ReadsGoOn == ASSUME IInv, Get \/ Look \/ LookFails \/ Find PROVE IInv'
  <1>1. /\ doing \in Handlers /\ pc \in 1..Len(program[doing])
        /\ program[doing][pc] \in {"get", "look", "find"}
    BY DEF Get, Look, LookFails, Find, At
  <1>2. view' \in Values
    BY ObjectsTyped DEF Get, Look, LookFails, Find, IInv, TypeOK
  <1>3. doing # "delete"
    BY <1>1, StepsOfHandlers DEF IInv, DeleteSteps
  <1>4. doing = "create" /\ resp = None => program.create[pc] = "look"
    BY <1>1, FailsAfterSave
  <1>5. ServerStep
    BY ServerUnchanged DEF Get, Look, LookFails, Find
  <1>6. /\ pc' = pc + 1 /\ UNCHANGED <<program, core, doing, id, resp, edits, outsiders>>
        /\ warned' \in BOOLEAN /\ touched' \in BOOLEAN /\ faults' \in 0..MaxFaults
    BY BoundsAssumption DEF Get, Look, LookFails, Find, Advance, Fault, IInv, TypeOK
  <1>7. QED
    BY <1>1, <1>2, <1>3, <1>4, <1>5, <1>6, AdvancingStep

\* A PATCH that succeeds, or that is not needed.
LEMMA WritesGoOn == ASSUME IInv, Write \/ NothingToSend PROVE IInv'
  <1>1. /\ doing \in Handlers /\ pc \in 1..Len(program[doing])
        /\ program[doing][pc] \in Patches \cup Extends
    BY DEF Write, NothingToSend, ToSend, At
  <1>2. view' \in Values
    BY WrittenObject DEF Write, NothingToSend, IInv, TypeOK
  <1>3. program[doing][pc] \notin {"post", "look", "save"} /\ doing # "delete"
    BY <1>1, HandlersOfSteps DEF IInv, Patches, Extends
  <1>4. doing = "create" => resp # None
    BY <1>1, <1>3, FailsAfterSave
  <1>5. ServerStep
    BY ServerUnchanged, WriteOnServer DEF Write, NothingToSend
  <1>6. /\ pc' = pc + 1 /\ UNCHANGED <<program, core, doing, id, resp, edits, outsiders>>
        /\ warned' \in BOOLEAN /\ touched' \in BOOLEAN /\ faults' \in 0..MaxFaults
    BY DEF Write, NothingToSend, Advance, IInv, TypeOK
  <1>7. QED
    BY <1>1, <1>2, <1>3, <1>4, <1>5, <1>6, AdvancingStep

\* A restart, and the warning when it fails.
LEMMA RestartStep == ASSUME IInv, Restart \/ RestartFails PROVE IInv'
  <1>1. doing \in Handlers /\ pc \in 1..Len(program[doing]) /\ program[doing][pc] = "restart"
    BY DEF Restart, RestartFails, At
  <1>2. doing = "update"
    BY <1>1, HandlersOfSteps DEF IInv
  <1>3. ServerStep
    <2>1. CASE Restart
      <3>1. objects' = [objects EXCEPT ![id] = [objects[id] EXCEPT !.stale = FALSE]]
        BY <2>1 DEF Restart
      <3>2. [objects[id] EXCEPT !.stale = FALSE] \in Objects
        BY <2>1, ObjectsTyped DEF Restart, Objects
      <3>3. objects[id].deleting => [objects[id] EXCEPT !.stale = FALSE].deleting
        BY <2>1, ObjectsTyped DEF Restart, Objects
      <3>4. QED
        BY <2>1, <3>1, <3>2, <3>3, ObjectsTyped, ServerWrites DEF Restart, Exists
    <2>2. CASE RestartFails
      BY <2>2, ServerUnchanged DEF RestartFails
    <2>3. QED
      BY <2>1, <2>2
  <1>4. /\ pc' = pc + 1 /\ UNCHANGED <<program, core, doing, id, resp, edits, outsiders>>
        /\ touched' \in BOOLEAN /\ faults' \in 0..MaxFaults /\ view' \in Values
    BY BoundsAssumption DEF Restart, RestartFails, Fault, bounds, IInv, TypeOK
  <1>5. warned' \in BOOLEAN
    BY DEF Restart, RestartFails
  <1>6. QED
    BY <1>1, <1>2, <1>3, <1>4, <1>5, AdvancingStep

-----------------------------------------------------------------------------
\* Deletion.

\* From an accepted DELETE on the object is going.
LEMMA DeletionBegins ==
    ASSUME IInv, Exists(id), objects' = [objects EXCEPT ![id].deleting = TRUE], UNCHANGED <<known, id>>
    PROVE  ServerStep /\ Going(id)'
  <1>1. [objects[id] EXCEPT !.deleting = TRUE] \in Objects /\ [objects[id] EXCEPT !.deleting = TRUE].deleting
    BY ObjectsTyped DEF Objects
  <1>2. objects' = [objects EXCEPT ![id] = [objects[id] EXCEPT !.deleting = TRUE]]
    OBVIOUS
  <1>3. ServerStep
    BY <1>1, <1>2, ObjectsTyped, ServerWrites DEF Exists
  <1>4. objects'[id].deleting
    BY <1>1, <1>2, ObjectsTyped DEF IInv, TypeOK
  <1>5. Going(id)'
    BY <1>4 DEF Going
  <1>6. QED
    BY <1>3, <1>5

\* The DELETE is accepted, or its object was gone.
LEMMA DeleteStep == ASSUME IInv, Delete PROVE IInv'
  <1>1. /\ doing \in Handlers /\ pc \in 1..Len(program[doing])
        /\ program[doing][pc] \in {"delete", "retry"}
    BY DEF Delete, At
  <1>2. doing = "delete"
    BY <1>1, HandlersOfSteps DEF IInv
  <1>3. /\ pc' = pc + 1 /\ UNCHANGED <<program, core, doing, id, resp, edits, outsiders>>
        /\ warned' \in BOOLEAN /\ touched' \in BOOLEAN /\ faults' \in 0..MaxFaults /\ view' \in Values
    BY DEF Delete, Advance, IInv, TypeOK
  <1>4. ServerStep /\ Going(id)'
    <2>1. CASE Exists(id)
      BY <1>3, <2>1, DeletionBegins DEF Delete
    <2>2. CASE ~Exists(id)
      BY <1>3, <2>2, ServerUnchanged DEF Delete, Going, Exists, server
    <2>3. QED
      BY <2>1, <2>2
  <1>5. QED
    BY <1>1, <1>2, <1>3, <1>4, AdvancingStep

\* The DELETE is accepted but its answer is lost.
LEMMA DeleteFails == ASSUME IInv, DeleteLost PROVE IInv'
  <1>1. /\ doing \in Handlers /\ pc \in 1..Len(program[doing])
        /\ program[doing][pc] \notin {"save", "look"}
    BY DEF DeleteLost, At
  <1>2. KeepsKnown
    BY DeletionBegins DEF DeleteLost, ReturnError, ServerStep
  <1>3. touched' \in BOOLEAN /\ faults' \in 0..MaxFaults /\ resp \in Saved \cup {None}
    BY BoundsAssumption DEF DeleteLost, Fault, IInv, TypeOK
  <1>4. QED
    BY <1>1, <1>2, <1>3, SavedSoFar, FailingStep DEF DeleteLost

\* The object is in use, and RetryDelete waits.
LEMMA DeleteWaits == ASSUME IInv, DeleteInUse PROVE IInv'
  <1>1. TypeOK'
    BY BoundsAssumption DEF DeleteInUse, Fault, IInv, TypeOK, core, handler, server
  <1>2. (Frame /\ CreateFrame /\ DeleteFrame)'
    BY DEF DeleteInUse, IInv, Frame, CreateFrame, DeleteFrame, Going, Exists, core, handler, server
  <1>3. (KnownExist /\ AcknowledgedIsTracked)'
    BY DEF DeleteInUse, IInv, KnownExist, AcknowledgedIsTracked, core, handler, server
  <1>4. QED
    BY <1>1, <1>2, <1>3 DEF IInv

\* The poll sees the object gone.
LEMMA PollStep == ASSUME IInv, PollGone PROVE IInv'
  <1>1. doing \in Handlers /\ pc \in 1..Len(program[doing]) /\ program[doing][pc] = "poll"
    BY DEF PollGone, At
  <1>2. doing = "delete"
    BY <1>1, HandlersOfSteps DEF IInv
  <1>3. /\ pc' = pc + 1 /\ UNCHANGED <<program, core, doing, id, resp, edits, outsiders>>
        /\ warned' \in BOOLEAN /\ touched' \in BOOLEAN /\ faults' \in 0..MaxFaults /\ view' \in Values
    BY DEF PollGone, Advance, IInv, TypeOK
  <1>4. ServerStep /\ ~Exists(id)'
    BY <1>3, ServerUnchanged DEF PollGone, Exists, server
  <1>5. QED
    BY <1>1, <1>2, <1>3, <1>4, AdvancingStep

\* Read answers 404: the object is not there, so it is not a known one.
LEMMA FindMissingStep == ASSUME IInv, FindMissing PROVE IInv'
  <1>1. doing = "read" /\ ~Exists(id)
    BY HandlersOfSteps DEF FindMissing, At, IInv
  <1>2. TypeOK'
    BY DEF FindMissing, IInv, TypeOK, server, bounds
  <1>3. (Frame /\ CreateFrame /\ DeleteFrame)'
    BY DEF FindMissing, Frame, CreateFrame, DeleteFrame
  <1>4. KnownExist'
    BY DEF FindMissing, IInv, KnownExist, server
  <1>5. AcknowledgedIsTracked'
    <2>1. \A i \in known : i # id
      BY <1>1, ValuesAssumption DEF IInv, KnownExist, TypeOK, Exists
    <2>2. QED
      BY <1>1, <2>1 DEF FindMissing, IInv, AcknowledgedIsTracked, Frame, server
  <1>6. QED
    BY <1>2, <1>3, <1>4, <1>5 DEF IInv

-----------------------------------------------------------------------------
\* The server by itself.
LEMMA OutsideSteps ==
    ASSUME IInv, NEW i \in Ids, Remove(i) \/ OutsideDelete(i) \/ OutsideEdit(i)
    PROVE  IInv'
  <1>1. CASE Remove(i)
    BY <1>1, ServerRemoves, OutsideStep DEF Remove, bounds, IInv, TypeOK
  <1>2. CASE OutsideDelete(i)
    BY <1>2, ServerRemoves, OutsideStep, BoundsAssumption DEF OutsideDelete, IInv, TypeOK
  <1>3. CASE OutsideEdit(i)
    <2>1. PICK v \in Values : objects' = [objects EXCEPT ![i].val = v]
      BY <1>3 DEF OutsideEdit
    <2>2. objects[i] \in Objects /\ objects[i] # None
      BY <1>3 DEF OutsideEdit, Exists, IInv, TypeOK
    <2>3. /\ [objects[i] EXCEPT !.val = v] \in Objects
          /\ objects[i].deleting => [objects[i] EXCEPT !.val = v].deleting
      BY <2>2 DEF Objects
    <2>4. objects' = [objects EXCEPT ![i] = [objects[i] EXCEPT !.val = v]]
      BY <2>1
    <2>5. ServerStep
      BY <1>3, <2>2, <2>3, <2>4, ServerWrites DEF OutsideEdit
    <2>6. QED
      BY <1>3, <2>5, OutsideStep, BoundsAssumption DEF OutsideEdit, IInv, TypeOK
  <1>4. QED
    BY <1>1, <1>2, <1>3

\* A stuttering step.
LEMMA StutterStep == ASSUME IInv, UNCHANGED vars PROVE IInv'
  <1>1. TypeOK'
    BY DEF IInv, TypeOK, vars, core, handler, server, bounds
  <1>2. (Frame /\ CreateFrame /\ DeleteFrame)'
    BY DEF IInv, Frame, CreateFrame, DeleteFrame, Going, Exists, vars, core, handler, server
  <1>3. (KnownExist /\ AcknowledgedIsTracked)'
    BY DEF IInv, KnownExist, AcknowledgedIsTracked, vars, core, handler, server
  <1>4. QED
    BY <1>1, <1>2, <1>3 DEF IInv

\* The invariant is inductive.
LEMMA NextIInv == ASSUME IInv, [Next]_vars PROVE IInv'
  <1>1. CASE Plan
    BY <1>1, PlanStep
  <1>2. CASE Edit
    BY <1>2, EditStep
  <1>3. CASE Read
    BY <1>3, ReadsGoOn, MissingStep, RefusedStep, FindMissingStep DEF Read, FindFails
  <1>4. CASE Mutate
    BY <1>4, PostStep, PostLostStep, RefusedStep, WritesGoOn, WriteFails, MissingStep, RestartStep DEF Mutate
  <1>5. CASE Remover
    BY <1>5, DeleteStep, DeleteFails, RefusedStep, DeleteWaits, PollStep DEF Remover, PollGivesUp
  <1>6. CASE Save \/ Return
    BY <1>6, SaveStep, ReturnStep
  <1>7. CASE \E i \in Ids : Remove(i) \/ OutsideDelete(i) \/ OutsideEdit(i)
    BY <1>7, OutsideSteps
  <1>8. CASE UNCHANGED vars
    BY <1>8, StutterStep
  <1>9. QED
    BY <1>1, <1>2, <1>3, <1>4, <1>5, <1>6, <1>7, <1>8 DEF Next, Run

\* So it holds in every reachable state.
LEMMA Invariance == Spec => []IInv
  BY InitIInv, NextIInv, PTL DEF Spec

-----------------------------------------------------------------------------
\* The state Terraform keeps, the frame of the running handler and the
\* server's objects stay well typed, whatever handlers run.
THEOREM TypeCorrect == Spec => []TypeOK
  <1>1. IInv => TypeOK
    BY DEF IInv
  <1>2. QED
    BY <1>1, Invariance, PTL

\* No handler that saves its state soon after its POST ever loses an object
\* whose POST was answered, whatever fails afterwards, however often, and
\* whoever else changes or deletes objects.
THEOREM NoOrphans == Spec => []AcknowledgedIsTracked
  <1>1. IInv => AcknowledgedIsTracked
    BY DEF IInv
  <1>2. QED
    BY <1>1, Invariance, PTL

\* An error of a handler never empties the state.
LEMMA ErrorKeepsState ==
    ASSUME IInv, doing \in Handlers, state # None,
           NEW r \in Saved \cup {None}, ReturnError(r), resp # None => r # None
    PROVE  state' # None
  <1>1. CASE doing \in {"read", "delete"}
    BY <1>1 DEF ReturnError
  <1>2. CASE doing = "update"
    <2>1. r \in Saved /\ r # None
      BY <1>2 DEF IInv, Frame
    <2>2. state' = [id |-> r.id, val |-> r.val, tainted |-> FALSE]
      BY <1>2, <2>1 DEF ReturnError, Kept
    <2>3. state' \in States
      BY <2>1, <2>2 DEF Saved, States
    <2>4. QED
      BY <2>3, ValuesAssumption
  <1>3. QED
    BY <1>1, <1>2 DEF IInv, Frame, Handlers

\* A handler that returns without a state was a Delete whose object is going, and gone if it polled.
LEMMA ReturnForgets ==
    ASSUME IInv, Return, state # None, state' = None
    PROVE  /\ doing = "delete" /\ id = state.id /\ Going(id)
           /\ (\E k \in 1..Len(program.delete) : program.delete[k] = "poll") => ~Exists(id)
  <1>1. doing \in {"read", "update", "delete"}
    BY DEF Return, IInv, Frame, Handlers
  <1>2. CASE doing \in {"read", "update"}
    <2>1. resp \in Saved /\ resp # None
      BY <1>2 DEF IInv, Frame, TypeOK
    <2>2. state.tainted \in BOOLEAN
      BY DEF IInv, TypeOK, States
    <2>3. state' \in States
      BY <1>2, <2>1, <2>2 DEF Return, Kept, Saved, States
    <2>4. QED
      BY <2>3, ValuesAssumption
  <1>3. CASE doing = "delete"
    <2>1. pc - 1 = Len(program.delete)
      BY <1>3, ProgramTypes DEF Return, IInv
    <2>2. \E k \in 1..(pc - 1) : program.delete[k] \in {"delete", "retry"}
      BY <2>1, ProgramTypes DEF IInv
    <2>3. QED
      BY <1>3, <2>1, <2>2 DEF IInv, Frame, DeleteFrame
  <1>4. QED
    BY <1>1, <1>2, <1>3

\* Every other action keeps what the state has.
LEMMA OthersKeepState ==
    ASSUME IInv, [Next]_vars, ~Return, ~FindMissing, state # None
    PROVE  state' # None
  <1>1. CASE Plan \/ Edit
    BY <1>1 DEF Plan, Edit, Refresh, NothingToRefresh, Create, Update, Destroy, NoChanges, Start
  <1>2. ASSUME NEW S, Refused(S) PROVE state' # None
    BY <1>2, ErrorKeepsState DEF Refused, At, IInv, TypeOK
  <1>3. CASE Read
    BY <1>2, <1>3, ErrorKeepsState
    DEF Read, FindFails, Get, GetMissing, Look, LookFails, Find, Advance, core, At, IInv, TypeOK
  <1>4. CASE WriteLost \/ WriteRefused
    <2>1. doing \in Handlers /\ pc \in 1..Len(program[doing])
      BY <1>4 DEF WriteLost, WriteRefused, ToSend, At
    <2>2. CASE ReturnError(resp)
      BY <2>1, <2>2, ErrorKeepsState DEF IInv, TypeOK
    <2>3. CASE At({"recover"})
      BY <2>1, <2>3, HandlersOfSteps DEF At, Extends, IInv, Frame
    <2>4. QED
      BY <1>4, <2>2, <2>3 DEF WriteLost, WriteRefused, WriteError
  <1>5. CASE Mutate
    BY <1>2, <1>4, <1>5, ErrorKeepsState
    DEF Mutate, Post, PostLost, Write, NothingToSend, WriteMissing, Restart, RestartFails,
        Advance, core, ToSend, At, IInv, TypeOK
  <1>6. CASE Remover
    BY <1>2, <1>6, ErrorKeepsState
    DEF Remover, PollGivesUp, Delete, DeleteLost, DeleteInUse, PollGone, Advance, core, At, IInv, TypeOK
  <1>7. CASE Save
    BY <1>7 DEF Save, Advance, core
  <1>8. CASE \E i \in Ids : Remove(i) \/ OutsideDelete(i) \/ OutsideEdit(i)
    BY <1>8 DEF Remove, OutsideDelete, OutsideEdit, core
  <1>9. CASE UNCHANGED vars
    BY <1>9 DEF vars, core
  <1>10. QED
    BY <1>1, <1>3, <1>5, <1>6, <1>7, <1>8, <1>9 DEF Next, Run

\* Terraform's state loses a resource only when its object is gone, or going
\* in the case of a handler that does not poll.
THEOREM NothingIsForgotten == Spec => ForgetsOnlyWhatIsGone
  <1> DEFINE Forgets ==
        state # None /\ state' = None =>
          \/ ~Exists(state.id)
          \/ /\ objects[state.id].deleting
             /\ \A k \in 1..Len(program.delete) : program.delete[k] # "poll"
  <1>1. ASSUME IInv, [Next]_vars PROVE Forgets
    <2>1. CASE FindMissing
      BY <1>1, <2>1, HandlersOfSteps DEF FindMissing, At, IInv, Frame
    <2>2. CASE Return
      BY <1>1, <2>2, ReturnForgets DEF Going
    <2>3. QED
      BY <1>1, <2>1, <2>2, OthersKeepState
  <1>2. IInv /\ [Next]_vars => [Forgets]_vars
    BY <1>1
  <1>3. QED
    BY <1>2, Invariance, PTL DEF Spec, ForgetsOnlyWhatIsGone

-----------------------------------------------------------------------------
\* ResourceLifecycle implements ManagedObject. Most steps leave the object
\* owned, the objects known and those doomed as they were.

\* A step or a stutter of the promise.
Promised == [Promise!Next]_(Promise!vars)

\* A step that keeps the handler and what it works on keeps the owned object,
LEMMA OwnerStays == ASSUME UNCHANGED <<state, doing, id>> PROVE Owned' = Owned
  BY DEF Owned

\* and so does one that fails: what is saved names the object.
LEMMA FailureKeepsOwner ==
    ASSUME IInv, doing \in Handlers,
           NEW r \in Saved \cup {None}, ReturnError(r),
           resp # None => r # None,
           doing \in {"create", "update"} /\ r # None => r.id = id,
           doing = "create" => pc = 1 \/ resp # None
    PROVE  Owned' = Owned /\ program' = program
  <1>1. doing' = "idle" /\ program' = program
    BY DEF ReturnError
  <1>2. r # None => r \in Saved /\ r.id \in Ids /\ r.id # None
    BY ValuesAssumption DEF Saved
  <1>3. doing \in {"create", "update"} /\ r # None => state' # None /\ state'.id = r.id
    <2> SUFFICES ASSUME doing \in {"create", "update"}, r # None
                 PROVE  state' # None /\ state'.id = r.id
      OBVIOUS
    <2>1. state' = [id |-> r.id, val |-> r.val, tainted |-> (doing = "create")]
      BY DEF ReturnError, Kept
    <2>2. state' \in States
      BY <1>2, <2>1 DEF Saved, States
    <2>3. QED
      BY <2>1, <2>2, ValuesAssumption
  <1>4. CASE doing \in {"read", "delete"}
    BY <1>1, <1>4 DEF Owned, ReturnError, IInv, Frame
  <1>5. CASE doing = "update"
    <2>1. state # None /\ id = state.id /\ resp # None
      BY <1>5 DEF IInv, Frame
    <2>2. QED
      BY <1>1, <1>3, <1>5, <2>1 DEF Owned
  <1>6. CASE doing = "create"
    <2>1. state = None /\ Owned = id
      BY <1>6 DEF Owned, IInv, Frame
    <2>2. CASE r = None
      <3>1. pc = 1 /\ id = None
        BY <1>6, <2>2 DEF IInv, CreateFrame
      <3>2. state' = None
        BY <1>6, <2>2 DEF ReturnError, Kept
      <3>3. QED
        BY <1>1, <2>1, <3>1, <3>2 DEF Owned
    <2>3. CASE r # None
      BY <1>1, <1>3, <1>6, <2>1, <2>3 DEF Owned
    <2>4. QED
      BY <2>2, <2>3
  <1>7. QED
    BY <1>1, <1>4, <1>5, <1>6 DEF Handlers

\* No step of a handler but DELETE begins a deletion.
LEMMA NothingDoomed ==
    ASSUME Owned' = Owned, UNCHANGED <<program, known>>,
           \A i \in known : objects'[i].deleting = objects[i].deleting
    PROVE  UNCHANGED Promise!vars
  BY DEF Promise!vars, Doomed, Polls

\* A step that leaves the server alone begins none.
LEMMA QuietStep ==
    ASSUME Owned' = Owned, program' = program, UNCHANGED server
    PROVE  UNCHANGED Promise!vars
  BY NothingDoomed DEF server

\* DELETE dooms the object of the state.
LEMMA DeletionPromise ==
    ASSUME IInv, doing = "delete", Exists(id), objects' = [objects EXCEPT ![id].deleting = TRUE],
           Owned' = Owned, UNCHANGED <<program, known>>
    PROVE  Promised
  <1>1. Owned = id /\ id \in Ids /\ objects[id] \in Objects
    BY ObjectsTyped DEF Owned, IInv, Frame
  <1>2. objects' = [objects EXCEPT ![id] = [objects[id] EXCEPT !.deleting = TRUE]]
    OBVIOUS
  <1>3. objects'[id].deleting = TRUE /\ \A i \in Ids : i # id => objects'[i] = objects[i]
    BY <1>1, <1>2 DEF IInv, TypeOK, Objects
  <1>4. known \subseteq Ids
    BY DEF IInv, TypeOK
  <1>5. CASE id \in known
    <2>1. Doomed' = Doomed \cup {id}
      BY <1>3, <1>4, <1>5 DEF Doomed
    <2>2. Promise!Condemn
      BY <1>1, <1>5, <2>1 DEF Promise!Condemn, Polls
    <2>3. QED
      BY <2>2 DEF Promised, Promise!Next
  <1>6. CASE id \notin known
    BY <1>3, <1>4, <1>6, NothingDoomed DEF Promised
  <1>7. QED
    BY <1>5, <1>6

\* An object that is removed is known no longer.
LEMMA GonePromise ==
    ASSUME IInv, NEW i \in Ids, Gone(i), UNCHANGED <<program, core, handler>>
    PROVE  Promised
  <1>1. Owned' = Owned /\ Polls' = Polls
    BY OwnerStays DEF core, handler, Polls
  <1>2. known' = known \ {i} /\ known \subseteq Ids /\ \A j \in Ids : j # i => objects'[j] = objects[j]
    BY DEF Gone, IInv, TypeOK
  <1>3. Doomed' = Doomed \ {i}
    BY <1>2 DEF Doomed
  <1>4. CASE i \in known
    <2>1. Promise!Vanish(i)
      BY <1>1, <1>2, <1>3, <1>4 DEF Promise!Vanish
    <2>2. QED
      BY <2>1 DEF Promised, Promise!Next
  <1>5. CASE i \notin known
    BY <1>1, <1>2, <1>3, <1>5 DEF Promised, Promise!vars, Doomed
  <1>6. QED
    BY <1>4, <1>5

\* Between two handlers nothing is adopted and nothing let go.
LEMMA PlanPromise == ASSUME IInv, Plan \/ Edit PROVE Promised
  <1>1. Owned' = Owned
    <2>1. CASE Edit
      BY <2>1, OwnerStays DEF Edit, handler
    <2>2. doing \notin Handlers \/ Edit
      BY DEF Plan, Refresh, NothingToRefresh, Create, Update, Destroy, NoChanges, Handlers
    <2>3. Edit \/ (state' = state /\ (state = None => doing' # "create" \/ id' = None))
      BY DEF Plan, Refresh, NothingToRefresh, Create, Update, Destroy, NoChanges, Start
    <2>4. QED
      BY <2>1, <2>2, <2>3 DEF Owned, Handlers
  <1>2. program' = program /\ UNCHANGED server
    BY DEF Plan, Edit, Refresh, NothingToRefresh, Create, Update, Destroy, NoChanges, Start
  <1>3. QED
    BY <1>1, <1>2, QuietStep DEF Promised

\* An answered POST adopts an object nobody was told of.
LEMMA PostPromise == ASSUME IInv, Post PROVE Promised
  <1>1. doing = "create" /\ pc = 1 /\ state = None /\ id = None
    BY HandlersOfSteps DEF Post, At, IInv, Frame, CreateFrame
  <1>2. PICK i \in Ids : Fresh(i) /\ NewObject(i) /\ id' = i /\ known' = known \cup {i}
    BY DEF Post
  <1>3. state' = None /\ doing' = "create" /\ program' = program
    BY <1>1 DEF Post, Advance, core
  <1>4. i \notin known /\ known \subseteq Ids
    BY <1>2 DEF Fresh, IInv, KnownExist, TypeOK
  <1>5. /\ objects'[i] = [val |-> Posted, deleting |-> FALSE, stale |-> FALSE]
        /\ \A j \in Ids : j # i => objects'[j] = objects[j]
    BY <1>2 DEF NewObject, IInv, TypeOK
  <1>6. ~objects'[i].deleting
    BY <1>5
  <1>7. Doomed' = Doomed
    BY <1>2, <1>4, <1>5, <1>6 DEF Doomed
  <1>8. Promise!Adopt(i)
    BY <1>1, <1>2, <1>3, <1>4, <1>7 DEF Promise!Adopt, Owned, Polls
  <1>9. QED
    BY <1>8 DEF Promised, Promise!Next

\* A call that is refused or finds no object changes nothing.
LEMMA RefusedPromise ==
    ASSUME IInv, NEW S, Refused(S), "save" \notin S, "look" \notin S
    PROVE  Promised
  <1>1. doing \in Handlers /\ pc \in 1..Len(program[doing]) /\ program[doing][pc] \notin {"save", "look"}
    BY DEF Refused, At
  <1>2. Owned' = Owned /\ program' = program
    BY <1>1, SavedSoFar, FailureKeepsOwner DEF Refused, IInv, TypeOK
  <1>3. QED
    BY <1>2, QuietStep DEF Promised, Refused

\* So does a GET or a write of an object that is not there.
LEMMA MissingPromise == ASSUME IInv, GetMissing \/ WriteMissing PROVE Promised
  <1>1. doing \in Handlers /\ pc \in 1..Len(program[doing]) /\ program[doing][pc] \notin {"save", "look"}
    BY DEF GetMissing, WriteMissing, ToSend, At, Patches, Extends
  <1>2. Owned' = Owned /\ program' = program
    BY <1>1, SavedSoFar, FailureKeepsOwner DEF GetMissing, WriteMissing, IInv, TypeOK
  <1>3. QED
    BY <1>2, QuietStep DEF Promised, GetMissing, WriteMissing

\* What a lost POST leaves behind is not known, so it is nobody's.
LEMMA PostLostPromise == ASSUME IInv, PostLost PROVE Promised
  <1>1. doing \in Handlers /\ pc \in 1..Len(program[doing]) /\ program[doing][pc] = "post"
    BY DEF PostLost, At
  <1>2. Owned' = Owned /\ program' = program
    BY <1>1, SavedSoFar, FailureKeepsOwner DEF PostLost, IInv, TypeOK
  <1>3. PICK i \in Ids : Fresh(i) /\ NewObject(i)
    BY DEF PostLost
  <1>4. \A j \in known : objects'[j] = objects[j]
    BY <1>3 DEF Fresh, NewObject, IInv, TypeOK, KnownExist
  <1>5. QED
    BY <1>2, <1>4, NothingDoomed DEF Promised, PostLost

\* A write changes what the object holds and not whose it is.
LEMMA WriteDoomsNothing ==
    ASSUME IInv, ToSend, Exists(id), objects' = [objects EXCEPT ![id] = Written(@)]
    PROVE  \A i \in known : objects'[i].deleting = objects[i].deleting
  <1>1. objects' = [objects EXCEPT ![id] = Written(objects[id])]
    BY DEF IInv, TypeOK
  <1>2. QED
    BY <1>1, WrittenObject DEF IInv, TypeOK

\* A write that goes well, or is not needed.
LEMMA WritePromise == ASSUME IInv, Write \/ NothingToSend PROVE Promised
  <1>1. Owned' = Owned /\ UNCHANGED <<program, known>>
    BY OwnerStays DEF Write, NothingToSend, Advance, core, server
  <1>2. \A i \in known : objects'[i].deleting = objects[i].deleting
    BY WriteDoomsNothing DEF Write, NothingToSend, server
  <1>3. QED
    BY <1>1, <1>2, NothingDoomed DEF Promised

\* A write that fails, applied or not: Create's recovery saves its own object.
LEMMA WriteFailsPromise == ASSUME IInv, WriteLost \/ WriteRefused PROVE Promised
  <1>1. doing \in Handlers /\ pc \in 1..Len(program[doing]) /\ program[doing][pc] \notin {"save", "look"}
    BY DEF WriteLost, WriteRefused, ToSend, At, Patches, Extends
  <1>2. PICK objs \in [Ids -> Objects \cup {None}] : WriteError(objs)
    <2>1. CASE WriteLost
      BY <2>1, WriteOnServer DEF WriteLost, ServerStep, KeepsKnown
    <2>2. CASE WriteRefused
      BY <2>2 DEF WriteRefused, IInv, TypeOK
    <2>3. QED
      BY <2>1, <2>2
  <1>3. Owned' = Owned /\ program' = program
    <2>1. CASE ReturnError(resp)
      BY <1>1, <2>1, SavedSoFar, FailureKeepsOwner DEF IInv, TypeOK
    <2>2. CASE At({"recover"}) /\ objs[id] # None /\ ReturnError([id |-> id, val |-> objs[id].val])
      <3>1. doing = "create" /\ program[doing][pc] = "recover"
        BY <1>1, <2>2, HandlersOfSteps DEF At, Extends, IInv
      <3>2. resp # None /\ id \in Ids
        BY <1>1, <3>1, FailsAfterSave, ProgramTypes DEF IInv, CreateFrame, TypeOK, Saved
      <3>3. [id |-> id, val |-> objs[id].val] \in Saved
        BY <2>2, <3>2 DEF Saved, Objects
      <3>4. QED
        BY <1>1, <2>2, <3>2, <3>3, ValuesAssumption, FailureKeepsOwner
    <2>3. QED
      BY <1>2, <2>1, <2>2 DEF WriteError
  <1>4. known' = known /\ \A i \in known : objects'[i].deleting = objects[i].deleting
    BY WriteDoomsNothing DEF WriteLost, WriteRefused, server
  <1>5. QED
    BY <1>3, <1>4, NothingDoomed DEF Promised

\* A restart touches what the containers run only.
LEMMA RestartPromise == ASSUME IInv, Restart \/ RestartFails PROVE Promised
  <1>1. Owned' = Owned /\ UNCHANGED <<program, known>>
    BY OwnerStays DEF Restart, RestartFails, core, server
  <1>2. CASE RestartFails
    BY <1>1, <1>2, QuietStep DEF Promised, RestartFails
  <1>3. CASE Restart
    <2>1. objects' = [objects EXCEPT ![id] = [objects[id] EXCEPT !.stale = FALSE]]
      BY <1>3 DEF Restart
    <2>2. [objects[id] EXCEPT !.stale = FALSE].deleting = objects[id].deleting
      BY <1>3, ObjectsTyped DEF Restart, Objects
    <2>3. \A i \in known : objects'[i].deleting = objects[i].deleting
      BY <1>3, <2>1, <2>2, ObjectsTyped DEF Restart, IInv, TypeOK
    <2>4. QED
      BY <1>1, <2>3, NothingDoomed DEF Promised
  <1>4. QED
    BY <1>2, <1>3

\* Reads that find their object, and saves.
LEMMA ReadPromise == ASSUME IInv, Get \/ Look \/ LookFails \/ Find \/ Save \/ PollGone \/ DeleteInUse PROVE Promised
  <1>1. Owned' = Owned /\ program' = program /\ UNCHANGED server
    BY OwnerStays DEF Get, Look, LookFails, Find, Save, PollGone, DeleteInUse, Advance, core, handler
  <1>2. QED
    BY <1>1, QuietStep DEF Promised

\* A DELETE that is accepted, answered or not, dooms what the resource owns.
LEMMA DeletePromise == ASSUME IInv, Delete \/ DeleteLost PROVE Promised
  <1>1. doing = "delete" /\ pc \in 1..Len(program[doing]) /\ program[doing][pc] \notin {"save", "look"}
    BY HandlersOfSteps DEF Delete, DeleteLost, At, IInv
  <1>2. CASE Delete
    <2>1. Owned' = Owned /\ program' = program
      BY <1>2, OwnerStays DEF Delete, Advance, core
    <2>2. QED
      BY <1>1, <1>2, <2>1, DeletionPromise, QuietStep DEF Delete, Promised
  <1>3. CASE DeleteLost
    <2>1. Owned' = Owned /\ program' = program
      BY <1>1, <1>3, SavedSoFar, FailureKeepsOwner DEF DeleteLost, IInv, TypeOK, Handlers
    <2>2. QED
      BY <1>1, <1>3, <2>1, DeletionPromise DEF DeleteLost
  <1>4. QED
    BY <1>2, <1>3

\* Read found nothing: the resource lets go of an object that is gone.
LEMMA FindMissingPromise == ASSUME IInv, FindMissing PROVE Promised
  <1>1. doing = "read" /\ ~Exists(id) /\ state # None /\ id = state.id
    BY HandlersOfSteps DEF FindMissing, At, IInv, Frame
  <1>2. state.id \in Ids /\ Owned = state.id /\ Owned' = None
    BY <1>1 DEF FindMissing, Owned, IInv, TypeOK, States
  <1>3. Owned \notin known /\ Owned # None
    BY <1>1, <1>2, ValuesAssumption DEF Exists, IInv, KnownExist
  <1>4. UNCHANGED <<Polls, known, Doomed>>
    BY DEF FindMissing, server, Polls, Doomed
  <1>5. Promise!Disown
    BY <1>2, <1>3, <1>4 DEF Promise!Disown
  <1>6. QED
    BY <1>5 DEF Promised, Promise!Next

\* A handler that returns keeps its object, and a Delete lets go of one that
\* is going, or gone if it polled.
LEMMA ReturnPromise == ASSUME IInv, Return PROVE Promised
  <1>1. UNCHANGED <<Polls, known, Doomed>> /\ program' = program /\ UNCHANGED server
    BY DEF Return, server, Polls, Doomed
  <1>2. CASE doing = "delete"
    <2>1. state # None /\ state.id \in Ids /\ state.id # None /\ Owned = state.id
      BY <1>2, ValuesAssumption DEF Owned, IInv, Frame, TypeOK, States
    <2>2. state' = None /\ Owned' = None
      BY <1>2 DEF Return, Owned
    <2>3. id = state.id /\ Going(id) /\ (Polls => ~Exists(id))
      BY <2>1, <2>2, ReturnForgets DEF Polls
    <2>4. Owned \in known => Owned \in Doomed /\ ~Polls
      BY <2>1, <2>3 DEF Going, Exists, Doomed, IInv, KnownExist
    <2>5. Promise!Disown
      BY <1>1, <2>1, <2>2, <2>4 DEF Promise!Disown
    <2>6. QED
      BY <2>5 DEF Promised, Promise!Next
  <1>3. CASE doing # "delete"
    <2>1. doing \in {"create", "read", "update"}
      BY <1>3 DEF Return, Handlers
    <2>2. resp # None /\ resp \in Saved /\ resp.id = id
      BY <2>1, ReturnsAfterSave DEF IInv, Frame, CreateFrame, TypeOK, Return
    <2>3. state' = [id |-> resp.id, val |-> resp.val, tainted |-> (doing = "read" /\ state.tainted)]
      BY <1>3, <2>2 DEF Return, Kept
    <2>4. (doing = "read" /\ state.tainted) \in BOOLEAN
      OBVIOUS
    <2>5. state' \in States /\ state'.id = id
      BY <2>2, <2>3, <2>4 DEF Saved, States
    <2>6. Owned' = id
      BY <2>5, ValuesAssumption DEF Owned
    <2>7. Owned = id
      BY <2>1 DEF Owned, IInv, Frame
    <2>8. QED
      BY <1>1, <2>6, <2>7, QuietStep DEF Promised
  <1>4. QED
    BY <1>2, <1>3

\* What happens on the server leaves the resource what it owns.
LEMMA OutsidePromise ==
    ASSUME IInv, NEW i \in Ids, Remove(i) \/ OutsideDelete(i) \/ OutsideEdit(i)
    PROVE  Promised
  <1>1. CASE Remove(i) \/ OutsideDelete(i)
    BY <1>1, GonePromise DEF Remove, OutsideDelete
  <1>2. CASE OutsideEdit(i)
    <2>1. Owned' = Owned /\ UNCHANGED <<program, known>>
      BY <1>2, OwnerStays DEF OutsideEdit, core, handler
    <2>2. PICK v \in Values : objects' = [objects EXCEPT ![i] = [objects[i] EXCEPT !.val = v]]
      BY <1>2 DEF OutsideEdit
    <2>3. [objects[i] EXCEPT !.val = v].deleting = objects[i].deleting
      BY <1>2 DEF OutsideEdit, Exists, IInv, TypeOK, Objects
    <2>4. \A j \in known : objects'[j].deleting = objects[j].deleting
      BY <2>2, <2>3 DEF IInv, TypeOK
    <2>5. QED
      BY <2>1, <2>4, NothingDoomed DEF Promised
  <1>3. QED
    BY <1>1, <1>2

\* Every step of Terraform, a handler, the server or somebody else is a step
\* of the promise or leaves it as it was.
LEMMA StepPromise == ASSUME IInv, [Next]_vars PROVE Promised
  <1>1. CASE Plan \/ Edit
    BY <1>1, PlanPromise
  <1>2. CASE Read
    BY <1>2, ReadPromise, MissingPromise, RefusedPromise, FindMissingPromise DEF Read, FindFails
  <1>3. CASE Mutate
    BY <1>3, PostPromise, PostLostPromise, RefusedPromise, WritePromise, WriteFailsPromise, MissingPromise,
       RestartPromise DEF Mutate
  <1>4. CASE Remover
    BY <1>4, DeletePromise, RefusedPromise, ReadPromise DEF Remover, PollGivesUp
  <1>5. CASE Save \/ Return
    BY <1>5, ReadPromise, ReturnPromise
  <1>6. CASE \E i \in Ids : Remove(i) \/ OutsideDelete(i) \/ OutsideEdit(i)
    BY <1>6, OutsidePromise
  <1>7. CASE UNCHANGED vars
    BY <1>7, OwnerStays, QuietStep DEF vars, core, handler, Promised
  <1>8. QED
    BY <1>1, <1>2, <1>3, <1>4, <1>5, <1>6, <1>7 DEF Next, Run

\* The CRUD handlers of every kind of resource, run by Terraform against a
\* server that refuses, loses and delays, manage objects as ManagedObject
\* promises: at most one at a time, none that was not created for it; no
\* other object is ever deleted; and none is let go while it is there.
THEOREM LifecycleImplementsManagedObject == Spec => ImplementsManagedObject
  <1>1. Init => Promise!Init
    BY DEF Init, Promise!Init, Owned, Doomed, Polls
  <1>2. IInv /\ [Next]_vars => [Promise!Next]_(Promise!vars)
    BY StepPromise DEF Promised
  <1>3. QED
    BY <1>1, <1>2, Invariance, PTL DEF Spec, ImplementsManagedObject, Promise!Spec

(***************************************************************************)
(* Handlers run out: every step of a handler is one step of its program    *)
(* further on, or its return, or the wait of RetryDelete, which only a     *)
(* refused call brings about.                                              *)
(***************************************************************************)

\* A handler is at a step of its program, or past the last one.
InProgram == doing \in Handlers => pc \in 1..(Len(program[doing]) + 1)

\* The steps a handler has left, its return among them.
ToGo == IF doing \in Handlers THEN Len(program[doing]) + 2 - pc ELSE 0

\* A step of the handler brings its return nearer, and nobody puts it off.
Nearer ==
    /\ doing \in Handlers => ToGo' <= ToGo
    /\ Run => ToGo' < ToGo \/ (DeleteInUse /\ faults' = faults + 1)

RunsOut == [][Nearer]_vars

\* A program has a length.
LEMMA Lengths == ASSUME TypeOK PROVE \A h \in Handlers : Len(program[h]) \in Nat
  BY ProgramTypes DEF Handlers

\* What a step does to the handler that runs.
LEMMA RunMoves ==
    ASSUME TypeOK, Run
    PROVE  /\ doing \in Handlers /\ UNCHANGED program
           /\ pc \in 1..(Len(program[doing]) + 1)
           /\ \/ pc \in 1..Len(program[doing]) /\ pc' = pc + 1 /\ doing' = doing
              \/ doing' \in {"idle", "planned"}
              \/ DeleteInUse /\ faults' = faults + 1 /\ UNCHANGED <<doing, pc>>
  <1> USE DEF At, Advance, ReturnError
  <1>1. CASE \E steps : Refused(steps)
    BY <1>1 DEF Refused
  <1>2. CASE Get \/ GetMissing \/ Look \/ LookFails \/ Find \/ FindMissing
    BY <1>2 DEF Get, GetMissing, Look, LookFails, Find, FindMissing, core
  <1>3. CASE Post \/ PostLost \/ Save
    BY <1>3 DEF Post, PostLost, Save, core
  <1>4. CASE Write \/ NothingToSend
    BY <1>4 DEF Write, NothingToSend, ToSend, core
  <1>5. CASE WriteLost \/ WriteRefused \/ WriteMissing
    BY <1>5 DEF WriteLost, WriteRefused, WriteMissing, WriteError, ToSend
  <1>6. CASE Restart \/ RestartFails
    BY <1>6 DEF Restart, RestartFails, core
  <1>7. CASE Delete \/ DeleteLost \/ PollGone
    BY <1>7 DEF Delete, DeleteLost, PollGone, core
  <1>8. CASE DeleteInUse
    BY <1>8 DEF DeleteInUse, Fault, handler
  <1>9. CASE Return
    <2>1. doing \in Handlers /\ pc = Len(program[doing]) + 1 /\ UNCHANGED program /\ doing' \in {"idle", "planned"}
      BY <1>9 DEF Return
    <2>2. QED
      BY <2>1, Lengths
  <1>10. QED
    BY <1>1, <1>2, <1>3, <1>4, <1>5, <1>6, <1>7, <1>8, <1>9 DEF Run, Read, Mutate, Remover, FindFails, PollGivesUp

\* And what the others leave alone while it runs.
LEMMA OthersWait ==
    ASSUME [Next]_vars, ~Run
    PROVE  /\ UNCHANGED program
           /\ \/ UNCHANGED <<doing, pc>>
              \/ /\ doing \notin Handlers
                 /\ doing' \in Handlers => pc' = 1
  <1>1. CASE Plan \/ Edit
    BY <1>1 DEF Plan, Refresh, NothingToRefresh, Create, Update, Destroy, NoChanges, Start, Edit, handler, Handlers
  <1>2. CASE \E i \in Ids : Remove(i) \/ OutsideDelete(i) \/ OutsideEdit(i)
    BY <1>2 DEF Remove, OutsideDelete, OutsideEdit, handler
  <1>3. CASE UNCHANGED vars
    BY <1>3 DEF vars, handler
  <1>4. QED
    BY <1>1, <1>2, <1>3 DEF Next

\* Both together.
LEMMA NearerStep ==
    ASSUME TypeOK, InProgram, [Next]_vars
    PROVE  InProgram' /\ Nearer
  <1>1. \A h \in Handlers : Len(program[h]) \in Nat
    BY Lengths
  <1>2. "idle" \notin Handlers /\ "planned" \notin Handlers
    BY DEF Handlers
  <1>3. CASE Run
    <2>1. /\ doing \in Handlers /\ program' = program /\ pc \in 1..(Len(program[doing]) + 1)
          /\ \/ pc \in 1..Len(program[doing]) /\ pc' = pc + 1 /\ doing' = doing
             \/ doing' \in {"idle", "planned"}
             \/ DeleteInUse /\ faults' = faults + 1 /\ doing' = doing /\ pc' = pc
      BY <1>3, RunMoves
    <2>2. QED
      BY <1>1, <1>2, <2>1 DEF InProgram, Nearer, ToGo
  <1>4. CASE ~Run
    <2>1. /\ program' = program
          /\ \/ doing' = doing /\ pc' = pc
             \/ /\ doing \notin Handlers
                /\ doing' \in Handlers => pc' = 1
      BY <1>4, OthersWait
    <2>2. QED
      BY <1>1, <1>4, <2>1 DEF InProgram, Nearer, ToGo
  <1>5. QED
    BY <1>3, <1>4

\* Every handler returns after at most as many steps as its program has and
\* one, not counting the refusals RetryDelete waits out, each of which is a
\* failed call. What may keep it from its next step is the poll, until the
\* deletion job has run or the deadline passes.
THEOREM HandlersRunOut ==
    Spec => RunsOut /\ [](ToGo \in Nat /\ (ToGo = 0 <=> doing \notin Handlers))
  <1>1. Init => InProgram
    BY DEF Init, InProgram, Handlers
  <1>2. TypeOK /\ InProgram /\ [Next]_vars => InProgram' /\ [Nearer]_vars
    BY NearerStep
  <1>3. TypeOK /\ InProgram => ToGo \in Nat /\ (ToGo = 0 <=> doing \notin Handlers)
    BY Lengths DEF InProgram, ToGo
  <1>4. QED
    BY <1>1, <1>2, <1>3, TypeCorrect, PTL DEF Spec, RunsOut
=============================================================================
