----------------------- MODULE EnvironmentsAppliedProofs -----------------------
(***************************************************************************)
(* That an apply which ended well left every environment as configured,    *)
(* for any number of resources, names and lost answers.                    *)
(*                                                                         *)
(* SuccessMeansApplied speaks of the end of an apply, when everything is   *)
(* idle. The invariant says the same of every resource as soon as it is    *)
(* done, while the others still run, and what it takes to get there: after *)
(* the refresh the state has the description Coolify has, if it has one; a *)
(* state without taint has none where Coolify has none, until a PATCH that *)
(* clears one is lost; and a Create holds the configured one. That a       *)
(* resource stays done needs that no other one touches its environment,    *)
(* which are the keys of EnvironmentsProofs.                               *)
(***************************************************************************)
EXTENDS EnvironmentsProofs

DescIsKnown(r) ==
    \A i \in Ids : owner[i] = r =>
        /\ pc[r] = "get" => envs[i].desc = Blank
        /\ state[r] # None =>
            /\ pc[r] = "todo" /\ envs[i].desc # Blank => state[r].desc = envs[i].desc
            /\ ~Cleared /\ ~state[r].tainted /\ envs[i].desc = Blank => state[r].desc = Blank

CreateAsks(r) ==
    pc[r] \in {"get", "describe"} =>
        /\ config[r] # None /\ state[r].tainted /\ view[r].name = config[r].name
        /\ config[r].desc # None => view[r].desc = config[r].desc

AsConfigured(r) ==
    IF config[r] = None THEN state[r] = None
    ELSE \E i \in Ids :
        /\ owner[i] = r /\ envs[i] # None /\ envs[i].name = config[r].name
        /\ config[r].desc # None /\ (config[r].desc = Blank \/ ~Cleared)
                => envs[i].desc = config[r].desc

Done(r) == outcome[r] = "ok" => pc[r] = "idle" /\ AsConfigured(r)

Local(r) == DescIsKnown(r) /\ CreateAsks(r) /\ Done(r)

AInv == ~Astray => \A r \in Resources : Local(r)

-----------------------------------------------------------------------------
(***************************************************************************)
(* What a step of one resource leaves alone.                               *)
(***************************************************************************)

\* The environments of s, and what Terraform knows of it.
SameEnvs(s) ==
    \A i \in Ids : /\ owner'[i] = s <=> owner[i] = s
                   /\ owner[i] = s => envs'[i] = envs[i]

LeavesAlone(s) ==
    /\ SameEnvs(s) /\ state'[s] = state[s] /\ view'[s] = view[s]
    /\ config'[s] = config[s] /\ outcome'[s] = outcome[s]
    /\ pc'[s] \in {pc[s], "idle"}

LEMMA LocalStays ==
    ASSUME NEW s \in Resources, Local(s), LeavesAlone(s), lost \subseteq lost'
    PROVE  Local(s)'
  <1>1. ~Cleared' => ~Cleared
    BY DEF Cleared
  <1>2. DescIsKnown(s)' /\ CreateAsks(s)'
    BY <1>1 DEF Local, DescIsKnown, CreateAsks, LeavesAlone, SameEnvs
  <1>3. Done(s)'
    BY <1>1 DEF Local, Done, AsConfigured, LeavesAlone, SameEnvs
  <1>4. QED
    BY <1>2, <1>3 DEF Local

\* A resource has one environment.
LEMMA OneOwn ==
    ASSUME IInv, ~Astray, NEW r \in Resources,
           NEW i \in Ids, owner[i] = r, NEW j \in Ids, owner[j] = r
    PROVE  i = j /\ envs[i] # None /\ state[r] # None /\ i \in Holder(state[r].name)
  BY NoneAssumption DEF IInv, Keys, NameIsOwn, Owned, OwnersLive, UniqueNames, Holder

LEMMA AState ==
    ASSUME TypeOK, NEW r \in Resources
    PROVE  /\ config[r] # None => config[r] \in Configs
           /\ state[r] # None => state[r] \in States
           /\ view[r] # None => view[r] \in States
           /\ r # None
  BY NoneAssumption DEF TypeOK

\* Steps of r that touch no environment and save nothing.
LEMMA QuietApplied ==
    ASSUME IInv, ~Astray, NEW r \in Resources, Local(r),
           UNCHANGED <<config, state, envs, owner, lost>>,
           pc'[r] = "idle", outcome'[r] # "ok"
    PROVE  Local(r)'
  <1>1. DescIsKnown(r)'
    BY DEF Local, DescIsKnown, Cleared
  <1>2. QED
    BY <1>1 DEF Local, CreateAsks, Done

LEMMA FailsApplied ==
    ASSUME IInv, ~Astray, NEW r \in Resources, \A s \in Resources : Local(s),
           \/ PostConflict(r) \/ PostRefused(r) \/ UpdateFails(r) \/ DeleteRefused(r)
           \/ GetFails(r) \/ DescribeFails(r) \/ ReadFails(r)
    PROVE  \A s \in Resources : Local(s)'
  <1>1. UNCHANGED <<config, state, envs, owner, lost>>
    BY DEF PostConflict, PostRefused, UpdateFails, DeleteRefused, GetFails, DescribeFails, ReadFails,
           Fail, Abandon, End, server
  <1>2. pc'[r] = "idle" /\ outcome'[r] = "error"
    BY DEF PostConflict, PostRefused, UpdateFails, DeleteRefused, GetFails, DescribeFails, ReadFails,
           Fail, Abandon, End, IInv, TypeOK
  <1>3. Local(r)'
    BY <1>1, <1>2, QuietApplied
  <1>4. ASSUME NEW s \in Resources \ {r} PROVE LeavesAlone(s)
    <2>1. outcome'[s] = outcome[s] /\ pc'[s] \in {pc[s], "idle"} /\ view'[s] = view[s]
      BY DEF PostConflict, PostRefused, UpdateFails, DeleteRefused, GetFails, DescribeFails, ReadFails,
             Fail, Abandon, End, IInv, TypeOK
    <2>2. QED
      BY <1>1, <2>1 DEF LeavesAlone, SameEnvs
  <1>5. QED
    BY <1>1, <1>3, <1>4, LocalStays

-----------------------------------------------------------------------------
(***************************************************************************)
(* The steps.                                                              *)
(***************************************************************************)

\* An apply begins, the user edits, or a resource needs nothing.
LEMMA BeginApplied ==
    ASSUME IInv, ~Astray, \A s \in Resources : Local(s), Begin \/ \E r \in Resources : Edit(r)
    PROVE  \A s \in Resources : Local(s)'
  <1> SUFFICES ASSUME NEW s \in Resources PROVE Local(s)'
    OBVIOUS
  <1>1. UNCHANGED <<state, envs, owner, lost>> /\ outcome'[s] = "none" /\ pc'[s] \in {"idle", "read"}
    BY DEF Begin, Edit, Idle, server
  <1>2. DescIsKnown(s)'
    BY <1>1 DEF Local, DescIsKnown, Cleared
  <1>3. QED
    BY <1>1, <1>2 DEF Local, CreateAsks, Done

LEMMA NoChangesApplied ==
    ASSUME IInv, ~Astray, NEW r \in Resources, \A s \in Resources : Local(s), NoChanges(r)
    PROVE  \A s \in Resources : Local(s)'
  <1>1. UNCHANGED <<config, state, view, envs, owner, lost>> /\ pc'[r] = "idle"
    BY DEF NoChanges, End, server, IInv, TypeOK
  <1>2. DescIsKnown(r)' /\ CreateAsks(r)'
    BY <1>1 DEF Local, DescIsKnown, CreateAsks, Cleared
  <1>3. AsConfigured(r)
    <2>1. CASE state[r] = None
      BY <2>1 DEF NoChanges, AsConfigured
    <2>2. CASE state[r] # None
      <3>1. config[r] # None /\ ~state[r].tainted /\ ~Differs(r)
        BY <2>2 DEF NoChanges
      <3>2. PICK i \in Ids : owner[i] = r /\ envs[i] # None /\ envs[i].name = state[r].name
        BY <2>2 DEF IInv, Keys, OwnIsThere
      <3>3. state[r].name = config[r].name /\ (config[r].desc # None => state[r].desc = config[r].desc)
        BY <3>1 DEF Differs, Planned
      <3>4. /\ envs[i].desc # Blank => state[r].desc = envs[i].desc
            /\ ~Cleared /\ envs[i].desc = Blank => state[r].desc = Blank
        BY <2>2, <3>1, <3>2 DEF Local, DescIsKnown, NoChanges, Todo
      <3>5. QED
        BY <3>1, <3>2, <3>3, <3>4 DEF AsConfigured
    <2>3. QED
      BY <2>1, <2>2
  <1>4. Local(r)'
    BY <1>1, <1>2, <1>3 DEF Local, Done, AsConfigured, Cleared
  <1>5. ASSUME NEW s \in Resources \ {r} PROVE LeavesAlone(s)
    BY <1>1 DEF LeavesAlone, SameEnvs, NoChanges, End, IInv, TypeOK
  <1>6. QED
    BY <1>1, <1>4, <1>5, LocalStays

\* The refresh finds the description that Coolify has.
LEMMA ReadApplied ==
    ASSUME IInv, ~Astray, NEW r \in Resources, \A s \in Resources : Local(s), Read(r)
    PROVE  \A s \in Resources : Local(s)'
  <1>1. UNCHANGED <<config, view, outcome, envs, owner, lost>> /\ pc[r] = "read"
        /\ pc'[r] = "todo" /\ \A s \in Resources \ {r} : pc'[s] = pc[s] /\ state'[s] = state[s]
    BY DEF Read, server, IInv, TypeOK
  <1>2. DescIsKnown(r)'
    <2> SUFFICES ASSUME NEW i \in Ids, owner[i] = r, state'[r] # None
                 PROVE  /\ envs[i].desc # Blank => state'[r].desc = envs[i].desc
                        /\ ~Cleared /\ ~state'[r].tainted /\ envs[i].desc = Blank => state'[r].desc = Blank
      BY <1>1 DEF DescIsKnown, Cleared
    <2>1. state[r] # None /\ state[r] \in States /\ i \in Holder(state[r].name)
      BY OneOwn, AState DEF IInv
    <2>2. PICK j \in Holder(state[r].name) :
            state' = [state EXCEPT ![r].uuid = j, ![r].desc = Shown(envs[j].desc, @)]
      BY <2>1 DEF Read
    <2>3. j = i
      BY <2>1, <2>2, HolderIsOwn, OneOwn
    <2>4. state'[r] = [state[r] EXCEPT !.uuid = i, !.desc = Shown(envs[i].desc, @)]
      BY <2>2, <2>3 DEF IInv, TypeOK
    <2>5. state'[r].desc = Shown(envs[i].desc, state[r].desc) /\ state'[r].tainted = state[r].tainted
      BY <2>1, <2>4 DEF States
    <2>6. ~Cleared /\ ~state[r].tainted /\ envs[i].desc = Blank => state[r].desc = Blank
      BY <2>1 DEF Local, DescIsKnown
    <2>7. QED
      BY <2>5, <2>6 DEF Shown
  <1>3. Local(r)'
    BY <1>1, <1>2 DEF Local, CreateAsks, Done
  <1>4. ASSUME NEW s \in Resources \ {r} PROVE LeavesAlone(s)
    BY <1>1 DEF LeavesAlone, SameEnvs
  <1>5. QED
    BY <1>1, <1>3, <1>4, LocalStays

\* A new environment has no description, and its Create holds the one it
\* shall have.
LEMMA PostApplied ==
    ASSUME IInv, ~Astray, NEW r \in Resources, \A s \in Resources : Local(s), Post(r) \/ PostLost(r)
    PROVE  \A s \in Resources : Local(s)'
  <1>1. /\ UNCHANGED config /\ lost \subseteq lost' /\ state[r] = None /\ config[r] # None /\ pc[r] = "todo"
        /\ outcome[r] # "ok"
    BY DEF Post, PostLost, Creates, Todo, Fail, End, Local, Done
  <1>2. PICK i \in Ids : envs[i] = None /\ (NewEnvironment(i, r, r) \/ NewEnvironment(i, r, None))
    BY DEF Post, PostLost
  <1>3. owner[i] = None /\ \A j \in Ids : owner[j] # r
    BY <1>1, <1>2, OneOwn DEF IInv, OwnersLive
  <1>4. /\ \A j \in Ids \ {i} : owner'[j] = owner[j] /\ envs'[j] = envs[j]
        /\ owner'[i] \in {r, None} /\ envs'[i] = [name |-> config[r].name, desc |-> Blank]
    BY <1>2 DEF NewEnvironment, IInv, TypeOK
  <1>5. ASSUME NEW s \in Resources \ {r} PROVE LeavesAlone(s)
    <2>1. SameEnvs(s)
      BY <1>3, <1>4, AState DEF SameEnvs, IInv
    <2>2. state'[s] = state[s] /\ view'[s] = view[s] /\ pc'[s] \in {pc[s], "idle"} /\ outcome'[s] = outcome[s]
      BY DEF Post, PostLost, Fail, End, IInv, TypeOK
    <2>3. QED
      BY <1>1, <2>1, <2>2 DEF LeavesAlone
  <1>6. Local(r)'
    <2>1. CASE Post(r)
      <3> DEFINE model == [name |-> config[r].name, uuid |-> None, desc |-> Planned(r).desc, tainted |-> TRUE]
      <3>1. view'[r] = model /\ state'[r] = model /\ pc'[r] = "get" /\ outcome'[r] = outcome[r]
        BY <2>1 DEF Post, IInv, TypeOK
      <3>2. model.tainted /\ model.name = config[r].name
            /\ (config[r].desc # None => model.desc = config[r].desc)
        BY DEF Planned
      <3> HIDE DEF model
      <3>3. DescIsKnown(r)'
        BY <1>3, <1>4, <3>1, <3>2 DEF DescIsKnown
      <3>4. CreateAsks(r)'
        BY <1>1, <3>1, <3>2 DEF CreateAsks
      <3>5. QED
        BY <1>1, <3>1, <3>3, <3>4 DEF Local, Done
    <2>2. CASE PostLost(r)
      <3>1. UNCHANGED state /\ pc'[r] = "idle" /\ outcome'[r] = "error"
        BY <2>2 DEF PostLost, Fail, End, IInv, TypeOK
      <3>2. DescIsKnown(r)'
        BY <1>1, <3>1 DEF DescIsKnown
      <3>3. QED
        BY <3>1, <3>2 DEF Local, CreateAsks, Done
    <2>3. QED
      BY <2>1, <2>2
  <1>7. QED
    BY <1>1, <1>5, <1>6, LocalStays

-----------------------------------------------------------------------------
(***************************************************************************)
(* A Create goes on with its own environment.                              *)
(***************************************************************************)
LEMMA CreateOwns ==
    ASSUME IInv, ~Astray, NEW r \in Resources, pc[r] \in {"get", "describe"}
    PROVE  /\ view[r] \in States /\ state[r] \in States /\ view[r].name = state[r].name
           /\ \E i \in Ids : /\ Holder(view[r].name) = {i} /\ owner[i] = r /\ envs[i] # None
                             /\ \A j \in Ids : owner[j] = r => j = i
  <1>1. view[r] \in States /\ state[r] \in States /\ state[r] # None /\ view[r].name = state[r].name
    BY AState DEF IInv, CreateHolds
  <1>2. PICK i \in Ids : owner[i] = r /\ envs[i] # None /\ envs[i].name = state[r].name
    BY <1>1 DEF IInv, Keys, OwnIsThere
  <1>3. Holder(view[r].name) = {i}
    BY <1>1, <1>2 DEF Holder, IInv, UniqueNames
  <1>4. QED
    BY <1>1, <1>2, <1>3, OneOwn

LEMMA GetApplied ==
    ASSUME IInv, ~Astray, NEW r \in Resources, \A s \in Resources : Local(s), Get(r)
    PROVE  \A s \in Resources : Local(s)'
  <1>1. pc[r] = "get" /\ UNCHANGED <<config, envs, owner, lost>>
    BY DEF Get, Created, End, server
  <1>2. PICK i \in Ids : /\ Holder(view[r].name) = {i} /\ owner[i] = r /\ envs[i] # None
                         /\ \A j \in Ids : owner[j] = r => j = i
    BY <1>1, CreateOwns
  <1>3. view[r] \in States /\ state[r].tainted /\ config[r] # None /\ view[r].name = config[r].name
        /\ (config[r].desc # None => view[r].desc = config[r].desc) /\ view[r].name = state[r].name
    BY <1>1, CreateOwns DEF Local, CreateAsks
  <1>4. envs[i].desc = Blank /\ envs[i].name = config[r].name
    BY <1>1, <1>2, <1>3 DEF Local, DescIsKnown, Holder
  <1> DEFINE model == ReadBack(r, i)
  <1>5. model \in States /\ model.name = view[r].name /\ model.desc = view[r].desc
    <2>1. model.name = view[r].name /\ model.desc = Shown(envs[i].desc, view[r].desc)
      BY <1>3 DEF ReadBack, States
    <2>2. model \in States
      BY <1>3, <1>4 DEF ReadBack, States, Shown
    <2>3. QED
      BY <1>4, <2>1, <2>2 DEF Shown
  <1> HIDE DEF model
  <1>6. CASE model.desc = Blank
    <2>1. Created(r, model)
      BY <1>2, <1>6 DEF Get, model
    <2>2. state'[r] = [model EXCEPT !.tainted = FALSE] /\ pc'[r] = "idle"
          /\ \A s \in Resources \ {r} : /\ state'[s] = state[s] /\ view'[s] = view[s]
                                       /\ pc'[s] = pc[s] /\ outcome'[s] = outcome[s]
      BY <2>1 DEF Created, End, IInv, TypeOK
    <2>3. state'[r].desc = Blank
      BY <1>5, <1>6, <2>2 DEF States
    <2>4. DescIsKnown(r)'
      BY <1>1, <1>2, <1>4, <2>2, <2>3 DEF DescIsKnown
    <2>5. AsConfigured(r)'
      BY <1>1, <1>2, <1>3, <1>4, <1>5, <1>6 DEF AsConfigured
    <2>6. Local(r)'
      BY <2>2, <2>4, <2>5 DEF Local, CreateAsks, Done
    <2>7. ASSUME NEW s \in Resources \ {r} PROVE LeavesAlone(s)
      BY <1>1, <2>2 DEF LeavesAlone, SameEnvs
    <2>8. QED
      BY <1>1, <2>6, <2>7, LocalStays
  <1>7. CASE model.desc # Blank
    <2>1. view' = [view EXCEPT ![r] = model] /\ pc' = [pc EXCEPT ![r] = "describe"] /\ UNCHANGED <<state, outcome>>
      BY <1>2, <1>7 DEF Get, model
    <2>2. view'[r] = model /\ pc'[r] = "describe"
          /\ \A s \in Resources \ {r} : view'[s] = view[s] /\ pc'[s] = pc[s]
      BY <2>1 DEF IInv, TypeOK
    <2>3. DescIsKnown(r)' /\ CreateAsks(r)'
      BY <1>1, <1>3, <1>5, <2>1, <2>2 DEF DescIsKnown, CreateAsks
    <2>4. Local(r)'
      BY <1>1, <2>1, <2>3 DEF Local, Done
    <2>5. ASSUME NEW s \in Resources \ {r} PROVE LeavesAlone(s)
      BY <1>1, <2>1, <2>2 DEF LeavesAlone, SameEnvs
    <2>6. QED
      BY <1>1, <2>4, <2>5, LocalStays
  <1>8. QED
    BY <1>6, <1>7

LEMMA DescribeApplied ==
    ASSUME IInv, ~Astray, NEW r \in Resources, \A s \in Resources : Local(s), Describe(r) \/ DescribeLost(r)
    PROVE  \A s \in Resources : Local(s)'
  <1>1. pc[r] = "describe" /\ UNCHANGED <<config, owner>> /\ lost \subseteq lost'
    BY DEF Describe, DescribeLost, Created, Abandon, End
  <1>2. PICK i \in Ids : /\ Holder(view[r].name) = {i} /\ owner[i] = r /\ envs[i] # None
                         /\ \A j \in Ids : owner[j] = r => j = i
    BY <1>1, CreateOwns
  <1>3. view[r] \in States /\ state[r].tainted /\ config[r] # None /\ view[r].name = config[r].name
        /\ (config[r].desc # None => view[r].desc = config[r].desc) /\ view[r].name = state[r].name
    BY <1>1, CreateOwns DEF Local, CreateAsks
  <1>4. envs' = [envs EXCEPT ![i].desc = view[r].desc]
    BY <1>2 DEF Describe, DescribeLost
  <1>5. envs[i] \in Envs /\ envs[i].name = config[r].name
    BY <1>2, <1>3 DEF IInv, TypeOK, Holder
  <1>6. /\ envs'[i] \in Envs /\ envs'[i].desc = view[r].desc /\ envs'[i].name = config[r].name
        /\ \A j \in Ids \ {i} : envs'[j] = envs[j]
    <2>1. envs'[i] = [envs[i] EXCEPT !.desc = view[r].desc] /\ \A j \in Ids \ {i} : envs'[j] = envs[j]
      BY <1>4 DEF IInv, TypeOK
    <2>2. QED
      BY <1>3, <1>5, <2>1 DEF Envs, States
  <1>7. envs'[i] # None
    BY <1>6, NoneAssumption
  <1>8. ASSUME NEW s \in Resources \ {r} PROVE LeavesAlone(s)
    <2>1. state'[s] = state[s] /\ view'[s] = view[s] /\ pc'[s] = pc[s] /\ outcome'[s] = outcome[s]
      BY DEF Describe, DescribeLost, Created, Abandon, End, IInv, TypeOK
    <2>2. QED
      BY <1>1, <1>2, <1>6, <2>1 DEF LeavesAlone, SameEnvs
  <1>9. Local(r)'
    <2>1. CASE Describe(r)
      <3>1. state'[r] = [view[r] EXCEPT !.tainted = FALSE] /\ pc'[r] = "idle"
        BY <2>1 DEF Describe, Created, End, IInv, TypeOK
      <3>2. state'[r].desc = view[r].desc
        BY <1>3, <3>1 DEF States
      <3>3. DescIsKnown(r)'
        BY <1>1, <1>2, <1>6, <3>1, <3>2 DEF DescIsKnown
      <3>4. AsConfigured(r)'
        BY <1>1, <1>2, <1>3, <1>6, <1>7 DEF AsConfigured
      <3>5. QED
        BY <3>1, <3>3, <3>4 DEF Local, CreateAsks, Done
    <2>2. CASE DescribeLost(r)
      <3>1. UNCHANGED state /\ pc'[r] = "idle" /\ outcome'[r] = "error"
        BY <2>2 DEF DescribeLost, Abandon, End, IInv, TypeOK
      <3>2. DescIsKnown(r)'
        BY <1>3, <3>1 DEF DescIsKnown
      <3>3. QED
        BY <3>1, <3>2 DEF Local, CreateAsks, Done
    <2>3. QED
      BY <2>1, <2>2
  <1>10. QED
    BY <1>1, <1>8, <1>9, LocalStays

-----------------------------------------------------------------------------
(***************************************************************************)
(* Updates and deletions.                                                  *)
(***************************************************************************)
LEMMA UpdateApplied ==
    ASSUME IInv, ~Astray', lost \subseteq lost', NEW r \in Resources, \A s \in Resources : Local(s),
           Update(r) \/ UpdateLost(r)
    PROVE  \A s \in Resources : Local(s)'
  <1>1. state[r] # None /\ config[r] # None /\ ~Astray /\ UNCHANGED <<config, view, owner>>
    BY AstrayStays DEF Update, UpdateLost, Updates, Patched, Fail, End
  <1>2. PICK i \in Holder(state[r].name) :
            /\ envs' = [envs EXCEPT ![i] = Planned(r)]
            /\ Update(r) => state' = [state EXCEPT ![r] = [name |-> Planned(r).name, uuid |-> i,
                                                        desc |-> Planned(r).desc, tainted |-> FALSE]]
    <2>1. CASE Update(r)
      BY <2>1 DEF Update, Target, PathName, Patched
    <2>2. CASE ~Update(r)
      BY <2>2 DEF UpdateLost, Target, PathName, Patched
    <2>3. QED
      BY <2>1, <2>2
  <1>3. i \in Ids /\ envs[i] # None /\ owner[i] = r /\ \A j \in Ids : owner[j] = r => j = i
    BY <1>1, <1>2, HolderIsOwn, OneOwn
  <1>4. Planned(r) \in Envs /\ Planned(r) # None /\ Planned(r).name = config[r].name
        /\ (config[r].desc # None => Planned(r).desc = config[r].desc)
    BY <1>1, PlannedType, NoneAssumption DEF IInv, Planned
  <1>5. envs'[i] = Planned(r) /\ \A j \in Ids \ {i} : envs'[j] = envs[j]
    BY <1>2, <1>3 DEF IInv, TypeOK
  <1>6. ASSUME NEW s \in Resources \ {r} PROVE LeavesAlone(s)
    <2>1. state'[s] = state[s] /\ pc'[s] = pc[s] /\ outcome'[s] = outcome[s]
      BY DEF Update, UpdateLost, Fail, End, IInv, TypeOK
    <2>2. QED
      BY <1>1, <1>3, <1>5, <2>1 DEF LeavesAlone, SameEnvs
  <1>7. pc'[r] = "idle"
    BY DEF Update, UpdateLost, Fail, End, IInv, TypeOK
  <1>8. Local(r)'
    <2>1. CASE Update(r)
      <3>1. state'[r].desc = Planned(r).desc
        BY <1>2, <2>1 DEF IInv, TypeOK
      <3>2. DescIsKnown(r)' /\ CreateAsks(r)'
        BY <1>1, <1>3, <1>5, <1>7, <3>1 DEF DescIsKnown, CreateAsks
      <3>3. AsConfigured(r)'
        BY <1>1, <1>3, <1>4, <1>5 DEF AsConfigured
      <3>4. QED
        BY <1>7, <3>2, <3>3 DEF Local, Done
    <2>2. CASE UpdateLost(r)
      <3>1. outcome'[r] = "error" /\ (Planned(r).desc = Blank => Cleared')
        BY <2>2 DEF UpdateLost, Fail, End, Astray, Cleared, IInv, TypeOK
      <3>2. DescIsKnown(r)' /\ CreateAsks(r)' /\ Done(r)'
        BY <1>1, <1>3, <1>5, <1>7, <3>1 DEF DescIsKnown, CreateAsks, Done
      <3>3. QED
        BY <3>2 DEF Local
    <2>3. QED
      BY <2>1, <2>2
  <1>9. QED
    BY <1>6, <1>8, LocalStays

LEMMA DeleteApplied ==
    ASSUME IInv, ~Astray', lost \subseteq lost', NEW r \in Resources, \A s \in Resources : Local(s),
           Delete(r) \/ DeleteLost(r)
    PROVE  \A s \in Resources : Local(s)'
  <1>1. Delete(r)
    BY DEF DeleteLost, Astray
  <1>2. state[r] # None /\ pc[r] = "todo" /\ ~Astray /\ UNCHANGED <<config, view, lost>> /\ outcome[r] # "ok"
    BY <1>1, AstrayStays DEF Delete, Deletes, Todo, End, Local, Done
  <1>3. \A j \in Ids : IF j \in Holder(state[r].name)
                        THEN envs'[j] = None /\ owner'[j] = None
                        ELSE envs'[j] = envs[j] /\ owner'[j] = owner[j]
    BY <1>1 DEF Delete, Removed
  <1>4. \A j \in Ids : owner[j] = r <=> j \in Holder(state[r].name)
    BY <1>2, HolderIsOwn, OneOwn DEF Holder
  <1>5. ASSUME NEW s \in Resources \ {r} PROVE LeavesAlone(s)
    <2>1. state'[s] = state[s] /\ pc'[s] = pc[s] /\ outcome'[s] = outcome[s]
      BY <1>1 DEF Delete, End, IInv, TypeOK
    <2>2. SameEnvs(s)
      BY <1>3, <1>4, AState DEF SameEnvs, IInv
    <2>3. QED
      BY <1>2, <2>1, <2>2 DEF LeavesAlone
  <1>6. Local(r)'
    <2>1. \A j \in Ids : owner'[j] # r
      BY <1>3, <1>4, AState DEF IInv
    <2>2. state'[r] = None /\ pc'[r] \in {"todo", "idle"}
          /\ (outcome'[r] = "ok" => config[r] = None /\ pc'[r] = "idle")
      BY <1>1, <1>2 DEF Delete, End, IInv, TypeOK
    <2>3. DescIsKnown(r)' /\ CreateAsks(r)'
      BY <2>1, <2>2 DEF DescIsKnown, CreateAsks
    <2>4. Done(r)'
      BY <1>2, <2>2 DEF Done, AsConfigured
    <2>5. QED
      BY <2>3, <2>4 DEF Local
  <1>7. QED
    BY <1>2, <1>5, <1>6, LocalStays

-----------------------------------------------------------------------------
(***************************************************************************)
(* The invariant and what follows from it.                                 *)
(***************************************************************************)
LEMMA InitApplied == Init => AInv
  BY DEF Init, AInv, Local, DescIsKnown, CreateAsks, Done

LEMMA LostGrows ==
    ASSUME [Next]_vars
    PROVE  lost \subseteq lost'
  <1>1. CASE Begin \/ UNCHANGED vars
    BY <1>1 DEF Begin, vars
  <1>2. ASSUME NEW r \in Resources, Edit(r) \/ Handle(r) PROVE lost \subseteq lost'
    <2>1. CASE \/ Edit(r) \/ Read(r) \/ ReadFails(r) \/ NoChanges(r) \/ Post(r) \/ PostConflict(r)
               \/ PostRefused(r) \/ Get(r) \/ GetFails(r) \/ Describe(r) \/ DescribeFails(r)
               \/ Update(r) \/ UpdateFails(r) \/ Delete(r) \/ DeleteRefused(r)
      BY <2>1 DEF Edit, Read, ReadFails, NoChanges, Post, PostConflict, PostRefused, Get, GetFails,
                  Describe, DescribeFails, Update, UpdateFails, Delete, DeleteRefused
    <2>2. CASE PostLost(r) \/ DescribeLost(r) \/ UpdateLost(r) \/ DeleteLost(r)
      BY <2>2 DEF PostLost, DescribeLost, UpdateLost, DeleteLost
    <2>3. QED
      BY <1>2, <2>1, <2>2 DEF Handle
  <1>3. QED
    BY <1>1, <1>2 DEF Next

LEMMA NextApplied == IInv /\ AInv /\ [Next]_vars => AInv'
  <1> SUFFICES ASSUME IInv, AInv, [Next]_vars, ~Astray' PROVE \A s \in Resources : Local(s)'
    BY DEF AInv
  <1>1. lost \subseteq lost' /\ ~Astray /\ \A s \in Resources : Local(s)
    BY LostGrows, AstrayStays DEF AInv
  <1>2. CASE Begin \/ \E r \in Resources : Edit(r)
    BY <1>1, <1>2, BeginApplied
  <1>3. CASE UNCHANGED vars
    BY <1>1, <1>3 DEF vars, terraform, server, Local, DescIsKnown, CreateAsks, Done, AsConfigured, Cleared
  <1>4. ASSUME NEW r \in Resources, Handle(r) PROVE \A s \in Resources : Local(s)'
    <2>1. CASE \/ PostConflict(r) \/ PostRefused(r) \/ UpdateFails(r) \/ DeleteRefused(r)
               \/ GetFails(r) \/ DescribeFails(r) \/ ReadFails(r)
      BY <1>1, <2>1, FailsApplied
    <2>2. CASE NoChanges(r)
      BY <1>1, <2>2, NoChangesApplied
    <2>3. CASE Read(r)
      BY <1>1, <2>3, ReadApplied
    <2>4. CASE Post(r) \/ PostLost(r)
      BY <1>1, <2>4, PostApplied
    <2>5. CASE Get(r)
      BY <1>1, <2>5, GetApplied
    <2>6. CASE Describe(r) \/ DescribeLost(r)
      BY <1>1, <2>6, DescribeApplied
    <2>7. CASE Update(r) \/ UpdateLost(r)
      BY <1>1, <2>7, UpdateApplied
    <2>8. CASE Delete(r) \/ DeleteLost(r)
      BY <1>1, <2>8, DeleteApplied
    <2>9. QED
      BY <1>4, <2>1, <2>2, <2>3, <2>4, <2>5, <2>6, <2>7, <2>8 DEF Handle
  <1>5. QED
    BY <1>2, <1>3, <1>4 DEF Next

LEMMA AppliedInductive == Spec => [](IInv /\ AInv)
  <1>1. Init => IInv /\ AInv
    BY InitEstablishes, InitApplied
  <1>2. IInv /\ AInv /\ [Next]_vars => (IInv /\ AInv)'
    BY NextPreserves, NextApplied
  <1>3. QED
    BY <1>1, <1>2, PTL DEF Spec

\* An apply that ended without an error left every environment as it is
\* configured, whatever the handlers of the others did beside it.
THEOREM SuccessIsApplied == Spec => []SuccessMeansApplied
  <1>1. IInv /\ AInv => SuccessMeansApplied
    <2> SUFFICES ASSUME AInv, NEW r \in Resources, outcome[r] = "ok", ~Astray
                 PROVE  IF config[r] = None
                        THEN state[r] = None
                        ELSE \E i \in Holder(config[r].name) :
                                /\ owner[i] = r
                                /\ config[r].desc # None /\ (config[r].desc = Blank \/ ~Cleared)
                                        => envs[i].desc = config[r].desc
      BY DEF SuccessMeansApplied
    <2>1. AsConfigured(r)
      BY DEF AInv, Local, Done
    <2>2. QED
      BY <2>1 DEF AsConfigured, Holder
  <1>2. QED
    BY <1>1, AppliedInductive, PTL
=============================================================================
