-------------------------- MODULE EnvironmentsProofs --------------------------
(***************************************************************************)
(* Proofs about Environments, for any number of resources, names,          *)
(* environments and lost answers.                                          *)
(*                                                                         *)
(* NameLeadsToOwn is not inductive by itself: that a free name stays free  *)
(* for the one who takes it needs that names are unique on the server and  *)
(* that a name in a state is held by an environment of that resource; and  *)
(* the UUID a running Create is about to save must be that of its own.     *)
(***************************************************************************)
EXTENDS Environments, TLAPS

UniqueNames ==
    \A i, j \in Ids : envs[i] # None /\ envs[j] # None /\ envs[i].name = envs[j].name => i = j

OwnersLive == \A i \in Ids : owner[i] # None => envs[i] # None

\* A Create past its POST works on what it has saved.
CreateHolds ==
    \A r \in Resources : pc[r] \in {"get", "describe"} =>
        /\ view[r] # None /\ state[r] # None
        /\ view[r].name = state[r].name
        /\ state[r].uuid = None

\* The environment a state speaks of is there, and is its resource's own.
OwnIsThere ==
    \A r \in Resources : state[r] # None =>
        \E i \in Ids : owner[i] = r /\ envs[i] # None /\ envs[i].name = state[r].name

NameIsOwn ==
    \A i \in Ids : Owned(i) =>
        /\ state[owner[i]] # None
        /\ state[owner[i]].name = envs[i].name
        /\ state[owner[i]].uuid \in {None, i}

ViewIsOwn ==
    \A i \in Ids : Owned(i) /\ pc[owner[i]] \in {"get", "describe"} => view[owner[i]].uuid \in {None, i}

Keys == OwnIsThere /\ NameIsOwn /\ ViewIsOwn

IInv ==
    /\ TypeOK /\ UniqueNames /\ OwnersLive /\ CreateHolds
    /\ ~Astray => Keys

-----------------------------------------------------------------------------
(***************************************************************************)
(* Type correctness.                                                       *)
(***************************************************************************)

\* The plan of a configured resource has the attributes of an environment.
LEMMA PlannedType ==
    ASSUME TypeOK, NEW r \in Resources, config[r] # None
    PROVE  Planned(r) \in Envs /\ Planned(r).name = config[r].name
  <1>1. config[r] \in Configs /\ (state[r] # None => state[r] \in States)
    BY DEF TypeOK
  <1>2. QED
    BY <1>1, NamesAssumption DEF Planned, Configs, States, Envs

\* What the read-back makes of a Create's model is a model.
LEMMA ReadBackType ==
    ASSUME TypeOK, NEW r \in Resources, view[r] # None, NEW i \in Ids, envs[i] # None
    PROVE  ReadBack(r, i) \in States /\ ReadBack(r, i).name = view[r].name /\ ReadBack(r, i).uuid = i
  <1>1. view[r] \in States /\ envs[i] \in Envs
    BY DEF TypeOK
  <1>2. QED
    BY <1>1 DEF ReadBack, Shown, States, Envs

\* A bounded counter of faults stays within its bound.
LEMMA FaultCounts ==
    ASSUME TypeOK, Fault
    PROVE  faults' \in 0..MaxFaults
  BY BoundsAssumption DEF TypeOK, Fault

\* Terraform's own steps, and the handlers that return without a success.
LEMMA TypeOfQuiet ==
    ASSUME TypeOK, NEW r \in Resources,
           \/ Begin \/ Edit(r) \/ NoChanges(r) \/ ReadFails(r) \/ PostConflict(r) \/ PostRefused(r)
           \/ GetFails(r) \/ DescribeFails(r) \/ UpdateFails(r) \/ DeleteRefused(r)
    PROVE  TypeOK'
  <1>1. CASE Begin
    BY <1>1 DEF Begin, TypeOK, server, bounds
  <1>2. CASE Edit(r)
    BY <1>2, BoundsAssumption DEF Edit, TypeOK, server
  <1>3. CASE NoChanges(r)
    BY <1>3 DEF NoChanges, End, TypeOK, server, bounds
  <1>4. CASE ReadFails(r)
    BY <1>4, FaultCounts DEF ReadFails, TypeOK, server
  <1>5. CASE PostConflict(r)
    BY <1>5 DEF PostConflict, Fail, End, TypeOK, server, bounds
  <1>6. CASE PostRefused(r)
    BY <1>6, FaultCounts DEF PostRefused, Fail, End, TypeOK, server
  <1>7. CASE GetFails(r)
    BY <1>7, FaultCounts DEF GetFails, Abandon, End, TypeOK, server
  <1>8. CASE DescribeFails(r)
    BY <1>8, FaultCounts DEF DescribeFails, Abandon, End, TypeOK, server
  <1>9. CASE UpdateFails(r)
    BY <1>9, FaultCounts DEF UpdateFails, Fail, End, TypeOK, server
  <1>10. CASE DeleteRefused(r)
    BY <1>10, FaultCounts DEF DeleteRefused, Fail, End, TypeOK, server
  <1>11. QED
    BY <1>1, <1>2, <1>3, <1>4, <1>5, <1>6, <1>7, <1>8, <1>9, <1>10

\* Read keeps what a state consists of.
LEMMA TypeOfRead ==
    ASSUME TypeOK, NEW r \in Resources, Read(r)
    PROVE  TypeOK'
  <1>1. state' \in [Resources -> States \cup {None}]
    <2>1. CASE state[r] = None \/ Holder(state[r].name) = {}
      BY <2>1 DEF Read, TypeOK
    <2>2. CASE state[r] # None /\ Holder(state[r].name) # {}
      <3> DEFINE i == CHOOSE i \in Holder(state[r].name) : TRUE
      <3>1. i \in Ids /\ envs[i] \in Envs
        BY <2>2 DEF Holder, TypeOK
      <3>2. state[r] \in States
        BY <2>2 DEF TypeOK
      <3>3. Shown(envs[i].desc, state[r].desc) \in Descs
        BY <3>1, <3>2 DEF Shown, Envs, States
      <3>4. state' = [state EXCEPT ![r] = [state[r] EXCEPT !.uuid = i, !.desc = Shown(envs[i].desc, state[r].desc)]]
        BY <2>2, <3>2 DEF Read, TypeOK, States
      <3>5. [state[r] EXCEPT !.uuid = i, !.desc = Shown(envs[i].desc, state[r].desc)] \in States
        <4> HIDE DEF i
        <4> QED BY <3>1, <3>2, <3>3 DEF States
      <3> HIDE DEF i
      <3>6. QED
        BY <3>4, <3>5 DEF TypeOK
    <2>3. QED
      BY <2>1, <2>2
  <1>2. QED
    BY <1>1 DEF Read, TypeOK, server, bounds

\* The environment a POST makes, and the model its Create goes on with.
LEMMA TypeOfPost ==
    ASSUME TypeOK, NEW r \in Resources, Post(r) \/ PostLost(r)
    PROVE  TypeOK'
  <1>1. config[r] # None /\ config[r] \in Configs
    BY DEF Post, PostLost, Creates, TypeOK
  <1>2. [name |-> config[r].name, desc |-> Blank] \in Envs
    BY <1>1, NamesAssumption DEF Configs, Envs
  <1>3. envs' \in [Ids -> Envs \cup {None}] /\ owner' \in [Ids -> Resources \cup {None}]
    BY <1>2 DEF Post, PostLost, NewEnvironment, TypeOK
  <1>4. CASE Post(r)
    <2> DEFINE model == [name |-> config[r].name, uuid |-> None, desc |-> Planned(r).desc, tainted |-> TRUE]
    <2>1. model \in States
      BY <1>1, PlannedType DEF Configs, Envs, States
    <2>2. view' = [view EXCEPT ![r] = model]
      BY <1>4 DEF Post
    <2>3. state' = [state EXCEPT ![r] = model]
      BY <1>4, <2>2 DEF Post, TypeOK
    <2> HIDE DEF model
    <2>4. state' \in [Resources -> States \cup {None}] /\ view' \in [Resources -> States \cup {None}]
      BY <2>1, <2>2, <2>3 DEF TypeOK
    <2>5. UNCHANGED <<config, outcome, lost, faults, edits>> /\ pc' = [pc EXCEPT ![r] = "get"]
      BY <1>4 DEF Post, bounds
    <2>6. QED
      BY <1>3, <2>4, <2>5 DEF TypeOK
  <1>5. CASE PostLost(r)
    BY <1>3, <1>5, FaultCounts DEF PostLost, Fail, End, TypeOK
  <1>6. QED
    BY <1>4, <1>5

\* What a Create saves at its end is the model it read back.
LEMMA TypeOfReadBack ==
    ASSUME TypeOK, CreateHolds, NEW r \in Resources, Get(r)
    PROVE  TypeOK'
  <1>1. PICK i \in Holder(view[r].name) :
            IF ReadBack(r, i).desc = Blank
            THEN Created(r, ReadBack(r, i))
            ELSE /\ view' = [view EXCEPT ![r] = ReadBack(r, i)]
                 /\ pc' = [pc EXCEPT ![r] = "describe"]
                 /\ UNCHANGED <<config, state, outcome>>
    BY DEF Get
  <1>2. ReadBack(r, i) \in States
    BY ReadBackType DEF Get, CreateHolds, Holder
  <1>3. [ReadBack(r, i) EXCEPT !.tainted = FALSE] \in States
    BY <1>2 DEF States
  <1>4. CASE ReadBack(r, i).desc = Blank
    <2> DEFINE model == [ReadBack(r, i) EXCEPT !.tainted = FALSE]
    <2>1. /\ state' = [state EXCEPT ![r] = model]
          /\ view' = [view EXCEPT ![r] = None]
          /\ pc' = [pc EXCEPT ![r] = "idle"]
          /\ outcome' = [outcome EXCEPT ![r] = "ok"]
          /\ UNCHANGED config
      BY <1>1, <1>4 DEF Created, End
    <2>2. UNCHANGED <<envs, owner, lost, faults, edits>>
      BY DEF Get, server, bounds
    <2>3. model \in States
      BY <1>3
    <2> HIDE DEF model
    <2>4. QED
      BY <2>1, <2>2, <2>3 DEF TypeOK
  <1>5. CASE ReadBack(r, i).desc # Blank
    BY <1>1, <1>2, <1>5 DEF Get, TypeOK, server, bounds
  <1>6. QED
    BY <1>4, <1>5

\* The PATCH of a description, answered or not.
LEMMA TypeOfDescribe ==
    ASSUME TypeOK, CreateHolds, NEW r \in Resources, Describe(r) \/ DescribeLost(r)
    PROVE  TypeOK'
  <1>1. view[r] \in States
    BY DEF Describe, DescribeLost, CreateHolds, TypeOK
  <1>2. PICK i \in Holder(view[r].name) : envs' = [envs EXCEPT ![i].desc = view[r].desc]
    BY DEF Describe, DescribeLost
  <1>3. [envs[i] EXCEPT !.desc = view[r].desc] \in Envs
    BY <1>1, <1>2 DEF Holder, TypeOK, Envs, States
  <1>4. envs' \in [Ids -> Envs \cup {None}]
    BY <1>2, <1>3 DEF TypeOK
  <1>5. [view[r] EXCEPT !.tainted = FALSE] \in States
    BY <1>1 DEF States
  <1>6. CASE Describe(r)
    BY <1>4, <1>5, <1>6 DEF Describe, Created, End, TypeOK, bounds
  <1>7. CASE DescribeLost(r)
    BY <1>4, <1>7, FaultCounts DEF DescribeLost, Abandon, End, TypeOK
  <1>8. QED
    BY <1>6, <1>7

\* The PATCH of an update, answered or not.
LEMMA TypeOfUpdate ==
    ASSUME TypeOK, NEW r \in Resources, Update(r) \/ UpdateLost(r)
    PROVE  TypeOK'
  <1>1. Planned(r) \in Envs
    BY PlannedType DEF Update, UpdateLost, Updates
  <1>2. envs' \in [Ids -> Envs \cup {None}]
    BY <1>1 DEF Update, UpdateLost, Patched, Target, Holder, TypeOK
  <1>3. CASE Update(r)
    <2>1. PICK i \in Ids : state' = [state EXCEPT ![r] = [name |-> Planned(r).name, uuid |-> i,
                                                        desc |-> Planned(r).desc, tainted |-> FALSE]]
      BY <1>3 DEF Update, Target, Holder
    <2>2. [name |-> Planned(r).name, uuid |-> i, desc |-> Planned(r).desc, tainted |-> FALSE] \in States
      BY <1>1, <2>1 DEF Envs, States
    <2>3. QED
      BY <1>2, <1>3, <2>1, <2>2 DEF Update, Patched, End, TypeOK, bounds
  <1>4. CASE UpdateLost(r)
    BY <1>2, <1>4, FaultCounts DEF UpdateLost, Patched, Fail, End, TypeOK
  <1>5. QED
    BY <1>3, <1>4

\* A deletion, answered or not.
LEMMA TypeOfDelete ==
    ASSUME TypeOK, NEW r \in Resources, Delete(r) \/ DeleteLost(r)
    PROVE  TypeOK'
  <1>1. envs' \in [Ids -> Envs \cup {None}] /\ owner' \in [Ids -> Resources \cup {None}]
    BY DEF Delete, DeleteLost, Removed, TypeOK
  <1>2. CASE Delete(r)
    BY <1>1, <1>2 DEF Delete, End, TypeOK, bounds
  <1>3. CASE DeleteLost(r)
    BY <1>1, <1>3, FaultCounts DEF DeleteLost, Fail, End, TypeOK
  <1>4. QED
    BY <1>2, <1>3

-----------------------------------------------------------------------------
(***************************************************************************)
(* The keys.                                                               *)
(***************************************************************************)

\* A lost answer is never forgotten.
LEMMA AstrayStays ==
    ASSUME lost \subseteq lost', ~Astray'
    PROVE  ~Astray
  BY DEF Astray

\* A name has at most one environment, which is the one its owner knows.
LEMMA HolderIsOwn ==
    ASSUME IInv, ~Astray, NEW r \in Resources, state[r] # None, NEW i \in Holder(state[r].name)
    PROVE  i \in Ids /\ envs[i] # None /\ owner[i] = r
  <1>1. PICK j \in Ids : owner[j] = r /\ envs[j] # None /\ envs[j].name = state[r].name
    BY DEF IInv, Keys, OwnIsThere
  <1>2. i = j
    BY <1>1 DEF IInv, UniqueNames, Holder
  <1>3. QED
    BY <1>1, <1>2

\* A name nobody holds is in no state.
LEMMA FreeNameIsUnknown ==
    ASSUME IInv, ~Astray, NEW n, Holder(n) = {}, NEW s \in Resources, state[s] # None
    PROVE  state[s].name # n
  BY DEF IInv, Keys, OwnIsThere, Holder

\* Steps that change neither a state nor an environment, and start no Create.
LEMMA QuietShape ==
    ASSUME TypeOK, NEW r \in Resources,
           \/ Begin \/ Edit(r) \/ NoChanges(r) \/ ReadFails(r) \/ PostConflict(r) \/ PostRefused(r)
           \/ GetFails(r) \/ DescribeFails(r) \/ UpdateFails(r) \/ DeleteRefused(r)
    PROVE  /\ UNCHANGED <<state, envs, owner, lost>>
           /\ \A s \in Resources : pc'[s] \in {"get", "describe"} => pc'[s] = pc[s] /\ view'[s] = view[s]
  <1>1. CASE Begin \/ Edit(r) \/ NoChanges(r) \/ ReadFails(r)
    BY <1>1 DEF Begin, Edit, NoChanges, ReadFails, End, TypeOK, server
  <1>2. CASE PostConflict(r) \/ PostRefused(r) \/ UpdateFails(r) \/ DeleteRefused(r)
    BY <1>2 DEF PostConflict, PostRefused, UpdateFails, DeleteRefused, Fail, End, TypeOK, server
  <1>3. CASE GetFails(r) \/ DescribeFails(r)
    BY <1>3 DEF GetFails, DescribeFails, Abandon, End, TypeOK, server
  <1>4. QED
    BY <1>1, <1>2, <1>3

LEMMA QuietKeeps ==
    ASSUME IInv, UNCHANGED <<state, envs, owner, lost>>,
           \A s \in Resources : pc'[s] \in {"get", "describe"} => pc'[s] = pc[s] /\ view'[s] = view[s]
    PROVE  UniqueNames' /\ OwnersLive' /\ CreateHolds' /\ (~Astray' => Keys')
  <1>1. UniqueNames' /\ OwnersLive'
    BY DEF IInv, UniqueNames, OwnersLive
  <1>2. CreateHolds'
    BY DEF IInv, CreateHolds
  <1>3. ASSUME ~Astray' PROVE Keys'
    <2>1. Keys
      BY <1>3, AstrayStays DEF IInv
    <2>2. OwnIsThere' /\ NameIsOwn'
      BY <2>1 DEF Keys, OwnIsThere, NameIsOwn, Owned
    <2>3. ViewIsOwn'
      <3> SUFFICES ASSUME NEW i \in Ids, Owned(i)', (pc[owner[i]] \in {"get", "describe"})'
                   PROVE  (view[owner[i]].uuid \in {None, i})'
        BY DEF ViewIsOwn
      <3>1. Owned(i) /\ owner'[i] = owner[i] /\ owner[i] \in Resources
        BY DEF Owned, IInv, TypeOK
      <3>2. pc[owner[i]] \in {"get", "describe"} /\ view'[owner[i]] = view[owner[i]]
        BY <3>1
      <3>3. QED
        BY <2>1, <3>1, <3>2 DEF Keys, ViewIsOwn
    <2>4. QED
      BY <2>2, <2>3 DEF Keys
  <1>4. QED
    BY <1>1, <1>2, <1>3

\* Read keeps the name, and takes the UUID of what it finds under it.
LEMMA ReadKeeps ==
    ASSUME IInv, NEW r \in Resources, Read(r)
    PROVE  UniqueNames' /\ OwnersLive' /\ CreateHolds' /\ (~Astray' => Keys')
  <1>1. UNCHANGED <<envs, owner, lost, view>> /\ pc' = [pc EXCEPT ![r] = "todo"]
    BY DEF Read, server
  <1>2. \A s \in Resources \ {r} : state'[s] = state[s] /\ pc'[s] = pc[s]
    BY DEF Read, IInv, TypeOK
  <1>3. UniqueNames' /\ OwnersLive'
    BY <1>1 DEF IInv, UniqueNames, OwnersLive
  <1>4. CreateHolds'
    <2>1. pc'[r] = "todo"
      BY <1>1 DEF IInv, TypeOK
    <2>2. QED
      BY <1>1, <1>2, <2>1 DEF IInv, CreateHolds
  <1>5. ASSUME ~Astray' PROVE Keys'
    <2>1. ~Astray /\ Keys
      BY <1>1, <1>5, AstrayStays DEF IInv
    <2>2. CASE state[r] = None
      BY <1>1, <2>1, <2>2 DEF Read, IInv, TypeOK, Keys, OwnIsThere, NameIsOwn, ViewIsOwn, Owned
    <2>3. CASE state[r] # None
      <3> DEFINE i == CHOOSE i \in Holder(state[r].name) : TRUE
      <3>1. Holder(state[r].name) # {}
        BY <2>1, <2>3 DEF Keys, OwnIsThere, Holder
      <3>2. i \in Holder(state[r].name)
        BY <3>1
      <3>3. i \in Ids /\ envs[i] # None /\ owner[i] = r
        BY <2>1, <2>3, <3>2, HolderIsOwn
      <3>4. state[r] \in States
        BY <2>3 DEF IInv, TypeOK
      <3>5. state' = [state EXCEPT ![r] = [state[r] EXCEPT !.uuid = i, !.desc = Shown(envs[i].desc, state[r].desc)]]
        BY <2>3, <3>1, <3>4 DEF Read, IInv, TypeOK, States
      <3>6. [state[r] EXCEPT !.uuid = i, !.desc = Shown(envs[i].desc, state[r].desc)].name = state[r].name
            /\ [state[r] EXCEPT !.uuid = i, !.desc = Shown(envs[i].desc, state[r].desc)].uuid = i
            /\ [state[r] EXCEPT !.uuid = i, !.desc = Shown(envs[i].desc, state[r].desc)] # None
        <4> HIDE DEF i
        <4> [state[r] EXCEPT !.uuid = i, !.desc = Shown(envs[i].desc, state[r].desc)] \in States
          BY <3>3, <3>4 DEF States, Shown, Envs, IInv, TypeOK
        <4> QED
          BY <3>4, NoneAssumption DEF States
      <3> HIDE DEF i
      <3>7. state'[r] # None /\ state'[r].name = state[r].name /\ state'[r].uuid = i
        BY <3>5, <3>6 DEF IInv, TypeOK
      <3>8. OwnIsThere'
        <4> SUFFICES ASSUME NEW s \in Resources, state'[s] # None
                     PROVE  \E j \in Ids : owner[j] = s /\ envs[j] # None /\ envs[j].name = state'[s].name
          BY <1>1 DEF OwnIsThere
        <4>1. state[s] # None /\ state'[s].name = state[s].name
          BY <1>2, <2>3, <3>7
        <4>2. QED
          BY <2>1, <4>1 DEF Keys, OwnIsThere
      <3>9. \A j \in Ids : Owned(j) /\ owner[j] = r => j = i
        BY <2>1, <3>2, <3>3 DEF Keys, NameIsOwn, Holder, Owned, IInv, UniqueNames
      <3>10. NameIsOwn'
        <4> SUFFICES ASSUME NEW j \in Ids, Owned(j)'
                     PROVE  /\ state'[owner[j]] # None
                            /\ state'[owner[j]].name = envs[j].name
                            /\ state'[owner[j]].uuid \in {None, j}
          BY <1>1 DEF NameIsOwn
        <4>1. Owned(j) /\ owner[j] \in Resources
          BY <1>1 DEF Owned, IInv, TypeOK
        <4>2. CASE owner[j] = r
          BY <2>1, <3>7, <3>9, <4>1, <4>2 DEF Keys, NameIsOwn
        <4>3. CASE owner[j] # r
          BY <1>2, <2>1, <4>1, <4>3 DEF Keys, NameIsOwn
        <4>4. QED
          BY <4>2, <4>3
      <3>11. ViewIsOwn'
        <4> SUFFICES ASSUME NEW j \in Ids, Owned(j)', (pc[owner[j]] \in {"get", "describe"})'
                     PROVE  (view[owner[j]].uuid \in {None, j})'
          BY DEF ViewIsOwn
        <4>1. Owned(j) /\ owner'[j] = owner[j] /\ owner[j] \in Resources
          BY <1>1 DEF Owned, IInv, TypeOK
        <4>2. owner[j] # r
          BY <1>1, <4>1 DEF IInv, TypeOK
        <4>3. QED
          BY <1>1, <1>2, <2>1, <4>1, <4>2 DEF Keys, ViewIsOwn
      <3>12. QED
        BY <3>8, <3>10, <3>11 DEF Keys
    <2>4. QED
      BY <2>2, <2>3
  <1>6. QED
    BY <1>3, <1>4, <1>5

\* A POST takes a name that is free, and the answered one is its resource's.
LEMMA PostKeeps ==
    ASSUME IInv, NEW r \in Resources, Post(r) \/ PostLost(r)
    PROVE  UniqueNames' /\ OwnersLive' /\ CreateHolds' /\ (~Astray' => Keys')
  <1> DEFINE n == config[r].name
  <1>1. state[r] = None /\ config[r] # None /\ Holder(n) = {} /\ pc[r] = "todo"
    BY DEF Post, PostLost, Creates, Todo
  <1>2. PICK i \in Ids, q \in {r, None} : envs[i] = None /\ NewEnvironment(i, r, q) /\ (Post(r) => q = r) /\ (PostLost(r) => q = None)
    <2>1. CASE Post(r) /\ ~PostLost(r)
      BY <2>1 DEF Post
    <2>2. CASE PostLost(r)
      <3>1. ~Post(r)
        BY <2>2, <1>1 DEF Post, PostLost, Fail, End, IInv, TypeOK
      <3>2. QED
        BY <2>2, <3>1 DEF PostLost
    <2>3. QED
      BY <2>1, <2>2
  <1>3. /\ envs'[i] # None /\ envs'[i].name = n
        /\ owner'[i] = q
        /\ \A j \in Ids \ {i} : envs'[j] = envs[j] /\ owner'[j] = owner[j]
    <2>1. [name |-> n, desc |-> Blank] \in Envs
      BY <1>1, NamesAssumption DEF IInv, TypeOK, Configs, Envs
    <2>2. QED
      BY <1>2, <2>1, NoneAssumption DEF NewEnvironment, IInv, TypeOK
  <1>4. UniqueNames'
    <2> SUFFICES ASSUME NEW j \in Ids, NEW k \in Ids, envs'[j] # None, envs'[k] # None, envs'[j].name = envs'[k].name
                 PROVE  j = k
      BY DEF UniqueNames
    <2>1. \A l \in Ids : envs[l] # None => envs[l].name # n
      BY <1>1 DEF Holder
    <2>2. QED
      BY <1>3, <2>1 DEF IInv, UniqueNames
  <1>5. OwnersLive'
    BY <1>3 DEF IInv, OwnersLive
  <1>6. owner[i] = None
    BY <1>2 DEF IInv, OwnersLive
  <1>7. CASE PostLost(r)
    <2>1. q = None /\ UNCHANGED <<state, view>> /\ pc' = [pc EXCEPT ![r] = "idle"] /\ lost \subseteq lost'
      BY <1>2, <1>7 DEF PostLost, Fail, End
    <2>2. CreateHolds'
      BY <2>1 DEF IInv, CreateHolds, TypeOK
    <2>3. ASSUME ~Astray' PROVE Keys'
      <3>1. ~Astray /\ Keys
        BY <2>1, <2>3, AstrayStays DEF IInv
      <3>2. OwnIsThere'
        BY <1>3, <1>6, <2>1, <3>1, NoneAssumption DEF Keys, OwnIsThere
      <3>3. \A j \in Ids : Owned(j)' => j # i /\ Owned(j) /\ owner'[j] = owner[j] /\ envs'[j] = envs[j]
        BY <1>3, <2>1 DEF Owned
      <3>4. NameIsOwn'
        BY <2>1, <3>1, <3>3 DEF Keys, NameIsOwn
      <3>5. ViewIsOwn'
        BY <2>1, <3>1, <3>3 DEF Keys, ViewIsOwn, Owned, IInv, TypeOK
      <3>6. QED
        BY <3>2, <3>4, <3>5 DEF Keys
    <2>4. QED
      BY <1>4, <1>5, <2>2, <2>3
  <1>8. CASE Post(r)
    <2> DEFINE model == [name |-> n, uuid |-> None, desc |-> Planned(r).desc, tainted |-> TRUE]
    <2>1. view' = [view EXCEPT ![r] = model]
      BY <1>8 DEF Post
    <2>2. state' = [state EXCEPT ![r] = model] /\ pc' = [pc EXCEPT ![r] = "get"] /\ UNCHANGED lost
      BY <1>8, <2>1 DEF Post, IInv, TypeOK
    <2>3. model # None /\ model.name = n /\ model.uuid = None
      <3>1. model \in States
        BY <1>1, PlannedType DEF IInv, TypeOK, Configs, Envs, States
      <3>2. QED
        BY <3>1, NoneAssumption
    <2> HIDE DEF model, n
    <2>4. /\ state'[r] # None /\ state'[r].name = n /\ state'[r].uuid = None
          /\ view'[r] # None /\ view'[r].name = n /\ view'[r].uuid = None
          /\ \A s \in Resources \ {r} : state'[s] = state[s] /\ view'[s] = view[s] /\ pc'[s] = pc[s]
      BY <2>1, <2>2, <2>3 DEF IInv, TypeOK
    <2>5. CreateHolds'
      BY <2>4 DEF IInv, CreateHolds
    <2>6. ASSUME ~Astray' PROVE Keys'
      <3>1. ~Astray /\ Keys
        BY <2>2, <2>6, AstrayStays DEF IInv
      <3>2. owner'[i] = r
        BY <1>2, <1>3, <1>8
      <3>3. OwnIsThere'
        <4> SUFFICES ASSUME NEW s \in Resources, state'[s] # None
                     PROVE  \E j \in Ids : owner'[j] = s /\ envs'[j] # None /\ envs'[j].name = state'[s].name
          BY DEF OwnIsThere
        <4>1. CASE s = r
          BY <1>3, <2>4, <3>2, <4>1
        <4>2. CASE s # r
          BY <1>2, <1>3, <2>4, <3>1, <4>2 DEF Keys, OwnIsThere
        <4>3. QED
          BY <4>1, <4>2
      <3>4. \A j \in Ids \ {i} : Owned(j)' => Owned(j) /\ owner'[j] = owner[j] /\ envs'[j] = envs[j] /\ owner[j] \in Resources \ {r}
        BY <1>1, <1>3, <3>1 DEF Owned, Keys, NameIsOwn, IInv, TypeOK
      <3>5. NameIsOwn'
        BY <1>3, <2>4, <3>1, <3>2, <3>4 DEF Keys, NameIsOwn
      <3>6. ViewIsOwn'
        BY <1>3, <2>4, <3>1, <3>2, <3>4 DEF Keys, ViewIsOwn
      <3>7. QED
        BY <3>3, <3>5, <3>6 DEF Keys
    <2>7. QED
      BY <1>4, <1>5, <2>5, <2>6
  <1>9. QED
    BY <1>7, <1>8

\* The read-back finds the environment that the POST has made.
LEMMA GetKeeps ==
    ASSUME IInv, NEW r \in Resources, Get(r)
    PROVE  UniqueNames' /\ OwnersLive' /\ CreateHolds' /\ (~Astray' => Keys')
  <1>1. PICK i \in Holder(view[r].name) :
            IF ReadBack(r, i).desc = Blank
            THEN Created(r, ReadBack(r, i))
            ELSE /\ view' = [view EXCEPT ![r] = ReadBack(r, i)]
                 /\ pc' = [pc EXCEPT ![r] = "describe"]
                 /\ UNCHANGED <<config, state, outcome>>
    BY DEF Get
  <1>2. UNCHANGED <<envs, owner, lost>> /\ pc[r] = "get"
    BY DEF Get, server
  <1>3. view[r] # None /\ state[r] # None /\ view[r].name = state[r].name
    BY <1>2 DEF IInv, CreateHolds
  <1> DEFINE back == ReadBack(r, i)
             model == [back EXCEPT !.tainted = FALSE]
  <1>4. back \in States /\ back.name = state[r].name /\ back.uuid = i
    BY <1>3, ReadBackType DEF IInv, Holder
  <1>5. model \in States /\ model.name = state[r].name /\ model.uuid = i
    <2> HIDE DEF back
    <2> QED BY <1>4 DEF States
  <1>6. back # None /\ model # None
    BY <1>4, <1>5, NoneAssumption
  <1>7. \/ /\ state' = [state EXCEPT ![r] = model] /\ view' = [view EXCEPT ![r] = None]
           /\ pc' = [pc EXCEPT ![r] = "idle"]
        \/ /\ UNCHANGED state /\ view' = [view EXCEPT ![r] = back]
           /\ pc' = [pc EXCEPT ![r] = "describe"]
    BY <1>1 DEF Created, End
  <1> HIDE DEF back, model
  <1>8. /\ state'[r] # None /\ state'[r].name = state[r].name /\ state'[r].uuid \in {state[r].uuid, i}
        /\ pc'[r] \in {"get", "describe"} =>
               view'[r] # None /\ view'[r].name = state[r].name /\ view'[r].uuid = i /\ state'[r] = state[r]
        /\ \A s \in Resources \ {r} : state'[s] = state[s] /\ view'[s] = view[s] /\ pc'[s] = pc[s]
    BY <1>3, <1>4, <1>5, <1>6, <1>7 DEF IInv, TypeOK
  <1>9. UniqueNames' /\ OwnersLive' /\ CreateHolds'
    <2>1. pc'[r] \in {"get", "describe"} => state'[r].uuid = None
      BY <1>2, <1>8 DEF IInv, CreateHolds
    <2>2. QED
      BY <1>2, <1>8, <2>1 DEF IInv, UniqueNames, OwnersLive, CreateHolds
  <1>10. ASSUME ~Astray' PROVE Keys'
    <2>1. ~Astray /\ Keys
      BY <1>2, <1>10, AstrayStays DEF IInv
    <2>2. i \in Ids /\ owner[i] = r
      BY <1>3, <2>1, HolderIsOwn
    <2>3. \A j \in Ids : Owned(j) /\ owner[j] = r => j = i
      BY <1>3, <2>1, HolderIsOwn DEF Keys, NameIsOwn, Owned, Holder, IInv, UniqueNames
    <2>4. \A j \in Ids : Owned(j)' => Owned(j) /\ owner'[j] = owner[j] /\ envs'[j] = envs[j] /\ owner[j] \in Resources
      BY <1>2 DEF Owned, IInv, TypeOK
    <2>5. OwnIsThere'
      <3> SUFFICES ASSUME NEW s \in Resources, state'[s] # None
                   PROVE  \E j \in Ids : owner[j] = s /\ envs[j] # None /\ envs[j].name = state'[s].name
        BY <1>2 DEF OwnIsThere
      <3>1. state[s] # None /\ state'[s].name = state[s].name
        BY <1>3, <1>8
      <3>2. QED
        BY <2>1, <3>1 DEF Keys, OwnIsThere
    <2>6. NameIsOwn'
      <3> SUFFICES ASSUME NEW j \in Ids, Owned(j)'
                   PROVE  /\ state'[owner[j]] # None
                          /\ state'[owner[j]].name = envs[j].name
                          /\ state'[owner[j]].uuid \in {None, j}
        BY <1>2 DEF NameIsOwn
      <3>1. CASE owner[j] = r
        BY <1>8, <2>1, <2>3, <2>4, <3>1 DEF Keys, NameIsOwn
      <3>2. CASE owner[j] # r
        BY <1>8, <2>1, <2>4, <3>2 DEF Keys, NameIsOwn
      <3>3. QED
        BY <3>1, <3>2
    <2>7. ViewIsOwn'
      BY <1>8, <2>1, <2>3, <2>4 DEF Keys, ViewIsOwn
    <2>8. QED
      BY <2>5, <2>6, <2>7 DEF Keys
  <1>11. QED
    BY <1>9, <1>10

\* The PATCH of a description leaves the names alone.
LEMMA DescribeKeeps ==
    ASSUME IInv, NEW r \in Resources, Describe(r) \/ DescribeLost(r)
    PROVE  UniqueNames' /\ OwnersLive' /\ CreateHolds' /\ (~Astray' => Keys')
  <1>1. PICK i \in Holder(view[r].name) : envs' = [envs EXCEPT ![i].desc = view[r].desc]
    BY DEF Describe, DescribeLost
  <1>2. UNCHANGED owner /\ lost \subseteq lost' /\ pc[r] = "describe"
    BY DEF Describe, DescribeLost
  <1>3. view[r] \in States /\ state[r] # None /\ view[r].name = state[r].name
    BY <1>2 DEF IInv, CreateHolds, TypeOK
  <1>4. \A j \in Ids : (envs'[j] = None <=> envs[j] = None) /\ (envs[j] # None => envs'[j].name = envs[j].name)
    <2>1. envs[i] \in Envs /\ i \in Ids
      BY <1>1 DEF Holder, IInv, TypeOK
    <2>2. [envs[i] EXCEPT !.desc = view[r].desc] \in Envs
      BY <1>3, <2>1 DEF Envs, States
    <2>3. [envs[i] EXCEPT !.desc = view[r].desc].name = envs[i].name
      BY <2>1 DEF Envs
    <2>4. QED
      BY <1>1, <2>1, <2>2, <2>3, NoneAssumption DEF IInv, TypeOK
  <1> DEFINE model == [view[r] EXCEPT !.tainted = FALSE]
  <1>5. model # None /\ model.name = state[r].name /\ model.uuid = view[r].uuid
    <2>1. model \in States
      BY <1>3 DEF States
    <2>2. QED
      BY <1>3, <2>1, NoneAssumption DEF States
  <1>6. \/ UNCHANGED state
        \/ state' = [state EXCEPT ![r] = model]
    BY DEF Describe, DescribeLost, Created, Abandon
  <1> HIDE DEF model
  <1>7. /\ state'[r] # None /\ state'[r].name = state[r].name /\ state'[r].uuid \in {state[r].uuid, view[r].uuid}
        /\ pc'[r] = "idle"
        /\ \A s \in Resources \ {r} : state'[s] = state[s] /\ view'[s] = view[s] /\ pc'[s] = pc[s]
    <2>1. state'[r] # None /\ state'[r].name = state[r].name /\ state'[r].uuid \in {state[r].uuid, view[r].uuid}
      BY <1>3, <1>5, <1>6 DEF IInv, TypeOK
    <2>2. view' = [view EXCEPT ![r] = None] /\ pc' = [pc EXCEPT ![r] = "idle"]
      BY DEF Describe, DescribeLost, Created, Abandon, End
    <2>3. QED
      BY <1>6, <2>1, <2>2 DEF IInv, TypeOK
  <1>8. UniqueNames' /\ OwnersLive' /\ CreateHolds'
    BY <1>2, <1>4, <1>7 DEF IInv, UniqueNames, OwnersLive, CreateHolds
  <1>9. ASSUME ~Astray' PROVE Keys'
    <2>1. ~Astray /\ Keys
      BY <1>2, <1>9, AstrayStays DEF IInv
    <2>2. \A j \in Ids : Owned(j)' => Owned(j) /\ owner'[j] = owner[j] /\ envs'[j].name = envs[j].name /\ owner[j] \in Resources
      BY <1>2, <1>4 DEF Owned, IInv, TypeOK
    <2>3. OwnIsThere'
      <3> SUFFICES ASSUME NEW s \in Resources, state'[s] # None
                   PROVE  \E j \in Ids : owner[j] = s /\ envs'[j] # None /\ envs'[j].name = state'[s].name
        BY <1>2 DEF OwnIsThere
      <3>1. state[s] # None /\ state'[s].name = state[s].name
        BY <1>3, <1>7
      <3>2. QED
        BY <1>4, <2>1, <3>1 DEF Keys, OwnIsThere
    <2>4. NameIsOwn'
      <3> SUFFICES ASSUME NEW j \in Ids, Owned(j)'
                   PROVE  /\ state'[owner[j]] # None
                          /\ state'[owner[j]].name = envs'[j].name
                          /\ state'[owner[j]].uuid \in {None, j}
        BY <1>2 DEF NameIsOwn
      <3>1. CASE owner[j] = r
        BY <1>2, <1>7, <2>1, <2>2, <3>1 DEF Keys, NameIsOwn, ViewIsOwn
      <3>2. CASE owner[j] # r
        BY <1>7, <2>1, <2>2, <3>2 DEF Keys, NameIsOwn
      <3>3. QED
        BY <3>1, <3>2
    <2>5. ViewIsOwn'
      BY <1>7, <2>1, <2>2 DEF Keys, ViewIsOwn
    <2>6. QED
      BY <2>3, <2>4, <2>5 DEF Keys
  <1>10. QED
    BY <1>8, <1>9

\* An update gives its environment a name that is free or its own.
LEMMA UpdateKeeps ==
    ASSUME IInv, NEW r \in Resources, Update(r) \/ UpdateLost(r)
    PROVE  UniqueNames' /\ OwnersLive' /\ CreateHolds' /\ (~Astray' => Keys')
  <1>1. state[r] # None /\ config[r] # None /\ pc[r] = "todo"
    BY DEF Update, UpdateLost, Updates, Todo
  <1>2. Planned(r) \in Envs /\ Planned(r) # None /\ Planned(r).name = config[r].name
    BY <1>1, PlannedType, NoneAssumption DEF IInv
  <1>3. PICK i \in Holder(state[r].name) :
            /\ NameIsFree(r, i) /\ Patched(r, i)
            /\ Update(r) => state' = [state EXCEPT ![r] = [name |-> Planned(r).name, uuid |-> i,
                                                        desc |-> Planned(r).desc, tainted |-> FALSE]]
    <2>1. CASE Update(r)
      BY <2>1 DEF Update, Target, PathName
    <2>2. CASE ~Update(r)
      BY <2>2 DEF UpdateLost, Target, PathName
    <2>3. QED
      BY <2>1, <2>2
  <1>4. /\ i \in Ids /\ envs[i] # None /\ envs[i].name = state[r].name
        /\ UNCHANGED owner /\ lost \subseteq lost'
        /\ envs'[i] # None /\ envs'[i].name = config[r].name
        /\ \A j \in Ids \ {i} : envs'[j] = envs[j]
    BY <1>2, <1>3 DEF Holder, Patched, Update, UpdateLost, IInv, TypeOK
  <1>5. UniqueNames'
    BY <1>3, <1>4 DEF NameIsFree, Holder, IInv, UniqueNames
  <1>6. OwnersLive'
    BY <1>4 DEF IInv, OwnersLive
  <1>7. UNCHANGED view /\ pc' = [pc EXCEPT ![r] = "idle"]
    BY DEF Update, UpdateLost, Fail, End
  <1>8. \A s \in Resources \ {r} : state'[s] = state[s] /\ pc'[s] = pc[s]
    BY <1>7 DEF Update, UpdateLost, Fail, IInv, TypeOK
  <1>9. pc'[r] = "idle"
    BY <1>7 DEF IInv, TypeOK
  <1>10. CreateHolds'
    BY <1>7, <1>8, <1>9 DEF IInv, CreateHolds
  <1>11. ASSUME ~Astray' PROVE Keys'
    <2>1. ~Astray /\ Keys
      BY <1>4, <1>11, AstrayStays DEF IInv
    <2>2. owner[i] = r
      BY <1>1, <1>3, <2>1, HolderIsOwn
    <2>3. \A j \in Ids : Owned(j) /\ owner[j] = r => j = i
      BY <1>1, <1>3, <2>1, HolderIsOwn DEF Keys, NameIsOwn, Owned, Holder, IInv, UniqueNames
    <2>4. state'[r] # None /\ state'[r].name = config[r].name /\ state'[r].uuid \in {None, i}
      <3>1. CASE Update(r)
        <4> DEFINE model == [name |-> Planned(r).name, uuid |-> i, desc |-> Planned(r).desc, tainted |-> FALSE]
        <4>1. model \in States
          BY <1>2, <1>4 DEF Envs, States
        <4>2. model # None /\ model.name = config[r].name /\ model.uuid = i
          BY <1>2, <4>1, NoneAssumption
        <4>3. state' = [state EXCEPT ![r] = model]
          BY <1>3, <3>1
        <4> HIDE DEF model
        <4>4. QED
          BY <4>2, <4>3 DEF IInv, TypeOK
      <3>2. CASE ~Update(r)
        <4>1. UNCHANGED state /\ state[r].name = config[r].name
          BY <1>11, <3>2 DEF UpdateLost, Fail, Astray
        <4>2. QED
          BY <1>1, <1>4, <2>1, <2>2, <4>1, NoneAssumption DEF Keys, NameIsOwn, Owned
      <3>3. QED
        BY <3>1, <3>2
    <2>5. \A j \in Ids : Owned(j)' => Owned(j) /\ owner'[j] = owner[j] /\ owner[j] \in Resources
      BY <1>4 DEF Owned, IInv, TypeOK
    <2>6. OwnIsThere'
      <3> SUFFICES ASSUME NEW s \in Resources, state'[s] # None
                   PROVE  \E j \in Ids : owner[j] = s /\ envs'[j] # None /\ envs'[j].name = state'[s].name
        BY <1>4 DEF OwnIsThere
      <3>1. CASE s = r
        BY <1>4, <2>2, <2>4, <3>1
      <3>2. CASE s # r
        BY <1>4, <1>8, <2>1, <2>2, <3>2 DEF Keys, OwnIsThere
      <3>3. QED
        BY <3>1, <3>2
    <2>7. NameIsOwn'
      <3> SUFFICES ASSUME NEW j \in Ids, Owned(j)'
                   PROVE  /\ state'[owner[j]] # None
                          /\ state'[owner[j]].name = envs'[j].name
                          /\ state'[owner[j]].uuid \in {None, j}
        BY <1>4 DEF NameIsOwn
      <3>1. CASE owner[j] = r
        BY <1>4, <2>3, <2>4, <2>5, <3>1
      <3>2. CASE owner[j] # r
        BY <1>4, <1>8, <2>1, <2>2, <2>5, <3>2 DEF Keys, NameIsOwn
      <3>3. QED
        BY <3>1, <3>2
    <2>8. ViewIsOwn'
      BY <1>7, <1>8, <1>9, <2>1, <2>5 DEF Keys, ViewIsOwn
    <2>9. QED
      BY <2>6, <2>7, <2>8 DEF Keys
  <1>12. QED
    BY <1>5, <1>6, <1>10, <1>11

\* A deletion takes away its resource's own environment, and no other.
LEMMA DeleteKeeps ==
    ASSUME IInv, NEW r \in Resources, Delete(r) \/ DeleteLost(r)
    PROVE  UniqueNames' /\ OwnersLive' /\ CreateHolds' /\ (~Astray' => Keys')
  <1>1. state[r] # None /\ pc[r] = "todo" /\ Removed(r) /\ UNCHANGED view /\ lost \subseteq lost'
    BY DEF Delete, DeleteLost, Deletes, Todo, Fail
  <1>2. \A j \in Ids : IF j \in Holder(state[r].name)
                        THEN envs'[j] = None /\ owner'[j] = None
                        ELSE envs'[j] = envs[j] /\ owner'[j] = owner[j]
    BY <1>1 DEF Removed
  <1>3. UniqueNames' /\ OwnersLive'
    BY <1>2 DEF IInv, UniqueNames, OwnersLive
  <1>4. /\ pc'[r] \in {"idle", "todo"}
        /\ \A s \in Resources \ {r} : state'[s] = state[s] /\ pc'[s] = pc[s]
    BY <1>1 DEF Delete, DeleteLost, Fail, End, IInv, TypeOK
  <1>5. CreateHolds'
    BY <1>1, <1>4 DEF IInv, CreateHolds
  <1>6. ASSUME ~Astray' PROVE Keys'
    <2>1. ~Astray /\ Keys
      BY <1>1, <1>6, AstrayStays DEF IInv
    <2>2. state'[r] = None
      <3>1. ~DeleteLost(r)
        BY <1>6 DEF DeleteLost, Astray
      <3>2. QED
        BY <3>1 DEF Delete, IInv, TypeOK
    <2>3. \A j \in Holder(state[r].name) : owner[j] = r
      BY <1>1, <2>1, HolderIsOwn
    <2>4. \A j \in Ids : owner[j] = r => j \in Holder(state[r].name)
      BY <2>1, NoneAssumption DEF Keys, NameIsOwn, Owned, Holder, IInv, OwnersLive
    <2>5. \A j \in Ids : Owned(j)' => /\ Owned(j) /\ owner'[j] = owner[j] /\ envs'[j] = envs[j]
                                     /\ owner[j] \in Resources \ {r}
      BY <1>2, <2>4 DEF Owned, IInv, TypeOK
    <2>6. OwnIsThere'
      BY <1>2, <1>4, <2>1, <2>2, <2>3 DEF Keys, OwnIsThere
    <2>7. NameIsOwn' /\ ViewIsOwn'
      BY <1>1, <1>4, <2>1, <2>5 DEF Keys, NameIsOwn, ViewIsOwn
    <2>8. QED
      BY <2>6, <2>7 DEF Keys
  <1>7. QED
    BY <1>3, <1>5, <1>6

-----------------------------------------------------------------------------
(***************************************************************************)
(* The invariant and what follows from it.                                 *)
(***************************************************************************)
LEMMA InitEstablishes == Init => IInv
  <1> SUFFICES ASSUME Init PROVE IInv
    OBVIOUS
  <1>1. PICK i \in Ids : envs = [j \in Ids |-> IF j = i THEN [name |-> Production, desc |-> Blank] ELSE None]
    BY DEF Init
  <1>2. [name |-> Production, desc |-> Blank] \in Envs
    BY NamesAssumption DEF Envs
  <1>3. TypeOK
    BY <1>1, <1>2, BoundsAssumption DEF Init, TypeOK
  <1>4. UniqueNames /\ OwnersLive /\ CreateHolds
    BY <1>1 DEF Init, UniqueNames, OwnersLive, CreateHolds
  <1>5. Keys
    BY DEF Init, Keys, OwnIsThere, NameIsOwn, ViewIsOwn, Owned
  <1>6. QED
    BY <1>3, <1>4, <1>5 DEF IInv

LEMMA HandlersPreserve ==
    ASSUME IInv, NEW r \in Resources, Edit(r) \/ Handle(r)
    PROVE  IInv'
  <1>1. CASE \/ Edit(r) \/ NoChanges(r) \/ ReadFails(r) \/ PostConflict(r) \/ PostRefused(r)
             \/ GetFails(r) \/ DescribeFails(r) \/ UpdateFails(r) \/ DeleteRefused(r)
    BY <1>1, TypeOfQuiet, QuietShape, QuietKeeps DEF IInv
  <1>2. CASE Read(r)
    BY <1>2, TypeOfRead, ReadKeeps DEF IInv
  <1>3. CASE Post(r) \/ PostLost(r)
    BY <1>3, TypeOfPost, PostKeeps DEF IInv
  <1>4. CASE Get(r)
    BY <1>4, TypeOfReadBack, GetKeeps DEF IInv
  <1>5. CASE Describe(r) \/ DescribeLost(r)
    BY <1>5, TypeOfDescribe, DescribeKeeps DEF IInv
  <1>6. CASE Update(r) \/ UpdateLost(r)
    BY <1>6, TypeOfUpdate, UpdateKeeps DEF IInv
  <1>7. CASE Delete(r) \/ DeleteLost(r)
    BY <1>7, TypeOfDelete, DeleteKeeps DEF IInv
  <1>8. QED
    BY <1>1, <1>2, <1>3, <1>4, <1>5, <1>6, <1>7 DEF Handle

LEMMA NextPreserves == IInv /\ [Next]_vars => IInv'
  <1> SUFFICES ASSUME IInv, [Next]_vars PROVE IInv'
    OBVIOUS
  <1>1. CASE Begin
    <2>1. /\ UNCHANGED <<state, envs, owner, lost>>
          /\ \A s \in Resources : pc'[s] = "read"
      BY <1>1 DEF Begin, server
    <2>2. TypeOK'
      BY <1>1 DEF Begin, IInv, TypeOK, server, bounds
    <2>3. QED
      BY <2>1, <2>2, QuietKeeps DEF IInv
  <1>2. CASE UNCHANGED vars
    <2>1. TypeOK'
      BY <1>2 DEF IInv, TypeOK, vars, terraform, server, bounds
    <2>2. UNCHANGED <<state, envs, owner, lost, pc, view>>
      BY <1>2 DEF vars, terraform, server
    <2>3. QED
      BY <2>1, <2>2, QuietKeeps DEF IInv
  <1>3. ASSUME NEW r \in Resources, Edit(r) \/ Handle(r) PROVE IInv'
    BY <1>3, HandlersPreserve
  <1>4. QED
    BY <1>1, <1>2, <1>3 DEF Next

THEOREM Inductive == Spec => []IInv
  BY InitEstablishes, NextPreserves, PTL DEF Spec

\* Every variable keeps its type, for any number of resources.
THEOREM TypeCorrect == Spec => []TypeOK
  <1>1. IInv => TypeOK
    BY DEF IInv
  <1>2. QED
    BY <1>1, Inductive, PTL

\* The name in a state leads to the environment whose POST was answered to
\* that resource, until the answer to a rename or a deletion is lost: the
\* key of GET, PATCH and DELETE /projects/{uuid}/environments/{name}.
THEOREM NamesAreKeys == Spec => []NameLeadsToOwn
  <1>1. IInv => NameLeadsToOwn
    BY DEF IInv, Keys, NameIsOwn, NameLeadsToOwn
  <1>2. QED
    BY <1>1, Inductive, PTL

\* No environment is managed by two resources, whatever names they
\* exchange side by side.
THEOREM EnvironmentsAreNotShared == Spec => []NoSharedEnvironment
  <1>1. IInv => NoSharedEnvironment
    <2> SUFFICES ASSUME IInv, ~Astray, NEW r \in Resources, NEW s \in Resources, r # s,
                        state[r] # None, state[s] # None, state[r].name = state[s].name
                 PROVE  FALSE
      BY DEF NoSharedEnvironment
    <2>1. PICK i \in Ids : owner[i] = r /\ envs[i] # None /\ envs[i].name = state[r].name
      BY DEF IInv, Keys, OwnIsThere
    <2>2. i \in Holder(state[s].name)
      BY <2>1 DEF Holder
    <2>3. QED
      BY <2>1, <2>2, HolderIsOwn
  <1>2. QED
    BY <1>1, Inductive, PTL

\* Whatever step changes an environment, its own resource takes it.
THEOREM OnlyOwnersTouch == Spec => OnlyOwnIsTouched
  <1> DEFINE Own == ~Astray => \A i \in Ids :
                        envs[i] # None /\ envs'[i] # envs[i] =>
                            /\ owner[i] # None
                            /\ \A s \in Resources \ {owner[i]} : state'[s] = state[s] /\ pc'[s] = pc[s]
  <1>1. ASSUME IInv, [Next]_vars PROVE Own
    <2> SUFFICES ASSUME ~Astray, NEW i \in Ids, envs[i] # None, envs'[i] # envs[i]
                 PROVE  /\ owner[i] # None
                        /\ \A s \in Resources \ {owner[i]} : state'[s] = state[s] /\ pc'[s] = pc[s]
      OBVIOUS
    <2>1. PICK r \in Resources : Edit(r) \/ Handle(r)
      BY <1>1 DEF Next, Begin, vars, server
    <2>2. \/ Post(r) \/ PostLost(r) \/ Describe(r) \/ DescribeLost(r)
          \/ Update(r) \/ UpdateLost(r) \/ Delete(r) \/ DeleteLost(r)
      <3>1. ~(Get(r) \/ Read(r))
        BY DEF Get, Read, server
      <3>2. ~(\/ Edit(r) \/ NoChanges(r) \/ ReadFails(r) \/ PostConflict(r) \/ PostRefused(r)
              \/ GetFails(r) \/ DescribeFails(r) \/ UpdateFails(r) \/ DeleteRefused(r))
        BY <1>1, QuietShape DEF IInv
      <3>3. QED
        BY <2>1, <3>1, <3>2 DEF Handle
    <2>3. \A s \in Resources \ {r} : state'[s] = state[s] /\ pc'[s] = pc[s]
      BY <1>1, <2>2 DEF Post, PostLost, Describe, DescribeLost, Update, UpdateLost, Delete, DeleteLost,
                        Created, Abandon, Fail, End, IInv, TypeOK
    <2>4. state[r] # None /\ i \in Holder(state[r].name)
      <3>1. CASE Post(r) \/ PostLost(r)
        BY <1>1, <3>1 DEF Post, PostLost, NewEnvironment, IInv, TypeOK
      <3>2. CASE Describe(r) \/ DescribeLost(r)
        BY <1>1, <3>2 DEF Describe, DescribeLost, IInv, CreateHolds, TypeOK
      <3>3. CASE Update(r) \/ UpdateLost(r)
        BY <1>1, <3>3 DEF Update, UpdateLost, Updates, Patched, Target, PathName, IInv, TypeOK
      <3>4. CASE Delete(r) \/ DeleteLost(r)
        BY <3>4 DEF Delete, DeleteLost, Deletes, Removed
      <3>5. QED
        BY <2>2, <3>1, <3>2, <3>3, <3>4
    <2>5. owner[i] = r
      BY <1>1, <2>4, HolderIsOwn
    <2>6. QED
      BY <2>3, <2>5, NoneAssumption
  <1>2. QED
    BY <1>1, Inductive, PTL DEF Spec, OnlyOwnIsTouched

\* A UUID that applications may refer to is not exchanged for another one.
THEOREM RenamesKeepUUIDs == Spec => RenameKeepsUUID
  <1> DEFINE Kept == ~Astray => \A r \in Resources :
                        state[r] # None /\ state'[r] # None /\ state[r].uuid # None =>
                            state'[r].uuid = state[r].uuid
  <1>1. ASSUME IInv, [Next]_vars PROVE Kept
    <2> SUFFICES ASSUME ~Astray, NEW r \in Resources,
                        state[r] # None, state'[r] # None, state[r].uuid # None, state'[r] # state[r]
                 PROVE  state'[r].uuid = state[r].uuid
      OBVIOUS
    <2>1. PICK q \in Resources : Edit(q) \/ Handle(q)
      BY <1>1 DEF Next, Begin, vars, terraform
    <2>2. Read(q) \/ Post(q) \/ Get(q) \/ Describe(q) \/ Update(q) \/ Delete(q)
      <3>1. ~(PostLost(q) \/ DescribeLost(q) \/ UpdateLost(q) \/ DeleteLost(q))
        BY DEF PostLost, DescribeLost, UpdateLost, DeleteLost, Fail, Abandon
      <3>2. ~(\/ Edit(q) \/ NoChanges(q) \/ ReadFails(q) \/ PostConflict(q) \/ PostRefused(q)
              \/ GetFails(q) \/ DescribeFails(q) \/ UpdateFails(q) \/ DeleteRefused(q))
        BY <1>1, QuietShape DEF IInv
      <3>3. QED
        BY <2>1, <3>1, <3>2 DEF Handle
    <2>3. q = r
      BY <1>1, <2>2 DEF Read, Post, Get, Describe, Update, Delete, Created, IInv, TypeOK
    <2>4. \A i \in Holder(state[r].name) : state[r].uuid = i
      BY <1>1, HolderIsOwn, NoneAssumption DEF IInv, Keys, NameIsOwn, Owned
    <2>5. CASE Read(r)
      <3> DEFINE i == CHOOSE i \in Holder(state[r].name) : TRUE
      <3>1. Holder(state[r].name) # {}
        BY <1>1 DEF IInv, Keys, OwnIsThere, Holder
      <3>2. state[r] \in States /\ i \in Holder(state[r].name)
        BY <1>1, <3>1 DEF IInv, TypeOK
      <3>3. state' = [state EXCEPT ![r] = [state[r] EXCEPT !.uuid = i, !.desc = Shown(envs[i].desc, state[r].desc)]]
        BY <1>1, <2>5, <3>1, <3>2 DEF Read, IInv, TypeOK, States
      <3> HIDE DEF i
      <3>4. [state[r] EXCEPT !.uuid = i, !.desc = Shown(envs[i].desc, state[r].desc)].uuid = i
        BY <3>2 DEF States
      <3>5. state'[r].uuid = i
        BY <1>1, <3>3, <3>4 DEF IInv, TypeOK
      <3>6. QED
        BY <2>4, <3>2, <3>5
    <2>6. CASE Post(r)
      BY <2>6 DEF Post, Creates
    <2>7. CASE Get(r) \/ Describe(r)
      BY <1>1, <2>7 DEF Get, Describe, IInv, CreateHolds
    <2>8. CASE Update(r)
      <3>1. PICK i \in Holder(state[r].name) :
                state' = [state EXCEPT ![r] = [name |-> Planned(r).name, uuid |-> i,
                                               desc |-> Planned(r).desc, tainted |-> FALSE]]
        BY <2>8 DEF Update, Target, PathName
      <3>2. state'[r].uuid = i
        BY <1>1, <3>1 DEF IInv, TypeOK
      <3>3. QED
        BY <2>4, <3>2
    <2>9. CASE Delete(r)
      BY <1>1, <2>9 DEF Delete, IInv, TypeOK
    <2>10. QED
      BY <2>2, <2>3, <2>5, <2>6, <2>7, <2>8, <2>9
  <1>2. QED
    BY <1>1, Inductive, PTL DEF Spec, RenameKeepsUUID
=============================================================================
