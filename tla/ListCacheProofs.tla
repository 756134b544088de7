--------------------------- MODULE ListCacheProofs ---------------------------
(***************************************************************************)
(* Proofs about ListCache, for any number of endpoints, list calls and     *)
(* mutations, any TTL and any bound on the clock.                          *)
(***************************************************************************)
EXTENDS ListCache, TLAPS

USE CallsAssumption, BoundsAssumption

\* The list cache and its callers keep their variables well typed.
THEOREM TypeCorrect == Spec => []TypeOK
<1>1. Init => TypeOK
  BY DEF Init, TypeOK, Entry, Body, NoBody, ReaderPCs, WriterPCs
<1>2. TypeOK /\ [Next]_vars => TypeOK'
  <2> SUFFICES ASSUME TypeOK, [Next]_vars PROVE TypeOK'
    OBVIOUS
  <2> USE DEF TypeOK, ReaderPCs, WriterPCs, Goto, WriterGoto, vars, serverVars, cacheVars, readerVars, writerVars
  <2>1. ASSUME NEW r \in Readers, Read(r) PROVE TypeOK'
    <3>1. CASE Begin(r) BY <3>1 DEF Begin
    <3>2. CASE Hit(r)
      <4>1. entries[PathOf[r]] \in Entry
        BY <3>2 DEF Hit, Live
      <4>2. CASE r \in Mistyped
        BY <3>2, <4>2 DEF Hit
      <4>3. CASE r \notin Mistyped
        <5>1. body' \in [Readers -> Body]
          BY <3>2, <4>1, <4>3 DEF Hit, Entry, Body
        <5> QED BY <3>2, <4>3, <5>1 DEF Hit
      <4> QED BY <4>2, <4>3
    <3>3. CASE Miss(r) BY <3>3 DEF Miss, Forget
    <3>4. CASE Evict(r) BY <3>4 DEF Evict, InvalidateEntry
    <3>5. CASE Snapshot(r) BY <3>5 DEF Snapshot
    <3>6. CASE Get(r) BY <3>6 DEF Get, Body
    <3>7. CASE GetFails(r) BY <3>7 DEF GetFails
    <3>8. CASE Store(r) BY <3>8 DEF Store, SetEntry, Entry, Body
    <3> QED BY <2>1, <3>1, <3>2, <3>3, <3>4, <3>5, <3>6, <3>7, <3>8 DEF Read
  <2>2. ASSUME NEW w \in Writers, Write(w) PROVE TypeOK'
    <3>1. CASE Send(w) BY <3>1 DEF Send
    <3>2. CASE Apply(w) BY <3>2 DEF Apply
    <3>3. CASE Refuse(w) BY <3>3 DEF Refuse
    <3>4. CASE Resend(w) BY <3>4 DEF Resend
    <3>5. CASE Lose(w) BY <3>5 DEF Lose
    <3>6. CASE Invalidate(w) BY <3>6 DEF Invalidate, InvalidateEntry, Larger
    <3> QED BY <2>2, <3>1, <3>2, <3>3, <3>4, <3>5, <3>6 DEF Write
  <2>3. ASSUME NEW p \in Paths, Outside(p) PROVE TypeOK'
    BY <2>3 DEF Outside
  <2>4. CASE Tick BY <2>4 DEF Tick
  <2>5. CASE Finished BY <2>5 DEF Finished
  <2>6. CASE UNCHANGED vars BY <2>6
  <2> QED BY <2>1, <2>2, <2>3, <2>4, <2>5, <2>6 DEF Next
<1> QED BY <1>1, <1>2, PTL DEF Spec

(***************************************************************************)
(* Read your writes. The generation is what ties an in-flight GET to the   *)
(* acknowledgements it may have missed: as long as the generation a reader *)
(* snapshot is still current, nothing was acknowledged on its path since,  *)
(* so the body it fetched afterwards is recent enough to be stored.        *)
(***************************************************************************)
ServerInv ==
    /\ \A p \in Paths : acked[p] <= version[p]
    /\ \A p \in Paths : entries[p] # NoEntry => entries[p].ver <= version[p]
    /\ \A w \in Writers : wpc[w] = "applied" => wver[w] <= version[PathOf[w]]

GenerationInv ==
    \A r \in Readers :
        /\ rpc[r] \in {"get", "store"} => gen[r] <= gens[PathOf[r]]
        /\ rpc[r] = "store" /\ gen[r] = gens[PathOf[r]] => body[r].ver >= acked[PathOf[r]]

ReaderInv ==
    \A r \in Readers :
        /\ floor[r] <= acked[PathOf[r]]
        /\ rpc[r] \in {"store", "done"} => floor[r] <= body[r].ver /\ body[r].ver <= version[PathOf[r]]

FreshInv == ServerInv /\ GenerationInv /\ ReaderInv /\ CacheHoldsAcknowledged

\* The strengthening above holds in every reachable state.
LEMMA FreshInvHolds == Spec => []FreshInv
<1> USE DEF FreshInv
<1>1. Init => FreshInv
  BY DEF Init, ServerInv, GenerationInv, ReaderInv, CacheHoldsAcknowledged
<1>2. TypeOK /\ TypeOK' /\ FreshInv /\ [Next]_vars => FreshInv'
  <2> SUFFICES ASSUME TypeOK, TypeOK', FreshInv, [Next]_vars PROVE FreshInv'
    OBVIOUS
  <2> USE DEF TypeOK, ServerInv, GenerationInv, ReaderInv, CacheHoldsAcknowledged,
              Goto, WriterGoto, vars, serverVars, cacheVars, readerVars, writerVars, Body, Entry
  <2>1. ASSUME NEW r \in Readers, Read(r) PROVE FreshInv'
    <3>1. CASE Begin(r) BY <3>1 DEF Begin
    <3>2. CASE Hit(r)
      <4>1. CASE r \in Mistyped
        BY <3>2, <4>1 DEF Hit
      <4>2. CASE r \notin Mistyped
        <5>1. entries[PathOf[r]].ver <= version[PathOf[r]] /\ entries[PathOf[r]].ver >= acked[PathOf[r]]
          BY <3>2 DEF Hit, Live
        <5>2. entries[PathOf[r]].ver \in Nat
          BY <3>2 DEF Hit, Live
        <5>3. body'[r].ver = entries[PathOf[r]].ver
          BY <3>2, <4>2 DEF Hit
        <5>4. rpc' = [rpc EXCEPT ![r] = "done"] /\ \A q \in Readers : q # r => body'[q] = body[q]
          BY <3>2, <4>2 DEF Hit
        <5>5. UNCHANGED <<entries, gens, version, acked, wpc, wver, gen, floor>>
          BY <3>2 DEF Hit
        <5>6. ServerInv' /\ CacheHoldsAcknowledged'
          BY <5>5
        <5>7. GenerationInv'
          BY <5>4, <5>5
        <5>8. ReaderInv'
          BY <5>1, <5>2, <5>3, <5>4, <5>5
        <5> QED BY <5>6, <5>7, <5>8
      <4> QED BY <4>1, <4>2
    <3>3. CASE Miss(r) BY <3>3 DEF Miss, Forget
    <3>4. CASE Evict(r) BY <3>4 DEF Evict, InvalidateEntry
    <3>5. CASE Snapshot(r) BY <3>5 DEF Snapshot
    <3>6. CASE Get(r) BY <3>6 DEF Get
    <3>7. CASE GetFails(r) BY <3>7 DEF GetFails
    <3>8. CASE Store(r) BY <3>8 DEF Store, SetEntry
    <3> QED BY <2>1, <3>1, <3>2, <3>3, <3>4, <3>5, <3>6, <3>7, <3>8 DEF Read
  <2>2. ASSUME NEW w \in Writers, Write(w) PROVE FreshInv'
    <3>1. CASE Send(w) BY <3>1 DEF Send
    <3>2. CASE Apply(w) BY <3>2 DEF Apply
    <3>3. CASE Refuse(w) BY <3>3 DEF Refuse
    <3>4. CASE Resend(w) BY <3>4 DEF Resend
    <3>5. CASE Lose(w) BY <3>5 DEF Lose
    <3>6. CASE Invalidate(w) BY <3>6 DEF Invalidate, InvalidateEntry, Larger
    <3> QED BY <2>2, <3>1, <3>2, <3>3, <3>4, <3>5, <3>6 DEF Write
  <2>3. ASSUME NEW p \in Paths, Outside(p) PROVE FreshInv'
    BY <2>3 DEF Outside
  <2>4. CASE Tick BY <2>4 DEF Tick
  <2>5. CASE Finished BY <2>5 DEF Finished
  <2>6. CASE UNCHANGED vars BY <2>6
  <2> QED BY <2>1, <2>2, <2>3, <2>4, <2>5, <2>6 DEF Next
<1> QED BY <1>1, <1>2, TypeCorrect, PTL DEF Spec

\* No reachable cache entry predates a mutation this client saw succeed.
THEOREM CacheNeverPredatesAcknowledgement == Spec => []CacheHoldsAcknowledged
<1>1. FreshInv => CacheHoldsAcknowledged
  BY DEF FreshInv
<1> QED BY <1>1, FreshInvHolds, PTL

\* Every list call that succeeds shows each mutation acknowledged before it.
THEOREM ReadersSeeTheirWrites == Spec => []ReadYourWrites
<1>1. TypeOK /\ FreshInv => ReadYourWrites
  BY DEF FreshInv, ReaderInv, ReadYourWrites, TypeOK, Body
<1> QED BY <1>1, FreshInvHolds, TypeCorrect, PTL

(***************************************************************************)
(* How long a change nobody acknowledged can stay hidden. An entry expires *)
(* TTL after it is stored, and is stored MaxDelay after the server         *)
(* answered at the latest.                                                 *)
(***************************************************************************)
AgeInv ==
    /\ \A p \in Paths : entries[p] # NoEntry => entries[p].expires <= entries[p].asOf + MaxDelay + TTL
    /\ \A r \in Readers :
         /\ begun[r] <= now
         /\ rpc[r] = "store" => /\ begun[r] <= body[r].asOf
                                /\ body[r].asOf <= now
                                /\ now <= body[r].asOf + MaxDelay
         /\ rpc[r] = "done" => begun[r] <= body[r].asOf + TTL + MaxDelay

\* Ages stay within those bounds in every reachable state.
LEMMA AgeInvHolds == Spec => []AgeInv
<1>1. Init => AgeInv
  BY DEF Init, AgeInv
<1>2. TypeOK /\ TypeOK' /\ AgeInv /\ [Next]_vars => AgeInv'
  <2> SUFFICES ASSUME TypeOK, TypeOK', AgeInv, [Next]_vars PROVE AgeInv'
    OBVIOUS
  <2> USE DEF TypeOK, AgeInv, Goto, WriterGoto,
              vars, serverVars, cacheVars, readerVars, writerVars, Body, Entry
  <2>1. ASSUME NEW r \in Readers, Read(r) PROVE AgeInv'
    <3>1. CASE Begin(r) BY <3>1 DEF Begin
    <3>2. CASE Hit(r)
      <4>1. CASE r \in Mistyped
        BY <3>2, <4>1 DEF Hit
      <4>2. CASE r \notin Mistyped
        <5>1. entries[PathOf[r]] \in Entry /\ now <= entries[PathOf[r]].expires
          BY <3>2 DEF Hit, Live
        <5>2. entries[PathOf[r]].expires <= entries[PathOf[r]].asOf + MaxDelay + TTL
          BY <3>2 DEF Hit, Live
        <5>3. begun[r] <= entries[PathOf[r]].asOf + TTL + MaxDelay
          BY <5>1, <5>2
        <5>4. body'[r].asOf = entries[PathOf[r]].asOf
          BY <3>2, <4>2 DEF Hit
        <5>5. rpc' = [rpc EXCEPT ![r] = "done"] /\ \A q \in Readers : q # r => body'[q] = body[q]
          BY <3>2, <4>2 DEF Hit
        <5>6. UNCHANGED <<now, entries, begun>>
          BY <3>2 DEF Hit
        <5> QED BY <5>3, <5>4, <5>5, <5>6
      <4> QED BY <4>1, <4>2
    <3>3. CASE Miss(r) BY <3>3 DEF Miss, Forget
    <3>4. CASE Evict(r) BY <3>4 DEF Evict, InvalidateEntry
    <3>5. CASE Snapshot(r) BY <3>5 DEF Snapshot
    <3>6. CASE Get(r) BY <3>6 DEF Get
    <3>7. CASE GetFails(r) BY <3>7 DEF GetFails
    <3>8. CASE Store(r) BY <3>8 DEF Store, SetEntry
    <3> QED BY <2>1, <3>1, <3>2, <3>3, <3>4, <3>5, <3>6, <3>7, <3>8 DEF Read
  <2>2. ASSUME NEW w \in Writers, Write(w) PROVE AgeInv'
    <3>1. CASE Send(w) BY <3>1 DEF Send
    <3>2. CASE Apply(w) BY <3>2 DEF Apply
    <3>3. CASE Refuse(w) BY <3>3 DEF Refuse
    <3>4. CASE Resend(w) BY <3>4 DEF Resend
    <3>5. CASE Lose(w) BY <3>5 DEF Lose
    <3>6. CASE Invalidate(w) BY <3>6 DEF Invalidate, InvalidateEntry
    <3> QED BY <2>2, <3>1, <3>2, <3>3, <3>4, <3>5, <3>6 DEF Write
  <2>3. ASSUME NEW p \in Paths, Outside(p) PROVE AgeInv'
    BY <2>3 DEF Outside
  <2>4. CASE Tick BY <2>4 DEF Tick
  <2>5. CASE Finished BY <2>5 DEF Finished
  <2>6. CASE UNCHANGED vars BY <2>6
  <2> QED BY <2>1, <2>2, <2>3, <2>4, <2>5, <2>6 DEF Next
<1> QED BY <1>1, <1>2, TypeCorrect, PTL DEF Spec

\* No list call returns a list the server had replaced more than
\* TTL + MaxDelay before the call began.
THEOREM StalenessIsBounded == Spec => []StalenessBounded
<1>1. AgeInv => StalenessBounded
  BY DEF AgeInv, StalenessBounded
<1> QED BY <1>1, AgeInvHolds, PTL

(***************************************************************************)
(* The cache implements ListReads.                                         *)
(***************************************************************************)
\* Moving one call moves its visible phase and no other.
LEMMA PhasesMove ==
  ASSUME TypeOK, NEW r \in Readers, NEW pc, rpc' = [rpc EXCEPT ![r] = pc]
  PROVE  Phases' = [Phases EXCEPT ![r] = PhaseOf(pc)]
BY DEF TypeOK, Phases, PhaseOf

\* A call that has not answered and does not now shows no result.
LEMMA ResultsStay ==
  ASSUME TypeOK, NEW r \in Readers, NEW pc, rpc' = [rpc EXCEPT ![r] = pc],
         rpc[r] # "done", pc # "done",
         \A q \in Readers : q # r => body'[q] = body[q]
  PROVE  Results' = Results
BY DEF TypeOK, Results

\* A call that answers shows the version of its body.
LEMMA ResultsMove ==
  ASSUME TypeOK, NEW r \in Readers, rpc' = [rpc EXCEPT ![r] = "done"],
         \A q \in Readers : q # r => body'[q] = body[q]
  PROVE  Results' = [Results EXCEPT ![r] = body'[r].ver]
BY DEF TypeOK, Results

\* A step inside a list call that does not end it is invisible.
LEMMA InnerStep ==
  ASSUME TypeOK, NEW r \in Readers, NEW pc, rpc' = [rpc EXCEPT ![r] = pc],
         rpc[r] \in {"lookup", "evict", "snapshot", "get", "store"},
         pc \in {"evict", "snapshot", "get", "store"},
         \A q \in Readers : q # r => body'[q] = body[q],
         UNCHANGED <<version, acked, floor>>
  PROVE  UNCHANGED Reads!vars
<1>1. Results' = Results
  BY ResultsStay
<1>2. Phases[r] = "reading" /\ PhaseOf(pc) = "reading"
  BY DEF Phases, PhaseOf
<1>3. Phases' = [Phases EXCEPT ![r] = "reading"]
  BY <1>2, PhasesMove
<1>4. Phases' = Phases
  BY <1>2, <1>3 DEF Phases
<1> QED BY <1>1, <1>4 DEF Reads!vars

\* A step that ends a list call with a body is an answer of ListReads.
LEMMA AnswerStep ==
  ASSUME TypeOK, FreshInv', NEW r \in Readers, rpc' = [rpc EXCEPT ![r] = "done"],
         rpc[r] \in {"lookup", "store"},
         \A q \in Readers : q # r => body'[q] = body[q],
         body'[r].ver \in Nat, floor[r] \in Nat, version[PathOf[r]] \in Nat,
         UNCHANGED <<version, acked, floor>>
  PROVE  Reads!Answer(r)
<1>1. body'[r].ver \in floor[r]..version[PathOf[r]]
  BY DEF FreshInv, ReaderInv, TypeOK
<1>2. Results' = [Results EXCEPT ![r] = body'[r].ver]
  BY ResultsMove
<1>3. Phases[r] = "reading"
  BY DEF Phases, PhaseOf
<1>4. Phases' = [Phases EXCEPT ![r] = "answered"]
  BY PhasesMove DEF PhaseOf
<1> QED BY <1>1, <1>2, <1>3, <1>4 DEF Reads!Answer

\* Every step of the cache, its callers and its writers is a step of
\* ListReads or leaves it unchanged.
LEMMA StepSimulation ==
  ASSUME TypeOK, TypeOK', FreshInv, FreshInv', [Next]_vars
  PROVE  [Reads!Next]_(Reads!vars)
<1> USE DEF Goto, WriterGoto, serverVars, cacheVars, readerVars, writerVars
<1>1. ASSUME NEW r \in Readers, Read(r) PROVE [Reads!Next]_(Reads!vars)
  <2>1. CASE Begin(r)
    <3>1. Phases[r] = "idle" /\ Phases' = [Phases EXCEPT ![r] = "reading"]
      <4>1. Phases' = [Phases EXCEPT ![r] = PhaseOf("lookup")]
        BY <2>1, PhasesMove DEF Begin
      <4>2. PhaseOf("lookup") = "reading" /\ PhaseOf("idle") = "idle"
        BY DEF PhaseOf
      <4>3. Phases[r] = PhaseOf("idle")
        BY <2>1 DEF Begin, Phases
      <4> QED BY <4>1, <4>2, <4>3
    <3>2. Results' = Results
      BY <2>1, ResultsStay DEF Begin
    <3>3. Reads!Begin(r)
      BY <2>1, <3>1, <3>2 DEF Begin, Reads!Begin
    <3> QED BY <3>3 DEF Reads!Next
  <2>2. CASE Hit(r) /\ r \in Mistyped
    <3>1. UNCHANGED Reads!vars
      BY <2>2, InnerStep DEF Hit
    <3> QED BY <3>1
  <2>3. CASE Hit(r) /\ r \notin Mistyped
    <3>1. body'[r].ver \in Nat /\ floor[r] \in Nat /\ version[PathOf[r]] \in Nat
      BY DEF TypeOK, Body
    <3>2. \A q \in Readers : q # r => body'[q] = body[q]
      BY <2>3 DEF Hit, TypeOK
    <3>3. Reads!Answer(r)
      BY <2>3, <3>1, <3>2, AnswerStep DEF Hit
    <3> QED BY <3>3 DEF Reads!Next
  <2>4. CASE Miss(r) \/ Evict(r) \/ Snapshot(r) \/ Get(r)
    <3>1. \A q \in Readers : q # r => body'[q] = body[q]
      BY <2>4 DEF Miss, Evict, Snapshot, Get, TypeOK
    <3>2. UNCHANGED Reads!vars
      BY <2>4, <3>1, InnerStep DEF Miss, Evict, Snapshot, Get
    <3> QED BY <3>2
  <2>5. CASE GetFails(r)
    <3>1. Phases[r] = "reading" /\ Phases' = [Phases EXCEPT ![r] = "failed"]
      BY <2>5, PhasesMove DEF GetFails, Phases, PhaseOf
    <3>2. Results' = Results
      BY <2>5, ResultsStay DEF GetFails
    <3>3. Reads!Fail(r)
      BY <2>5, <3>1, <3>2 DEF GetFails, Reads!Fail
    <3> QED BY <3>3 DEF Reads!Next
  <2>6. CASE Store(r)
    <3>1. body'[r].ver \in Nat /\ floor[r] \in Nat /\ version[PathOf[r]] \in Nat
      BY DEF TypeOK, Body
    <3>2. Reads!Answer(r)
      BY <2>6, <3>1, AnswerStep DEF Store
    <3> QED BY <3>2 DEF Reads!Next
  <2> QED BY <1>1, <2>1, <2>2, <2>3, <2>4, <2>5, <2>6 DEF Read
<1>2. ASSUME UNCHANGED <<rpc, body>> PROVE UNCHANGED <<Phases, Results>>
  BY <1>2 DEF Phases, Results
<1>3. ASSUME NEW w \in Writers, Write(w) PROVE [Reads!Next]_(Reads!vars)
  <2>1. CASE Apply(w)
    <3>1. Reads!Change(PathOf[w]) BY <1>2, <2>1 DEF Apply, Reads!Change
    <3> QED BY <3>1 DEF Reads!Next
  <2>2. CASE Invalidate(w)
    <3>1. wver[w] \in Nat /\ acked[PathOf[w]] \in Nat /\ version[PathOf[w]] \in Nat
      BY DEF TypeOK
    <3>2. Larger(acked[PathOf[w]], wver[w]) \in acked[PathOf[w]]..version[PathOf[w]]
      BY <2>2, <3>1 DEF Invalidate, Larger, FreshInv, ServerInv
    <3>3. Reads!Acknowledge(PathOf[w])
      BY <1>2, <2>2, <3>2 DEF Invalidate, Reads!Acknowledge
    <3> QED BY <3>3 DEF Reads!Next
  <2>3. CASE Send(w) \/ Refuse(w) \/ Resend(w) \/ Lose(w)
    BY <1>2, <2>3 DEF Send, Refuse, Resend, Lose, Reads!vars
  <2> QED BY <1>3, <2>1, <2>2, <2>3 DEF Write
<1>4. ASSUME NEW p \in Paths, Outside(p) PROVE [Reads!Next]_(Reads!vars)
  <2>1. Reads!Change(p) BY <1>2, <1>4 DEF Outside, Reads!Change
  <2> QED BY <2>1 DEF Reads!Next
<1>5. CASE Tick BY <1>2, <1>5 DEF Tick, Reads!vars
<1>6. CASE Finished \/ UNCHANGED vars BY <1>2, <1>6 DEF Finished, vars, Reads!vars
<1> QED BY <1>1, <1>3, <1>4, <1>5, <1>6 DEF Next

\* Whoever reads lists through the cache may reason with ListReads alone.
THEOREM CacheImplementsListReads == Spec => ImplementsListReads
<1>1. Init => Reads!Init
  BY DEF Init, Reads!Init, NoBody, Phases, PhaseOf, Results
<1>2. TypeOK /\ TypeOK' /\ FreshInv /\ FreshInv' /\ [Next]_vars => [Reads!Next]_(Reads!vars)
  BY StepSimulation
<1> QED BY <1>1, <1>2, TypeCorrect, FreshInvHolds, PTL DEF Spec, ImplementsListReads, Reads!Spec

(***************************************************************************)
(* Calls run out: a bound on the steps a call has left, which its own      *)
(* steps lower and nobody else's touch.                                    *)
(***************************************************************************)
ReadLeft(r) ==
    CASE rpc[r] = "idle" -> 6
      [] rpc[r] = "lookup" -> 5
      [] rpc[r] = "evict" -> 4
      [] rpc[r] = "snapshot" -> 3
      [] rpc[r] = "get" -> 2
      [] rpc[r] = "store" -> 1
      [] OTHER -> 0

\* Only a PATCH is sent again.
SendsOf(w) == IF w \in Patches THEN MaxSends ELSE 1

\* Every send is followed by its execution, and the last one by a return.
WriteLeft(w) ==
    CASE wpc[w] = "idle" -> 2 * SendsOf(w) + 1
      [] wpc[w] = "sent" -> 2 * (SendsOf(w) - sends[w]) + 2
      [] wpc[w] = "applied" -> 2 * (SendsOf(w) - sends[w]) + 1
      [] OTHER -> 0

\* A mutation that is under way has been sent at least once, and no more
\* often than the retry policy allows.
SendsBounded == \A w \in Writers : wpc[w] # "idle" => sends[w] \in 1 .. SendsOf(w)

LInv == TypeOK /\ SendsBounded

LEMMA SendsOfPositive == \A w \in Writers : SendsOf(w) \in Nat /\ SendsOf(w) >= 1
  BY DEF SendsOf

\* What another call does is not seen by this one's program counter.
LEMMA ReadMovesOne ==
    ASSUME TypeOK, NEW r \in Readers, Read(r)
    PROVE  /\ \A q \in Readers \ {r} : rpc'[q] = rpc[q]
           /\ ReadLeft(r)' < ReadLeft(r)
           /\ UNCHANGED <<wpc, sends>>
  <1> USE DEF TypeOK, Goto, ReadLeft, writerVars
  <1>1. CASE Begin(r) BY <1>1 DEF Begin
  <1>2. CASE Hit(r) BY <1>2 DEF Hit
  <1>3. CASE Miss(r) BY <1>3 DEF Miss
  <1>4. CASE Evict(r) BY <1>4 DEF Evict
  <1>5. CASE Snapshot(r) BY <1>5 DEF Snapshot
  <1>6. CASE Get(r) BY <1>6 DEF Get
  <1>7. CASE GetFails(r) BY <1>7 DEF GetFails
  <1>8. CASE Store(r) BY <1>8 DEF Store
  <1>9. QED BY <1>1, <1>2, <1>3, <1>4, <1>5, <1>6, <1>7, <1>8 DEF Read

LEMMA WriteMovesOne ==
    ASSUME LInv, NEW w \in Writers, Write(w)
    PROVE  /\ \A v \in Writers \ {w} : wpc'[v] = wpc[v] /\ sends'[v] = sends[v]
           /\ sends'[w] \in 1 .. SendsOf(w)
           /\ WriteLeft(w)' < WriteLeft(w)
           /\ UNCHANGED rpc
  <1> USE SendsOfPositive DEF LInv, TypeOK, SendsBounded, WriterGoto, WriteLeft, readerVars
  <1>1. CASE Send(w) BY <1>1 DEF Send
  <1>2. CASE Apply(w) BY <1>2 DEF Apply
  <1>3. CASE Refuse(w) BY <1>3 DEF Refuse
  <1>4. CASE Resend(w)
    <2>1. SendsOf(w) = MaxSends /\ sends[w] \in 1 .. MaxSends /\ sends'[w] = sends[w] + 1 /\ sends[w] < MaxSends
      BY <1>4 DEF Resend, SendsOf
    <2>2. wpc[w] = "applied" /\ wpc'[w] = "sent"
      BY <1>4 DEF Resend
    <2>3. QED
      BY <1>4, <2>1, <2>2 DEF Resend
  <1>5. CASE Lose(w) BY <1>5 DEF Lose
  <1>6. CASE Invalidate(w) BY <1>6 DEF Invalidate
  <1>7. QED BY <1>1, <1>2, <1>3, <1>4, <1>5, <1>6 DEF Write

\* A step is one call's, or no call's.
LEMMA OneMoves ==
    ASSUME LInv, [Next]_vars
    PROVE  \/ \E r \in Readers : Read(r)
           \/ \E w \in Writers : Write(w)
           \/ UNCHANGED <<rpc, wpc, sends>>
  <1> USE DEF vars, readerVars, writerVars
  <1>1. ASSUME NEW p \in Paths, Outside(p) PROVE UNCHANGED <<rpc, wpc, sends>>
    BY <1>1 DEF Outside
  <1>2. CASE Tick BY <1>2 DEF Tick
  <1>3. CASE Finished BY <1>3 DEF Finished
  <1>4. CASE UNCHANGED vars BY <1>4
  <1>5. QED BY <1>1, <1>2, <1>3, <1>4 DEF Next

LEMMA LInvHolds == Spec => []LInv
  <1>1. Init => SendsBounded
    BY DEF Init, SendsBounded
  <1>2. ASSUME LInv, [Next]_vars PROVE SendsBounded'
    <2>1. CASE \E w \in Writers : Write(w)
      <3>1. PICK w \in Writers : Write(w)
        BY <2>1
      <3>2. QED
        BY <1>2, <3>1, WriteMovesOne DEF LInv, SendsBounded, SendsOf
    <2>2. CASE UNCHANGED <<wpc, sends>>
      BY <1>2, <2>2 DEF LInv, SendsBounded, SendsOf
    <2>3. QED
      BY <1>2, <2>1, <2>2, OneMoves, ReadMovesOne DEF LInv
  <1>3. QED
    BY <1>1, <1>2, TypeCorrect, PTL DEF Spec, LInv

\* A call has steps left until it has returned, and a known number of them.
StepsLeft ==
    /\ \A r \in Readers : ReadLeft(r) \in 0 .. 6 /\ (ReadLeft(r) = 0 <=> rpc[r] \in {"done", "failed"})
    /\ \A w \in Writers : /\ WriteLeft(w) \in 0 .. 2 * SendsOf(w) + 1
                          /\ WriteLeft(w) = 0 <=> wpc[w] \in {"done", "failed"}

LEMMA LeftIsBounded == LInv => StepsLeft
  BY SendsOfPositive
  DEF LInv, TypeOK, SendsBounded, StepsLeft, ReadLeft, WriteLeft, ReaderPCs, WriterPCs

\* Its own steps use them up, and nobody gives it new ones.
Uses ==
    /\ \A r \in Readers : ReadLeft(r)' <= ReadLeft(r) /\ (Read(r) => ReadLeft(r)' < ReadLeft(r))
    /\ \A w \in Writers : WriteLeft(w)' <= WriteLeft(w) /\ (Write(w) => WriteLeft(w)' < WriteLeft(w))
RunsOut == [][Uses]_vars

LEMMA StepUses == ASSUME LInv, LInv', [Next]_vars PROVE Uses
  <1>1. \A r \in Readers : ReadLeft(r) \in Int /\ ReadLeft(r)' \in Int
    BY DEF ReadLeft
  <1>2. \A w \in Writers : WriteLeft(w) \in Int
    BY LeftIsBounded, SendsOfPositive DEF StepsLeft
  <1>3. \A r \in Readers : rpc'[r] = rpc[r] => ReadLeft(r)' <= ReadLeft(r)
    BY <1>1 DEF ReadLeft
  <1>4. \A w \in Writers : wpc'[w] = wpc[w] /\ sends'[w] = sends[w] => WriteLeft(w)' <= WriteLeft(w)
    BY <1>2 DEF WriteLeft, SendsOf
  <1>5. ASSUME NEW r \in Readers, Read(r)
        PROVE  ReadLeft(r)' < ReadLeft(r) /\ UNCHANGED <<wpc, sends>>
               /\ \A q \in Readers : ReadLeft(q)' <= ReadLeft(q)
    BY <1>1, <1>3, <1>5, ReadMovesOne DEF LInv
  <1>6. ASSUME NEW w \in Writers, Write(w)
        PROVE  WriteLeft(w)' < WriteLeft(w) /\ UNCHANGED rpc
               /\ \A v \in Writers : WriteLeft(v)' <= WriteLeft(v)
    <2>1. WriteLeft(w)' < WriteLeft(w) /\ UNCHANGED rpc
          /\ \A v \in Writers \ {w} : wpc'[v] = wpc[v] /\ sends'[v] = sends[v]
      BY <1>6, WriteMovesOne
    <2>2. WriteLeft(w)' \in Int
      BY <1>6, WriteMovesOne, SendsOfPositive DEF WriteLeft, SendsOf
    <2>3. QED
      BY <1>2, <1>4, <2>1, <2>2
  <1>7. CASE \E r \in Readers : Read(r)
    <2>1. \A w \in Writers : ~Write(w) \/ WriteLeft(w)' < WriteLeft(w)
      BY <1>6
    <2>2. QED
      BY <1>4, <1>5, <1>7, <2>1 DEF Uses
  <1>8. CASE \E w \in Writers : Write(w)
    BY <1>3, <1>5, <1>6, <1>8 DEF Uses
  <1>9. CASE UNCHANGED <<rpc, wpc, sends>>
    BY <1>3, <1>4, <1>5, <1>6, <1>9 DEF Uses
  <1>10. QED
    BY <1>7, <1>8, <1>9, OneMoves

\* What EveryCallReturns rests on: a list call returns after at most six
\* steps of its own and a mutation after at most two for every send and one,
\* whatever the cache does to them in between. An entry that cannot be
\* decoded is looked up once.
THEOREM ListCallsRunOut == Spec => RunsOut /\ []StepsLeft
  <1>1. LInv /\ LInv' /\ [Next]_vars => [Uses]_vars
    BY StepUses
  <1>2. LInv => StepsLeft
    BY LeftIsBounded
  <1>3. QED
    BY <1>1, <1>2, LInvHolds, PTL DEF Spec, RunsOut
=============================================================================
