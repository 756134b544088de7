------------------------------ MODULE ListCache ------------------------------
(***************************************************************************)
(* The short-lived list cache of the API client                            *)
(* (internal/client/client.go: listCache, doCachedList) with the mutating  *)
(* calls that invalidate it. Terraform walks many resources at once, so    *)
(* list calls and mutations of one parent interleave freely; every access  *)
(* to the cache holds its mutex and is one step here, and whatever the     *)
(* code does between two lock regions may be overtaken.                    *)
(*                                                                         *)
(* A list body is abstracted to the version of the list it shows and the   *)
(* instant the server produced it.                                         *)
(***************************************************************************)
EXTENDS Integers

CONSTANTS
    Paths,       \* list endpoints, the keys of the cache
    Readers,     \* doCachedList calls
    Mistyped,    \* the readers whose result type cannot decode the body
    Writers,     \* mutating calls that invalidate a path on success
    Patches,     \* the writers the retry policy may send again (PATCH)
    PathOf,      \* the list endpoint a reader reads or a writer invalidates
    NoEntry,     \* no cache entry under a path
    TTL,         \* listCacheTTL
    MaxDelay,    \* bound on the time between a server's answer and set
    MaxTime,     \* bound: the clock stops here
    MaxOutside,  \* bound: changes other clients make to a path
    MaxSends     \* RetryMax + 1, sends of one PATCH

ASSUME CallsAssumption ==
    /\ Mistyped \subseteq Readers
    /\ Patches \subseteq Writers
    /\ PathOf \in [Readers \cup Writers -> Paths]

ASSUME BoundsAssumption ==
    /\ TTL \in Nat /\ MaxDelay \in Nat /\ MaxTime \in Nat
    /\ MaxOutside \in Nat /\ MaxSends \in Nat \ {0}

VARIABLES
    now,       \* time.Now()
    version,   \* version[p]: changes the server has applied to the list at p
    outside,   \* outside[p]: how many of them other clients made
    entries,   \* listCache.entries
    gens,      \* listCache.gens, 0 for a path not in the map
    rpc,       \* where a doCachedList call is
    gen,       \* its local gen
    body,      \* the body it decoded or received
    wpc,       \* where a mutating call is
    sends,     \* how often it has been sent
    wver,      \* the version of the list its last application made
    acked,     \* history: newest version whose mutation was acknowledged
    floor,     \* history: acked when the reader's call began
    begun      \* history: the clock when the reader's call began

serverVars == <<version, outside>>
cacheVars == <<entries, gens>>
readerVars == <<rpc, gen, body, floor, begun>>
writerVars == <<wpc, sends, wver, acked>>
vars == <<now, serverVars, cacheVars, readerVars, writerVars>>

Body == [ver : Nat, asOf : Nat]
Entry == [ver : Nat, asOf : Nat, expires : Nat]
NoBody == [ver |-> 0, asOf |-> 0]
ReaderPCs == {"idle", "lookup", "evict", "snapshot", "get", "store", "done", "failed"}
WriterPCs == {"idle", "sent", "applied", "done", "failed"}

Larger(a, b) == IF a >= b THEN a ELSE b

Init ==
    /\ now = 0
    /\ version = [p \in Paths |-> 0]
    /\ outside = [p \in Paths |-> 0]
    /\ entries = [p \in Paths |-> NoEntry]
    /\ gens = [p \in Paths |-> 0]
    /\ rpc = [r \in Readers |-> "idle"]
    /\ gen = [r \in Readers |-> 0]
    /\ body = [r \in Readers |-> NoBody]
    /\ floor = [r \in Readers |-> 0]
    /\ begun = [r \in Readers |-> 0]
    /\ wpc = [w \in Writers |-> "idle"]
    /\ sends = [w \in Writers |-> 0]
    /\ wver = [w \in Writers |-> 0]
    /\ acked = [p \in Paths |-> 0]

(***************************************************************************)
(* The operations of listCache, each under its mutex.                      *)
(***************************************************************************)

\* A broken variant for the mutation checks: the expiry is never looked at.
LiveForever(p) == entries[p] # NoEntry

\* An entry answers while the clock has not passed its expiry.
Live(p) == entries[p] # NoEntry /\ now <= entries[p].expires

\* get on an entry that is missing or expired deletes it.
Forget(p) == entries' = [entries EXCEPT ![p] = NoEntry]

\* Broken variants: the expiry computed backwards; the generation not compared.
SetEntryBackdated(p, b, g) ==
    entries' = IF gens[p] = g
               THEN [entries EXCEPT ![p] = [ver |-> b.ver, asOf |-> b.asOf, expires |-> now - TTL]]
               ELSE entries

SetEntryAnyGeneration(p, b, g) ==
    entries' = [entries EXCEPT ![p] = [ver |-> b.ver, asOf |-> b.asOf, expires |-> now + TTL]]

\* set, ignored when an invalidate came between snapshot and set.
SetEntry(p, b, g) ==
    entries' = IF gens[p] = g
               THEN [entries EXCEPT ![p] = [ver |-> b.ver, asOf |-> b.asOf, expires |-> now + TTL]]
               ELSE entries

\* A broken variant: the entry goes, the generation stays.
InvalidateKeepingGeneration(p) ==
    /\ UNCHANGED gens
    /\ entries' = [entries EXCEPT ![p] = NoEntry]

InvalidateEntry(p) ==
    /\ gens' = [gens EXCEPT ![p] = @ + 1]
    /\ entries' = [entries EXCEPT ![p] = NoEntry]

(***************************************************************************)
(* doCachedList.                                                           *)
(***************************************************************************)
Goto(r, pc) == rpc' = [rpc EXCEPT ![r] = pc]

Begin(r) ==
    /\ rpc[r] = "idle"
    /\ Goto(r, "lookup")
    /\ floor' = [floor EXCEPT ![r] = acked[PathOf[r]]]
    /\ begun' = [begun EXCEPT ![r] = now]
    /\ UNCHANGED <<now, serverVars, cacheVars, gen, body, writerVars>>

Hit(r) ==
    /\ rpc[r] = "lookup"
    /\ Live(PathOf[r])
    /\ IF r \in Mistyped
       THEN Goto(r, "evict") /\ UNCHANGED body
       ELSE /\ Goto(r, "done")
            /\ body' = [body EXCEPT ![r] = [ver |-> entries[PathOf[r]].ver, asOf |-> entries[PathOf[r]].asOf]]
    /\ UNCHANGED <<now, serverVars, cacheVars, gen, floor, begun, writerVars>>

Miss(r) ==
    /\ rpc[r] = "lookup"
    /\ ~Live(PathOf[r])
    /\ Forget(PathOf[r])
    /\ Goto(r, "snapshot")
    /\ UNCHANGED <<now, serverVars, gens, gen, body, floor, begun, writerVars>>

\* A broken variant: look again without throwing the entry away.
EvictByLookingAgain(r) ==
    /\ rpc[r] = "evict"
    /\ Goto(r, "lookup")
    /\ UNCHANGED <<now, serverVars, cacheVars, gen, body, floor, begun, writerVars>>

\* A cached body the result type cannot decode is thrown away for everyone.
Evict(r) ==
    /\ rpc[r] = "evict"
    /\ InvalidateEntry(PathOf[r])
    /\ Goto(r, "snapshot")
    /\ UNCHANGED <<now, serverVars, gen, body, floor, begun, writerVars>>

Snapshot(r) ==
    /\ rpc[r] = "snapshot"
    /\ gen' = [gen EXCEPT ![r] = gens[PathOf[r]]]
    /\ Goto(r, "get")
    /\ UNCHANGED <<now, serverVars, cacheVars, body, floor, begun, writerVars>>

\* The server answers the GET; from here the answer only travels.
Get(r) ==
    /\ rpc[r] = "get"
    /\ body' = [body EXCEPT ![r] = [ver |-> version[PathOf[r]], asOf |-> now]]
    /\ Goto(r, "store")
    /\ UNCHANGED <<now, serverVars, cacheVars, gen, floor, begun, writerVars>>

\* Transport error, 404, any status outside 2xx, or a cancelled context.
GetFails(r) ==
    /\ rpc[r] \in {"get", "store"}
    /\ Goto(r, "failed")
    /\ UNCHANGED <<now, serverVars, cacheVars, gen, body, floor, begun, writerVars>>

\* A broken variant: the generation is read when storing, not before the GET.
StoreWithFreshGeneration(r) ==
    /\ rpc[r] = "store"
    /\ r \notin Mistyped
    /\ SetEntry(PathOf[r], body[r], gens[PathOf[r]])
    /\ Goto(r, "done")
    /\ UNCHANGED <<now, serverVars, gens, gen, body, floor, begun, writerVars>>

\* Only a body that was decoded is cached.
Store(r) ==
    /\ rpc[r] = "store"
    /\ r \notin Mistyped
    /\ SetEntry(PathOf[r], body[r], gen[r])
    /\ Goto(r, "done")
    /\ UNCHANGED <<now, serverVars, gens, gen, body, floor, begun, writerVars>>

(***************************************************************************)
(* A mutating call: CreateEnvVar, UpdateStorage, DeleteTag and their like. *)
(***************************************************************************)
WriterGoto(w, pc) == wpc' = [wpc EXCEPT ![w] = pc]

Send(w) ==
    /\ wpc[w] = "idle"
    /\ WriterGoto(w, "sent")
    /\ sends' = [sends EXCEPT ![w] = 1]
    /\ UNCHANGED <<now, serverVars, cacheVars, readerVars, wver, acked>>

Apply(w) ==
    /\ wpc[w] = "sent"
    /\ version' = [version EXCEPT ![PathOf[w]] = @ + 1]
    /\ wver' = [wver EXCEPT ![w] = version[PathOf[w]] + 1]
    /\ WriterGoto(w, "applied")
    /\ UNCHANGED <<now, outside, cacheVars, readerVars, sends, acked>>

\* The request never takes effect and the call returns an error.
Refuse(w) ==
    /\ wpc[w] = "sent"
    /\ WriterGoto(w, "failed")
    /\ UNCHANGED <<now, serverVars, cacheVars, readerVars, sends, wver, acked>>

\* The retry policy sends a PATCH again whose answer was lost or a 5xx.
Resend(w) ==
    /\ w \in Patches
    /\ wpc[w] = "applied"
    /\ sends[w] < MaxSends
    /\ sends' = [sends EXCEPT ![w] = @ + 1]
    /\ WriterGoto(w, "sent")
    /\ UNCHANGED <<now, serverVars, cacheVars, readerVars, wver, acked>>

\* The change is on the server but its answer is lost, has another status
\* than the expected one, or cannot be decoded: an error, and no invalidate.
Lose(w) ==
    /\ wpc[w] = "applied"
    /\ WriterGoto(w, "failed")
    /\ UNCHANGED <<now, serverVars, cacheVars, readerVars, sends, wver, acked>>

\* The call succeeded: invalidate, then return.
Invalidate(w) ==
    /\ wpc[w] = "applied"
    /\ InvalidateEntry(PathOf[w])
    /\ WriterGoto(w, "done")
    /\ acked' = [acked EXCEPT ![PathOf[w]] = Larger(@, wver[w])]
    /\ UNCHANGED <<now, serverVars, readerVars, sends, wver>>

(***************************************************************************)
(* The environment.                                                        *)
(***************************************************************************)

\* The Coolify dashboard, or another endpoint, changes the list.
Outside(p) ==
    /\ outside[p] < MaxOutside
    /\ outside' = [outside EXCEPT ![p] = @ + 1]
    /\ version' = [version EXCEPT ![p] = @ + 1]
    /\ UNCHANGED <<now, cacheVars, readerVars, writerVars>>

\* A reader that has its answer reaches set within MaxDelay.
Tick ==
    /\ now < MaxTime
    /\ \A r \in Readers : rpc[r] = "store" => now < body[r].asOf + MaxDelay
    /\ now' = now + 1
    /\ UNCHANGED <<serverVars, cacheVars, readerVars, writerVars>>

Returned ==
    /\ \A r \in Readers : rpc[r] \in {"done", "failed"}
    /\ \A w \in Writers : wpc[w] \in {"done", "failed"}

\* Every call has returned; the provider process may exit.
Finished == Returned /\ UNCHANGED vars

Read(r) ==
    Begin(r) \/ Hit(r) \/ Miss(r) \/ Evict(r) \/ Snapshot(r) \/ Get(r) \/ GetFails(r) \/ Store(r)

Write(w) ==
    Send(w) \/ Apply(w) \/ Refuse(w) \/ Resend(w) \/ Lose(w) \/ Invalidate(w)

Next ==
    \/ \E r \in Readers : Read(r)
    \/ \E w \in Writers : Write(w)
    \/ \E p \in Paths : Outside(p)
    \/ Tick
    \/ Finished

Spec == Init /\ [][Next]_vars

\* Every goroutine keeps running and the HTTP client bounds every request.
FairSpec ==
    /\ Spec
    /\ \A r \in Readers : WF_vars(Read(r))
    /\ \A w \in Writers : WF_vars(Write(w))

(***************************************************************************)
(* Properties.                                                             *)
(***************************************************************************)

\* Type correctness: expiry instants, generations and bodies stay in their
\* domains whatever calls interleave.
TypeOK ==
    /\ now \in Nat
    /\ version \in [Paths -> Nat]
    /\ outside \in [Paths -> Nat]
    /\ entries \in [Paths -> Entry \cup {NoEntry}]
    /\ gens \in [Paths -> Nat]
    /\ rpc \in [Readers -> ReaderPCs]
    /\ gen \in [Readers -> Nat]
    /\ body \in [Readers -> Body]
    /\ floor \in [Readers -> Nat]
    /\ begun \in [Readers -> Nat]
    /\ wpc \in [Writers -> WriterPCs]
    /\ sends \in [Writers -> Nat]
    /\ wver \in [Writers -> Nat]
    /\ acked \in [Paths -> Nat]

\* An entry never shows a list older than a mutation this client has seen
\* succeed: an in-flight GET cannot refill the cache after an invalidate
\* (the comment on listCache.set).
CacheHoldsAcknowledged ==
    \A p \in Paths : entries[p] # NoEntry => entries[p].ver >= acked[p]

\* Read your writes: a list call that succeeds shows every mutation that was
\* acknowledged before it began, whether it was answered by the cache or by
\* the server (doCachedList against CreateEnvVar, UpdateStorage, ...).
ReadYourWrites ==
    \A r \in Readers : rpc[r] = "done" => body[r].ver >= floor[r]

\* A change whose answer was lost, or that somebody else made, is hidden for
\* a bounded time: what a call returns was the server's list no longer than
\* TTL + MaxDelay before the call began (get and set).
StalenessBounded ==
    \A r \in Readers : rpc[r] = "done" => begun[r] <= body[r].asOf + TTL + MaxDelay

\* Every call returns: throwing an undecodable entry away never makes
\* doCachedList look it up again.
EveryCallReturns ==
    /\ \A r \in Readers : <>(rpc[r] \in {"done", "failed"})
    /\ \A w \in Writers : <>(wpc[w] \in {"done", "failed"})

\* What a caller can see of a list call.
PhaseOf(pc) ==
    IF pc = "done" THEN "answered" ELSE IF pc \in {"idle", "failed"} THEN pc ELSE "reading"
Phases == [r \in Readers |-> PhaseOf(rpc[r])]
Results == [r \in Readers |-> IF rpc[r] = "done" THEN body[r].ver ELSE 0]

Reads == INSTANCE ListReads WITH phase <- Phases, result <- Results

\* The cache keeps the promise of ListReads: generations, expiry, evictions
\* and refills are invisible to its callers.
ImplementsListReads == Reads!Spec
=============================================================================
