# TLA+ models of terraform-provider-coolify

This directory holds specifications of the provider's core logic: the HTTP
client that sends one call, the list cache that many resources share, the CRUD
handlers that create, track, update and destroy an object whose server loses
answers, the way every attribute of every resource travels between
configuration, state and server, and the deployment resource among everybody
else's deployments. TLC checks them on small instances (the `MC*` modules and
`.cfg` files); TLAPS proves the most important properties for every instance
(the `*Proofs` modules). All source paths below are relative to `src/`.

## 1. The system

Terraform core runs the provider as a child process. For each `coolify_*`
resource it refreshes the state (Read), plans, and applies (Create, Update,
Delete), with up to ten resources at a time. A handler is a sequence of REST
calls to a Coolify server through one shared `client.Client`.

| Part | Where | State it keeps | Operations |
|---|---|---|---|
| HTTP calls | `internal/client/client.go` `New`, `do`, `doWithStatus`, `shouldRetry` | one call's attempts (in `retryablehttp`) | send, retry, time out, classify the answer |
| List cache | `client.go` `listCache`, `doCachedList` | entries with expiry, a generation per path, one mutex | get, generation, set, invalidate; used by env vars, storages, tags, scheduled tasks, backups, GitHub and GitLab apps, shared env vars |
| Deletion helpers | `client.go` `RetryDelete`, `PollUntilDeleted` | a deadline and a delay | retry a refused DELETE, poll until 404 |
| Object resources | `internal/service/*/resource.go`: 5 applications, 9 databases, 5 servers, services, projects, keys, tokens, storages, backups, tasks, variables, tags, GitHub and GitLab apps, ... (35) | Terraform's state of the object (its UUID and attributes) | Create, Read, Update, Delete, ImportState |
| Name-keyed resource | `service/environment` | a name | the same |
| Settings of something else | `service/notification*`, `instanceemail`, `serverproxy`, `serversentinel`, `serverlogdrain`, `serverdockercleanup`, `serverregistry`, `servercftunnel`, `serviceapplication` | attributes | Create and Update are one PATCH; Delete switches off or forgets |
| Upserts | `service/volumebackup`, `envsbulk`, `applicationpreview` | attributes | one PUT or PATCH, Read of little or nothing |
| Deployments | `service/deployment`, `client/deployments.go` | a deployment's UUID and status | POST, confirm, adopt from a list, poll |
| Attachments | `service/resourcetag`, `applicationdestination` | a pair, no object | attach, list, detach |
| One-shot actions | `service/resourceaction`, `backupexecution`, `*validate` | what was asked for | one call |
| API settings | `service/apisettings`, `client.APIEnableRouteAvailable` | two switches, one probed bit under a mutex | probe, enable, disable |
| Version gates | `client/version.go`, `application/version_gated_writes.go` | server version | withhold, warn, keep |
| Attribute conversion | `internal/flex`, the schemas, request builders and `flatten*` functions of every resource | none | plan, send, read back |
| Provider configuration | `internal/provider/provider.go` | none after Configure | build the client |
| Validators, filters, data sources | `internal/validate`, `filter`, `*/data_source*.go` | none | pure, read-only |

Interaction: handlers call the client; mutating calls invalidate lists that
other handlers' Reads are served from; Terraform keeps what a handler put in
its response, also when the handler failed, and taints it if that was Create;
the server works on deletions in a job of its own and is changed by other
clients.

What is hard about it:

- *Interleaving and atomicity*: the cache is read under one lock and written
  under another, with a whole HTTP call in between.
- *Unreliable delivery*: a timed-out request may have been executed, may be
  executed later, and PATCH and GET are sent again.
- *Partial failure*: a handler is three to five calls; each can fail after the
  earlier ones took effect, and the next run starts from what was saved.
- *Timeouts and retries*: the operation's deadline, the attempt's timeout,
  retries, throttling, deletion jobs slower than the poll.
- *Several copies of one value*: an attribute is in the configuration, the
  state, the plan, the request, the answer and the server, and a dozen idioms
  decide which of them wins when one is null, unknown, empty, hidden or
  withheld. Terraform refuses an answer that is not what was planned.
- *Other people's work*: a deployment is asked for by UUID of its application
  and found again in a list that others change.
- *Liveness*: "run terraform apply again" has to converge from every state
  the handlers can leave behind.

What makes each part correct: the cache answers with nothing older than an
acknowledged mutation and hides nothing for longer than its lifetime; a call
that is not idempotent is executed at most once and its retries are bounded;
an acknowledged object is always tracked, is only forgotten when it is gone, a
success means that server, state and configuration agree, and applying again
ends in that agreement; an attribute is applied as planned, settles, and is
left alone by changes of others; what is reported as deployed was deployed, and
not before it was asked for. The hazards behind these properties are listed with
their source lines in `PROJECT.json`.

## 2. The modules

| Module | What it is |
|---|---|
| `ListReads` | abstract specification: what a list call promises to its caller |
| `ListCache` | the cache, `doCachedList` and the mutating calls; implements `ListReads` |
| `ListCacheProofs` | theorems about `ListCache` |
| `ApiCalls` | abstract specification: what the outcome of a call says about what was executed |
| `HttpCall` | one API call at a time: attempts, retry policy, classification; implements `ApiCalls` |
| `HttpCallProofs` | theorems about `HttpCall` |
| `ResourcePrograms` | the 35 resources' handlers as programs of a small vocabulary of steps |
| `ManagedObject` | abstract specification: which object a resource owns, deletes and lets go of |
| `ResourceLifecycle` | the meaning of the steps, Terraform core around them, the server beneath them; implements `ManagedObject` |
| `ResourceLifecycleProofs`, `ResourceAppliedProofs` | theorems about `ResourceLifecycle` |
| `Environments` | the environments of one project: resources keyed by a name they may change, applied side by side |
| `EnvironmentsProofs`, `EnvironmentsAppliedProofs` | theorems about `Environments` |
| `Codecs` | how an attribute is planned, sent and read back: the vocabulary of the provider's idioms, and what a resource is made of |
| `TeamAttributes`, `ChildAttributes`, `ApplicationAttributes`, `DatabaseAttributes`, `ServerAttributes`, `ServiceAttributes`, `NotificationAttributes` | the schemas, requests and flatten functions of 54 resources as tables over that vocabulary |
| `Attributes` | one attribute in the hands of Terraform core, the handlers, Coolify, the user and everybody else |
| `AttributeRules` | the contract of a table's row: what it must do with one value in one request and one answer |
| `AttributesProofs` | theorems about `Attributes`, for every table whose rows keep the contract |
| `Deployments` | the deployment resources of one application, its queue, and everybody else who deploys it |
| `DeploymentsProofs` | theorems about `Deployments` |
| `MC*` | instances for TLC |

### HttpCall

One action per thing `retryablehttp` and `doWithStatus` do with a call:
`Begin`, `Send` (an attempt leaves), `TimeOut` (the attempt's own timeout, the
context, a broken connection: the request may be on its way), `CannotSend`,
`Retry`/`Conclude` (`shouldRetry` and the attempt bound decide), `WakeUp` and
`CutShort` (the backoff ends, or the context ends it). `wire` is the set of
attempts that may still reach the server, so an attempt of the first call can
be executed during the second. `Execute` and `Decline` are the server;
`GatewayTimeout` is a proxy that answers for it. `ResultOf` is the
classification of `doWithStatus` and `retriesExhaustedHandler`: `mismatch` is
another 2xx than expected or a body that does not decode, `status` an
`APIStatusError` below 500, `broken` one from 500 on, `exhausted` an error
wrapped in `ErrRetriesExhausted`.

Abstracted: bodies, headers, redirects and TLS (a failure that the default
policy never retries is `permanent`), the length of the backoff. Assumed of
the server: a 429 means the request was not executed, which is what a throttle
in front of the handlers does and what the policy of retrying 429 for POST
rests on.

`ApiCalls` has no attempts, timeouts or network. `Execute` is the server: a
call that is not idempotent once and never after its outcome is known, a GET or
a PATCH as often as it may be sent and however late. `Return` gives an outcome:
a success only of a call that was executed, a refusal of a POST, PUT or DELETE
only of one that was not, and an open outcome (`broken`, `exhausted`) of any.
This is what the other models take a call to be: answered, refused with nothing
done, or lost. `ImplementsApiCalls` maps the calls begun so far (`Begun`) and
`RetryMax + 1` sends (`Attempts + 1`); methods, results and executions are the
same variables.

### ListCache

Each lock region of `listCache` is one step: `Hit`/`Miss` (get, which deletes
an expired entry), `Snapshot` (generation), `Store` (set, ignored when the
generation moved), `Evict` and `Invalidate` (invalidate). Between them run the
other goroutines, the server and the clock. A list body is abstracted to the
version of the list it shows and the instant it was produced; a reader whose
result type cannot decode the body is in `Mistyped`. A writer is any of the
mutating client methods, which all have the shape "call, return on error,
invalidate"; `Lose` is the answer that never arrives, and `Resend` the PATCH
that is applied again.

`ListReads` has no cache: `Answer` returns some version between the newest
acknowledged mutation at `Begin` and the server's current one.
`ImplementsListReads` maps phases and results and is both checked and proved.

### ResourcePrograms and ResourceLifecycle

A handler is a sequence of steps, and the 35 resources share a vocabulary of
17. `ResourcePrograms` writes each resource down as a record of four
sequences, in the order of its code; the comment at its head defines the
steps. For example an application's Create is
`<<"post", "save", "extend", "get", "save">>`: POST, `State.Set` of the
partial state, a PATCH for what POST does not accept, a GET, `State.Set`. Two
resources with equal records have the same control flow and count once in
`AllPrograms`. Applications are those with `redeploy_on_update`; without it
they update like databases.

`ResourceLifecycle` runs one such resource:

- `doing`, `pc`, `id`, `view`, `resp` are the running handler: its program
  counter, the UUID and the model it works on, and the state saved in its
  response. `view` is the plan in Create and Update until a read replaces it.
- `config`, `state`, `outcome` are Terraform core: `Refresh`, then `Create`,
  `Update`, `Destroy` (also of what is tainted, followed by a create) or
  `NoChanges`; `ReturnError` keeps the response's state and taints it when the
  handler was Create.
- `objects`, `known` are the server. An object is its two attribute values,
  one that POST accepts and one that only PATCH accepts, whether its deletion
  job is pending, and whether its containers run an older configuration.
- Each call of a step can be answered, refused with nothing done (`Refused`,
  `WriteRefused`), or lost after it took effect (`PostLost`, `WriteLost`,
  `DeleteLost`); 404 has its own actions. The server removes objects in its
  own time, others edit and delete behind Terraform's back, and the user edits
  the configuration between applies.

Several faults of one handler kind are one action because the handler does the
same: an undecodable body, an unexpected status and a lost answer are all
"done, and an error".

`ManagedObject` has neither handlers nor calls: a resource owns one object at a
time; it may `Adopt` an object that is new to it when it owns none, `Condemn`
the one it owns, and `Disown` it when it is gone, or when its deletion has
begun and the kind does not poll; the server makes objects `Vanish`. The
mapping takes as owned what the state names or what the running Create was
answered (`Owned`), as doomed the objects whose DELETE was accepted (`Doomed`),
and as waiting the kinds that poll (`Polls`). `ImplementsManagedObject` is
stronger than `ForgetsOnlyWhatIsGone`: it also excludes that a handler takes
over, or deletes, an object that is not its own.

### Environments

`ResourceLifecycle` follows one resource whose key the server chose.
`coolify_environment` is the resource that this leaves out: GET, PATCH and
DELETE address it by the name in the state, and an update may PATCH the name
itself. So the module has several resources, the unique names of one project,
and Terraform's concurrency: `Begin` starts an apply, `Read` refreshes every
resource before the first handler starts (`Todo`), and from there the handlers
interleave call by call. `Post` is POST with the partial save, `Get` the
read-back, `Describe` the PATCH of a description that POST does not accept,
`Update` the one PATCH of name and description by the old name, `Delete` the
DELETE. Each can be refused, and `PostLost`, `DescribeLost`, `UpdateLost` and
`DeleteLost` take effect without an answer. A rename whose first attempt timed
out and whose retry meets a 404 is an `UpdateLost`.

`owner` and `lost` are history: whose POST an environment answered, and which
kinds of writes went unanswered; a description that a PATCH cleared is a kind
of its own (`Cleared`), because Read cannot see that it has gone. `Init` has the project's own `production`
environment, which nobody manages. A description that is null in the state
counts as empty. Assumed of the server: it refuses a second environment of the
same name (409 of the POST, `testdata/specs/coolify-v4.json`), in a rename
also.

### Codecs, the attribute tables and Attributes

`ResourceLifecycle` knows two attributes of an object. The provider's
resources have over 1800, and most of its code is about them. `Codecs` names the idioms:

- 19 *readings*: what a flatten function makes of the field of an answer and of
  what the handler held before (`flex.StringFromAPI` is `FromAPI`,
  `types.StringValue` is `Direct`, ...). A field that is missing, null or `""`
  is one thing, "empty", because the client's structs cannot tell them apart;
- 9 *sendings*: when a request carries the attribute, and as what
  (`flex.StringPtrForUpdate` is `ForUpdate`, a field without `omitempty` is
  `Always`, ...);
- 9 *kinds* of plans: required, optional, computed, default,
  `UseStateForUnknown`, outputs, with replacement, secrecy and who else changes
  the value.

Values are `"a"` and `"b"` (two that a user may write), `"default"`, `"empty"`,
and Terraform's `"null"` and `"unknown"`. A table is one source function, from
attribute to idiom; `@@` joins tables where the code calls one function after
another, the left one winning. A resource is a record of tables and of sets
(what is version-gated, warned of, restarts, is reset by a PUT, ...). A *flow*
is the row of one attribute through all tables of its resource; attributes that
the provider treats alike are one flow, so the attributes of 54 resources
(in 57 records: some resources behave in two ways) make a set of 222 that TLC
enumerates.

`Attributes` has one flow and the steps of `terraform apply`: `Refresh` (Read),
`PlanChanges` (the schema's plan modifiers and `ModifyPlan`), `Create` (POST
and the late PATCH), `Update`, `Destroy`, `NoChanges`, `Import`, and Terraform
core's check of the answer against the plan (`Conclude`). `others` says that
another attribute of the resource changes: that is what runs the handlers over
an attribute that does not. `Fault` is a request refused or executed without
its answer, `DestroyWarns` a Delete that failed and only warned (`apisettings`),
`Outside` and `Vanish` a change and a deletion in the dashboard,
`old` a Coolify before the attribute, `hides` a token that may not read
secrets. What Coolify stores when it is not sent (`Untouched`) is an assumption
about the server that the schema's defaults and the flatten functions imply.

`AttributeRules` says when a row is right without speaking of behaviours. Each
rule is a finite formula about one handler: `KeepsPlans` that the answer to a
Create or an Update gives back what was planned, `Settles` that Read does,
`Tracks` that what is saved is what Coolify holds, `Serves` that what is
configured is carried by some request, `Admits` that a state of null is either
true or overlooked by Read, `Recognises` that an import does not lose what a
change would replace, and so on. `Sound` is all of them, and `RowsAreSound`
says it of the row that is running. What a handler may meet is not guessed:
`Contents` is what Coolify may hold, `Sights` what a state may say together
with the answer it was read from, `Nexts` what may then be planned.

### Deployments

`coolify_deployment` of one application, call by call: `Post`, `Confirm` (the
GET of the answered UUID), `List` (`LatestApplicationDeploymentUUID` and
`pickDeploymentUUID`), `Saved`, `Status`, `PollOn`/`PollEnds`/`PollFails`, and
`Expire`, the timeout of the context at any moment. The server is the sequence
of the application's deployments with their commits and statuses; `Run`,
`Finish`, `Cancel`, `Push` and `OutsideDeploy` are Coolify and other people. A
POST for a commit whose deployment is in flight already may be answered without
a UUID or with one that was never stored (the comments of `DeployApplication`
and `resolveDeploymentUUID` say when). The status `error` counts as `failed`.
`asked` and `over` are history: the newest commit and the ended deployments
when the POST was made.

## 3. The runs

| Run | Shows | Bounds |
|---|---|---|
| `list_cache_races` | `CacheHoldsAcknowledged`, `ReadYourWrites`, `EveryCallReturns`, `ImplementsListReads` | 3 readers (one mistyped), a PATCH that may be applied twice, 1 path, no clock |
| `list_cache_time` | `TypeOK`, `StalenessBounded` | 2 readers, 1 writer, 1 outside change, TTL 2, delay 1, 6 ticks |
| `http_call` | `TypeOK`, `AtMostOnce`, `RetriesBounded`, `AnsweredIsSettled`, `ImplementsApiCalls`, `EveryCallReturns` | 2 calls of all 25 pairs of methods, `RetryMax` 2 |
| `resource_lifecycle` | `TypeOK`, `AcknowledgedIsTracked`, `SuccessMeansApplied`, `ImplementsManagedObject`, `Converges` | all programs, 2 UUIDs, 2 values of each attribute, 1 fault, 1 edit, 1 outside change |
| `environments` | `TypeOK`, `NameLeadsToOwn`, `NoSharedEnvironment`, `SuccessMeansApplied`, `OnlyOwnIsTouched`, `RenameKeepsUUID` | 2 resources, 3 names with `production`, 4 UUIDs, 2 faults, 2 edits |
| `attributes` | `TypeOK`, `AppliedAsPlanned`, `AppliedSettles`, `ConfiguredIsServed`, `RemovalIsHonest`, `ImportKeeps`, `WithheldIsAnnounced`, `RowsAreSound`, `UnchangedIsLeft`, `ChangeRestarts`, `LeftOpenIsLeft`, `DestroyedIsOff` | the 222 flows of 54 resources, all but those named in section 5, 1 fault, 1 edit, 1 outside change |
| `deployments` | `TypeOK`, `DeployedIsFinished`, `SuccessIsNotOld`, `DeploysNoOlder`, `EveryCreateReturns` | 1 resource and outsiders, 3 deployments, 2 commits, 1 fault, 1 edit |
| `retry_max_zero` | `RetriesBounded` is violated with `retry_max = 0` | `RetryMax` 0 |
| `restart_after_update` | `UpdatedIsRestarted` is violated | one application, 1 fault, 1 edit |
| `recovered_create` | `RecoveredIsNotTainted` is violated | one database, 1 fault |
| `imported_schedule` | `AppliedAsPlanned` is violated by an imported volume backup | its flows, nothing goes wrong |
| `cloudwatch_drain` | `DestroyedIsOff` is violated by a log drain | its flow, nothing goes wrong |

Why the bounds are enough to be interesting. Keys of the cache never meet in
one operation, so one path has all the races; a writer whose PATCH is applied
twice and two decoding readers are what it takes for a stale body to be stored
over an invalidate and be read by a third call. Two calls are what it takes for
an attempt to land during a later call, two retries for a retry after a retry.
One fault in the lifecycle fails any call of any handler, and the second UUID
is for the object that replaces what it left; the values are two each, so that
a change and its reversal exist. The proofs cover any number of all of these.

In `environments` two resources and two free names are what it takes to hand a
name over, to exchange names and to collide; with `production` three names are
in use at most, so a fourth UUID is always free. Two edits are a change and
its reversal, which is how the description that Read keeps comes to matter: a
PATCH clears it, the answer is lost, and the same apply again must clear it
again, because the state still has it. `SuccessMeansApplied` says so, and
excepts the reversal only: the old description, configured once more after the
lost PATCH (`Cleared`), equals the one that the state has kept, and the empty
plan leaves Coolify without it. Without that exception TLC finds this trace.
`Astray` in the properties is what the run shows to be necessary: after the
answer to a rename or a deletion was lost, the old name is still in the state,
another resource may take it, and from then on two resources manage one
environment and either destroys it with all it contains. Two resources that
exchange their names never converge, because the server refuses both renames.

In `attributes` one edit after a first apply sets, changes or removes the
attribute; with one outside change and one fault it meets a server that is
neither as the state nor as the configuration says. Applies are not bounded:
every behaviour goes on refreshing and applying. Attributes meet only by way of
`others`, the late PATCH that one of them opens for all, and the PUT that
resets what is left out, so one flow at a time has what there is. `RowsAreSound`
is computed once for every row; with it, the theorems below hold of these 222
rows for any number of edits, faults and outside changes.

In `deployments` three deployments are an old one, the one asked for and one
that others start; a second resource would be one more outsider to the first,
and the theorems cover any number.

The clock bound `MaxTime` is three lifetimes' worth of ticks; `Tick` does not
let a body travel longer than `MaxDelay`, which stands for the attempt's
timeout plus decoding. `CHECK_DEADLOCK FALSE` is set in the runs of `HttpCall`
because the calls run out.

**Fairness.** `list_cache_races`: weak fairness of each goroutine's steps; the
HTTP client bounds every request by its timeout, so `GetFails` and `Refuse`
are always there as an end. `http_call`: weak fairness of the client only,
which includes its timeouts; the server may be silent for ever.
`resource_lifecycle`: the user keeps applying (`Plan`), handlers run on
(`Run`, bounded by the operation's timeout), and the server's deletion jobs
run (`Remove`); nothing is assumed about faults except that there are finitely
many. `deployments`: a running handler goes on and its timeout ends some time;
nothing is assumed of Coolify, which may never run a deployment.

### The five violations

1. `retry_max_zero`: `New` replaces the default of three retries only by a
   positive number, so switching retries off with `retry_max = 0` gives three.
2. `restart_after_update`: a PATCH that was applied but whose answer was lost
   makes `updateAndReadBack` return before the restart; the next refresh
   absorbs the change and no later apply restarts the application.
3. `recovered_create`: the comment on `RecoverCreateAfterExtendedError` says
   the recovered database is not tainted; Terraform taints it.
4. `imported_schedule`: nothing can read a volume backup, so an import leaves
   its UUID, storage type and timeout null. `UseStateForUnknown` plans null
   again, the first PUT answers with values, and Terraform calls the result
   inconsistent. The documentation lets the timeout stay omitted.
5. `cloudwatch_drain`: Delete turns off New Relic, Axiom and the custom drain,
   and CloudWatch stays on, where the documentation says that destroy disables
   all drains.

## 4. The proofs

Every theorem is checked by `tlapm` to the last leaf, from the named
assumptions on constants and what its statement assumes of them.

**ListCacheProofs** (any number of paths, readers and writers, any TTL). The
invariant `FreshInv` carries the cache's argument: `acked` never exceeds
`version`; an entry is at least as new as `acked`; and a reader whose
generation is still current, or that has not taken it yet, holds or will get a
body at least as new as `acked`. `CacheHoldsAcknowledged` alone is not
inductive: a body on its way has to be known to be fresh *if* its generation
still matches. `AgeInv` does the same for time. From these follow
`CacheNeverPredatesAcknowledgement`, `ReadersSeeTheirWrites`,
`StalenessIsBounded` and the refinement `CacheImplementsListReads`, the last by
one lemma per kind of step (inner step, answer). `ListCallsRunOut` bounds the
steps of a call.

**HttpCallProofs** (any methods, any number of calls, any `retry_max`). The
invariant `HInv` says that what is on the wire of a POST, PUT or DELETE is its
last attempt and not executed, that nothing of it is there during a backoff
(only a 429 leads to one), that an answer of the server clears it, and that
what was refused or cut short in a backoff had no effect. `NoDuplicates`,
`SuccessIsReal` (`OkMeansApplied`), `AnswersSettle` and, for positive
`retry_max`, `RetriesAreBounded` follow. How often a PATCH may be executed is
counted by `Counted`: what was executed and what still travels are together no
more than the attempts made; it is the set of attempts on the wire whose
cardinality has to be known, since any of them may land. With it
`CallsImplementApiCalls` is the refinement, one lemma per kind of step.
`CallsRunOut` bounds the steps of a call.

**ResourceLifecycleProofs** (any set of programs that satisfies
`ProgramsAssumption`, any number of UUIDs, values, faults, edits and outside
changes). `ProgramsAssumption` is what the handlers have in common and what a
new handler must keep: a Create posts first and only once, and nothing that
can fail stands between the POST and the first save. TLC evaluates it on the
35 programs. The invariant `IInv` adds to the properties what a running
handler may rely on (`Frame`, `CreateFrame`, `DeleteFrame`). The proof has one
lemma per action. `NoOrphans`, `NothingIsForgotten` (`ForgetsOnlyWhatIsGone`)
and the refinement `LifecycleImplementsManagedObject` are the results; the
mutants show that the assumption is needed (a Create that saves only at the
end orphans its object). The refinement needs that a handler which fails after
its POST leaves the object to the state (`FailureKeepsOwner`), and that a PATCH
or a restart never touches the mark of a deletion. `HandlersRunOut` bounds the
steps of a handler.

**EnvironmentsProofs** (any number of resources, names, environments, faults
and edits). That names are good keys needs more than the property itself:
names are unique on the server (`UniqueNames`), the environment a state speaks
of is there and its own (`OwnIsThere`), a running Create works on what it has
saved (`CreateHolds`) and is about to save the UUID of its own environment
(`ViewIsOwn`). All but `UniqueNames`, `OwnersLive` and `CreateHolds` are
claimed only until an answer to a rename or a deletion is lost. `QuietKeeps`
takes care of the steps that change neither a state nor an environment, and
one lemma per call of the others. `NamesAreKeys`, `EnvironmentsAreNotShared`
and the action properties `OnlyOwnersTouch` and `RenamesKeepUUIDs` follow.

**ResourceAppliedProofs** (the same, with `ShapesAssumption` on the programs:
a Read finds and saves, an Update writes first and saves last, and no Create
sends a late PATCH after it has read itself back unless it saves the answer).
`SuccessIsApplied` is `SuccessMeansApplied` for every such set of handlers. Its
invariant follows the attributes through a handler: past its POST a Create has
what POST accepts, past its late PATCH everything, an Update past its PATCH
everything, and what is saved next is the plan or what the object has. The same
invariant shows that a handler finds its object where it needs it, hence
`NoErrorWithoutCause`: an apply fails only when a call of its own failed or
somebody interfered (`ErrorsHaveCauses`).

`RestartedUnlessLost` is the other side of the violation
`restart_after_update`. For handlers that restart after their PATCH
(`RestartsAfterPatch`, which the five applications keep), `UpdatedIsRestarted`
holds in every behaviour in which no answer to an Update's PATCH is lost,
whatever else fails: refused calls, lost POSTs and DELETEs, failed restarts,
changes by others. So the lost answer is the only way to an application that
silently runs an old configuration. The invariant `Restarted` says that an
object which is stale is warned of or has its restart ahead.

**EnvironmentsAppliedProofs** (the assumptions of `EnvironmentsProofs`).
`SuccessIsApplied` again; `SuccessMeansApplied` speaks of the moment when
everything is idle, the invariant of each resource as soon as it is done while
the others still run. What the plan compares is known since the refresh: the
state has Coolify's description if there is one, and if there is none, has none
either until a PATCH that clears one is lost (`DescIsKnown`). That nobody undoes
it needs the keys of `EnvironmentsProofs`.

**DeploymentsProofs** (any number of resources, deployments, commits and
faults). What a running Create holds has to be known at every call: a UUID it
has confirmed or picked is no old success and not of a commit before the one
asked for, unless that was cancelled (`AnswerIsSound`), and as long as it still
looks for one, the newest of the list would do (`Adoptable`). That the list is
in the order of the commits and the queue runs in that order (`Queue`) is what
makes these inductive. `DeployedHasFinished`, `NoOldSuccess` and
`NothingOlderIsDeployed` follow. `CreateRunsOut` says that a handler never goes
back to a call and polls only while its context lasts.

**AttributesProofs** (any set of rows of the vocabulary that keep the rules a
theorem names, any number of edits, faults and outside changes). A table is
data, so what is proved is what any table needs, the present ones and the next
resource's: a property of all behaviours follows from rules about one request
and one answer. `SoundTables` collects the properties of `Sound` rows, and the
run `attributes` finds all 222 rows `Sound`. The rules are not loose either:
every flow that section 5 excepts breaks one of those its property asks for
(`RestartLimit` breaks `Restarts` and nothing else, `CloudwatchDrain`
`SwitchesOff`, `BoughtWith` `Recognises`, `Unsent` `Serves`).

The first half asks nothing of a row. `Frame` says that a plan is still the one
of its state and configuration, that a warning stands until the next plan, that
a Create which cannot adopt finds nothing, and that a refreshed state is a
reading of the answer. `Contents` bounds what Coolify may hold: without it a
Create would have to cope with values that nobody ever sent. `Worded` keeps the
empty string out of rows that cannot produce it; a value, a default and the
empty string are read so differently that most properties are false without
it. `Missing` and `Applied` tell what is known when an object has disappeared
and when an apply has ended well.

The second half has one strengthening per property, because none of them is
inductive:

| Property | Its invariant | Why the property alone does not do |
|---|---|---|
| `AppliedAsPlanned` | `BadOutcome` | the outcome outlives its plan, so it must be tied to it until the next refresh |
| `AppliedSettles` | `Settled` | speaks of the next plan; between apply and plan lie refreshes, failed deletes and answers that hide the value, so the state must be what Read goes on saying |
| `UnchangedIsLeft`, `ChangeRestarts` | `Tracking` | an update that changes nothing leaves alone only what the state is right about, before and after the next refresh |
| `ConfiguredIsServed` | `Served`, with `Settled` and `Tracking` | an apply without changes serves nothing itself: it relies on the apply that did |
| `RemovalIsHonest` | `Untold`, `Admitted`, `Overlooked` | a null may come from a Create, an Update or an import, over an object that others have changed |
| `ImportKeeps` | `Recognised` | between the import and its plan the user edits and Read runs any number of times |

Each has one lemma per action that may disturb it. `LeftOpenIsLeft`,
`DestroyedIsOff` and `WithheldIsAnnounced` follow from `Frame` and their rule.
TLC checked every one of these invariants on the instance of the run before it
was proved, which is how some of the rules got their conditions: a tracked
attribute must not be one that is taken on trust, and an identifier that an
import takes over is not to be sent as anything else.

**Towards liveness.** That something happens at all is fairness, which the
prover does not handle. What can be proved is the other half, that what happens
leads somewhere: each of the four theorems below bounds the steps a process has
left by a number that its own steps lower and nobody else's raise.

| Theorem | The number | What remains to fairness |
|---|---|---|
| `ListCallsRunOut` | `ReadLeft`, at most 6; `WriteLeft`, at most 2 for every send and 1 | goroutines go on |
| `CallsRunOut` | `Fuel`, at most 4 for every attempt | the client goes on, its timeouts included |
| `CreateRunsOut` | `Stage`, at most 6; only a poll in a context that is not over may leave it as it is | the handler goes on and its context expires |
| `HandlersRunOut` | `ToGo`, the rest of the program and the return; only a wait of `RetryDelete`, which is a fault, may leave it as it is | handlers go on, deletion jobs run |

For `Converges` there is more: `NoErrorWithoutCause` and `SuccessIsApplied` say
that an apply without a fault and without interference does not fail, and
leaves object, state and configuration equal.

**Only model-checked.** Liveness itself (`EveryCallReturns`, `Converges`,
`EveryCreateReturns`), and that the provider's 222 rows keep the rules
(`RowsAreSound`), which is a finite computation over tables and TLC's to do.
All other properties of the passing runs are theorems. The violations are
counterexamples, not theorems.

## 5. What is not claimed

- An object whose POST was executed but whose answer was lost is unknown to
  every handler and is never cleaned up. `AcknowledgedIsTracked` is about
  answered POSTs. A GitLab app that is answered without an id counts as one.
- A timed-out PATCH may be executed after a later one (`HttpCall` has this
  behaviour); the API offers no precondition that would prevent it, and
  `ResourceLifecycle` treats each call as over when it returns.
- An environment's description that Coolify has lost counts as applied if the
  state has it: Read keeps it (`environment/resource.go:193`). So it is after a
  lost PATCH that cleared it (`Cleared`), and `SuccessMeansApplied` of
  `Environments` excepts what is configured to be there then. Changes of
  environments by others are not modelled.
- Reads in `ResourceLifecycle` see the server as it is; what the cache adds
  is covered by `ListCache`.
- Deletion helpers: `RetryDelete` and `PollUntilDeleted` wait as long as the
  model likes; attempts are not counted (`RetryDelete` sends one more DELETE
  than its argument says), and a parent does not wait for particular children.
- `DeploysNoOlder` excepts what somebody cancelled: `pickDeploymentUUID` takes
  the newest deployment of any status when none is in flight, although the
  comment on `LatestApplicationDeploymentUUID` says the newest finished one. A
  cancelled one that is adopted is polled until the timeout, because
  `pollDeployment` does not know that status as an end.

**What the attribute properties except.** Every exception is an operator with a
name, in `Attributes` or in `MCAttributes`, and says something about the code:

| Exception | The code | Property |
|---|---|---|
| `Blank` | a configured `""` is left out by `omitempty` requests and read back as null by most flatten functions | most |
| `Withdrawn` | an optional attribute without a default that is taken out of the configuration is not in the PATCH, so Coolify keeps it and the answer brings it back (`gitlabapp` `knownString`, `sharedenv` comment and value, applications' `flex.Set*Ptr`) | `AppliedAsPlanned`, `AppliedSettles`, `RemovalIsHonest` |
| `TakenOnTrust` | `destination_uuid` and its like, set later on an object made without them: not sent, not read, and no replacement (`application/common_schema.go:186`) | `ConfiguredIsServed` |
| `Unseen` | Read does not look (tokens, schedules, hidden secrets), and somebody else changed the object | `ConfiguredIsServed`, `RemovalIsHonest` |
| `WithheldNames` | on an old Coolify the names of gated attributes become null in the answer's state, where the warning (`application/version_gated_writes.go:136`) says that the values are kept | `AppliedAsPlanned` |
| `WithheldSilently` | `server_role` and the traffic settings of Sentinel are withheld without a warning, as their descriptions say | `WithheldIsAnnounced` |
| `RestartLimit` | `max_restart_count` is not in `runtimeFieldsChanged` (`application/common.go:533`) | `ChangeRestarts` |
| `Unsent` | attributes that are planned and read back but in no request: `is_shown_once` of services and databases, `clickhouse_db`, the databases' SSL and logging switches | `AppliedAsPlanned`, `ConfiguredIsServed` |
| `KeptTooLong` | outputs that `UseStateForUnknown` plans to stay though they change by themselves: `last_execution_at` (`database/backup/resource.go:226`), `hostinger_virtual_machine_status` (`hostinger/resource.go:191`), `fqdn` of a sub-application | `AppliedAsPlanned` |
| `ImportedSchedule`, `CloudwatchDrain` | the violations above | their own |
| `Dockerfiles`, `BoughtWith` | never read back, and replaced by any change: after an import the first plan replaces the object (`docs/guides/import.md:243` and the cloud servers' documentation say to keep such values out or to expect it); the Docker image and Dockerfile applications never send `dockerfile` | `ImportKeeps`, `ConfiguredIsServed` |

Three conversions are coarser than the code: `flattenDockerImage` cuts the
configured image name at the first colon, which is wrong for a registry with a
port; `sharedenv` finds itself by id, UUID or key, in that list's order; and
`resourcetag` compares tag names without case and saves Coolify's spelling, so
that a name configured in another case plans a replacement every time.

**Not modelled**, each with its reason in `PROJECT.json`: the
enable-route probe and a Coolify without that route (`apisettings` is modelled
with it), the error `resourcetag` returns when the list lacks the tag it has
just attached (the repository does not say what Coolify answers to the attach
that follows), one-shot actions (single calls that leave
nothing to track), the choice of a destination in Create, parsing and comparing
versions, provider configuration, validators and filters, data sources and the
test harness (no state of their own). The servers of before v4.3 are not
modelled for environments.

## 6. What is left

1. The enable-route probe: at most one successful probe, a failed one not
   remembered, and a Create that goes on where an Update refuses.
2. Attachments as programs without a POST-given key: their attributes are
   flows, their handlers' calls are not followed one by one.
3. Deletion of parents over the dependency order, with `RetryDelete`'s attempts
   and children whose deletion jobs are pending.
4. The keys of an `envs_bulk` map, of which one that was taken out of the map
   is never deleted.
