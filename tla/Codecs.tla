-------------------------------- MODULE Codecs --------------------------------
(***************************************************************************)
(* How one attribute of a resource travels between Terraform and Coolify.  *)
(*                                                                         *)
(* A value is "a" or "b" (what a user may write), "default" (what the      *)
(* schema and Coolify put there by themselves) or "empty" (the empty       *)
(* string, a null column, a field the answer lacks: the client cannot tell *)
(* them apart). Terraform also knows "null" and "unknown".                 *)
(*                                                                         *)
(* A reading is what a flatten function does with the field of an answer,  *)
(* a sending is when a request carries the attribute, and a kind is how    *)
(* the schema lets Terraform plan it. The tables of the resources are made *)
(* of these three vocabularies.                                            *)
(***************************************************************************)
EXTENDS TLC

Stored == {"a", "b", "default", "empty"}      \* values the server may hold
Known == Stored
Unset == {"null", "unknown"}
Planned == Known \cup Unset

(***************************************************************************)
(* Readings.                                                               *)
(***************************************************************************)

\* types.StringValue, BoolValue, Int64Value of the field.
Direct(prior, api) == api

\* Empty becomes null: StringToFramework, Int64PtrToFramework; also
\* SetStringSeedOrClear, whose two branches do the same.
OrNull(prior, api) == IF api = "empty" THEN "null" ELSE api

\* A configured empty string stays one.
FromAPI(prior, api) ==
    IF api = "empty" /\ prior # "empty" THEN "null" ELSE api

OrDefault(prior, api) == IF api = "empty" THEN "default" ELSE api

\* The answer overwrites whatever was there, unless it has nothing.
IfPresent(prior, api) == IF api = "empty" THEN prior ELSE api

\* A broken variant: what the answer lacks is cleared.
PreserveNothing(prior, api) == IF api = "empty" THEN "null" ELSE api

\* The same, and what is still unknown becomes null.
PreserveEmpty(prior, api) ==
    IF api # "empty" THEN api ELSE IF prior = "unknown" THEN "null" ELSE prior

\* The same, and what is not set becomes the default.
PresentOrDefault(prior, api) ==
    IF api # "empty" THEN api ELSE IF prior \in Unset THEN "default" ELSE prior

\* A broken variant: what the answer hides becomes empty.
HiddenIsEmpty(prior, api) == api

\* The same, and what is not set becomes the empty string.
PresentOrEmpty(prior, api) ==
    IF api # "empty" THEN api ELSE IF prior \in Unset THEN "empty" ELSE prior

\* Only what the user configured follows the server.
IfConfigured(prior, api) == IF prior \in Unset THEN prior ELSE IfPresent(prior, api)

OrClear(prior, api) == IF prior \in Unset THEN prior ELSE OrNull(prior, api)

\* What is not set takes the field, but not a known default of the API.
SeedIfConfigured(prior, api) ==
    IF prior \in Unset /\ api = "default" THEN prior ELSE IfPresent(prior, api)

\* Only what is not set takes the field.
Seed(prior, api) == IF prior \in Unset THEN IfPresent(prior, api) ELSE prior

NormalizeUnknown(prior) == IF prior = "unknown" THEN "null" ELSE prior

SeedOrNull(prior, api) == NormalizeUnknown(Seed(prior, api))

\* A flag the answer lacks is off, where the plan left it open.
DefaultIfUnknown(prior, api) ==
    IF api = "empty" /\ prior = "unknown" THEN "default" ELSE IfPresent(prior, api)

\* prior is what the handler holds, the plan or the state, and before what the
\* state was before an update.
Read(reading, prior, api, before) ==
    CASE reading = "direct"             -> Direct(prior, api)
      [] reading = "or_null"            -> OrNull(prior, api)
      [] reading = "from_api"           -> FromAPI(prior, api)
      [] reading = "or_default"         -> OrDefault(prior, api)
      [] reading = "if_present"         -> IfPresent(prior, api)
      [] reading = "preserve_empty"     -> PreserveEmpty(prior, api)
      [] reading = "present_or_default" -> PresentOrDefault(prior, api)
      [] reading = "present_or_empty"   -> PresentOrEmpty(prior, api)
      [] reading = "if_configured"      -> IfConfigured(prior, api)
      [] reading = "or_clear"           -> OrClear(prior, api)
      [] reading = "seed_if_configured" -> SeedIfConfigured(prior, api)
      [] reading = "seed"               -> Seed(prior, api)
      [] reading = "seed_or_null"       -> SeedOrNull(prior, api)
      [] reading = "default_if_unknown" -> DefaultIfUnknown(prior, api)
      [] reading = "kept"               -> prior
      [] reading = "kept_or_null"       -> NormalizeUnknown(prior)
      [] reading = "kept_or_default"    -> IF prior \in Unset THEN "default" ELSE prior
      [] reading = "kept_or_empty"      -> IF prior \in Unset THEN "empty" ELSE prior
      [] reading = "present_or_old"     ->
            IF api = "empty" /\ prior \in Unset THEN before ELSE IfPresent(prior, api)

Readings == {"direct", "or_null", "from_api", "or_default", "if_present", "preserve_empty",
             "present_or_default", "present_or_empty", "if_configured", "or_clear",
             "seed_if_configured", "seed", "kept", "kept_or_null", "kept_or_default",
             "kept_or_empty", "present_or_old", "seed_or_null", "default_if_unknown"}

(***************************************************************************)
(* Sendings: what a request carries of a plan, "omitted" when nothing.     *)
(***************************************************************************)

\* Broken variants: a pointer to an unset value; the default taken for an
\* unset value; the default sent in the place of an unset value.
IfKnownUnchecked(planned) == planned
IfKnownNonDefault(planned) == IF planned \in Unset \cup {"default"} THEN "omitted" ELSE planned
IfKnownOrDefault(planned) == IF planned \in Unset THEN "default" ELSE planned

\* A pointer to what is known: SetStrPtr, StringValueOrNull.
IfKnown(planned) == IF planned \in Unset THEN "omitted" ELSE planned

\* A string with omitempty, filled by SetIfKnown or ValueString.
IfNonEmpty(planned) == IF planned \in Unset \cup {"empty"} THEN "omitted" ELSE planned

\* A field without omitempty: ValueString of an unset value is "".
Always(planned) == IF planned \in Unset THEN "empty" ELSE planned

IfNonDefault(planned) == IF planned = "default" THEN "omitted" ELSE IfKnown(planned)

\* BoolIfNull puts the default in the request itself.
Filled(planned) == IF planned \in Unset THEN "default" ELSE planned

IfChanged(planned, saved) == IF planned = saved THEN "omitted" ELSE IfKnown(planned)

\* What is no longer set is sent as an empty string, once.
IfDifferent(planned, saved) == IF planned = saved THEN "omitted" ELSE Always(planned)

\* A broken variant: the removal is not sent.
ForUpdateOfKnown(planned, saved) == IF planned \in Unset THEN "omitted" ELSE planned

\* StringPtrForUpdate clears what is no longer configured.
ForUpdate(planned, saved) ==
    IF planned \notin Unset THEN planned
    ELSE IF saved # "null" THEN "empty" ELSE "omitted"

Sent(sending, planned, saved) ==
    CASE sending = "never"          -> "omitted"
      [] sending = "if_known"       -> IfKnown(planned)
      [] sending = "if_nonempty"    -> IfNonEmpty(planned)
      [] sending = "always"         -> Always(planned)
      [] sending = "if_nondefault"  -> IfNonDefault(planned)
      [] sending = "filled"         -> Filled(planned)
      [] sending = "if_changed"     -> IfChanged(planned, saved)
      [] sending = "if_different"   -> IfDifferent(planned, saved)
      [] sending = "for_update"     -> ForUpdate(planned, saved)

Sendings == {"never", "if_known", "if_nonempty", "always", "if_nondefault", "filled",
             "if_changed", "if_different", "for_update"}

(***************************************************************************)
(* Kinds: what a schema says of an attribute.                              *)
(***************************************************************************)
Kind(planning) == [plan |-> planning, replace |-> "no", text |-> TRUE, secret |-> FALSE, own |-> FALSE,
               live |-> FALSE]

Required == Kind("required")
Optional == Kind("optional")
Computed == Kind("computed")      \* optional and computed, planned anew by every change
Kept == Kind("kept")              \* optional and computed, UseStateForUnknown
KeptOrDefault == Kind("kept_or_default")  \* the state, and without one a default
Defaulted == Kind("default")
DefaultedEmpty == Kind("default_empty")   \* the default of the schema is ""
Output == Kind("output")
KeptOutput == Kind("kept_output")

Replacing(kind) == [kind EXCEPT !.replace = "always"]

\* A broken variant: RequiresReplace in the place of RequiresReplaceIfKnown.
ReplacingEvenUnknown(kind) == Replacing(kind)
ReplacingIfKnown(kind) == [kind EXCEPT !.replace = "if_known"]
Flag(kind) == [kind EXCEPT !.text = FALSE]       \* a bool, a number, a choice: never ""
Secret(kind) == [kind EXCEPT !.secret = TRUE]
Own(kind) == [kind EXCEPT !.own = TRUE]          \* Coolify does not store it
Live(kind) == [kind EXCEPT !.live = TRUE]        \* Coolify changes it by itself, at any time

Plans == {"required", "optional", "computed", "kept", "kept_or_default", "default", "default_empty",
          "output", "kept_output"}
Kinds == [plan : Plans, replace : {"no", "always", "if_known"}, text : BOOLEAN, secret : BOOLEAN,
          own : BOOLEAN, live : BOOLEAN]

(***************************************************************************)
(* Tables: one function per source function, from attribute to kind,       *)
(* sending or reading, and the flows of a resource made of them.           *)
(***************************************************************************)
Each(attributes, what) == [a \in attributes |-> what]
None == Each({}, "never")

At(table, a, otherwise) == IF a \in DOMAIN table THEN table[a] ELSE otherwise

\* The fields of a resource: schema, post, late (what a PATCH after the POST
\* sends), patch, made, updated and read (how Create, Update and Read
\* flatten), importable (whether there is an ImportState), ids and seeded
\* (what it takes from the identifier and what it sets to the default),
\* normal (what Create makes null before it flattens), gated and announced
\* (what the client withholds from an older Coolify and what a plan warns of
\* then), preserved (what stays as it is configured while Coolify is too old
\* for it), existing (whether Create adopts an object that Coolify already
\* has), reset (what Coolify resets when a PUT leaves it out), demanded (what
\* a plan of an object that exists must not leave open), redeploys and
\* restarts (whether the resource can redeploy itself, and on changes of
\* what), deletes (whether Delete removes the object), off (what Delete
\* switches off otherwise), lenient (whether a Delete that fails is a success
\* with a warning), unseen (whether Read leaves alone an object that is
\* gone), upserts (whether Update makes it again) and switches (what turns
\* the feature of the resource on and off).
Imported(r, a) ==
    IF ~r.importable THEN "never"
    ELSE IF a \in r.ids THEN "id"
    ELSE IF a \in r.seeded THEN "default" ELSE "null"

Flow(r, a) ==
    [kind |-> r.schema[a],
     post |-> At(r.post, a, "never"), late |-> At(r.late, a, "never"), patch |-> At(r.patch, a, "never"),
     made |-> At(r.made, a, "kept"), updated |-> At(r.updated, a, "kept"), read |-> At(r.read, a, "kept"),
     import |-> Imported(r, a), normal |-> a \in r.normal, gated |-> a \in r.gated, announced |-> a \in r.announced,
     preserved |-> a \in r.preserved, existing |-> r.existing,
     reset |-> a \in r.reset, demanded |-> a \in r.demanded,
     redeploys |-> r.redeploys, restarts |-> a \in r.restarts,
     deletes |-> r.deletes, off |-> a \in r.off, lenient |-> r.lenient, unseen |-> r.unseen, upserts |-> r.upserts,
     switch |-> a \in r.switches]

AllKindsOfFlows ==
    [kind : Kinds, post : Sendings, late : Sendings, patch : Sendings,
     made : Readings, updated : Readings, read : Readings, import : {"id", "default", "null", "never"},
     normal : BOOLEAN, gated : BOOLEAN, announced : BOOLEAN, preserved : BOOLEAN,
     existing : BOOLEAN, reset : BOOLEAN, demanded : BOOLEAN, redeploys : BOOLEAN, restarts : BOOLEAN,
     deletes : BOOLEAN, off : BOOLEAN, lenient : BOOLEAN, unseen : BOOLEAN, upserts : BOOLEAN, switch : BOOLEAN]

FlowsOf(r) == {Flow(r, a) : a \in DOMAIN r.schema}

\* A resource that flattens every answer alike, and its variations.
Resource(schema, post, patch, read) ==
    [schema |-> schema, post |-> post, late |-> None, patch |-> patch,
     made |-> read, updated |-> read, read |-> read, ids |-> {}, seeded |-> {}, normal |-> {},
     gated |-> {}, announced |-> {}, preserved |-> {}, existing |-> FALSE,
     importable |-> TRUE, reset |-> {}, demanded |-> {}, redeploys |-> FALSE, restarts |-> {},
     deletes |-> TRUE, off |-> {}, lenient |-> FALSE, unseen |-> FALSE, upserts |-> FALSE, switches |-> {}]
=============================================================================
