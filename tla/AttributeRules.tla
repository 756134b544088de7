---------------------------- MODULE AttributeRules ----------------------------
(***************************************************************************)
(* The contract between the tables and the life of an attribute: what a    *)
(* flow must do with one value, in one request and one answer, so that     *)
(* the properties of Attributes hold over every sequence of requests,      *)
(* edits, faults and changes made past Terraform. A rule looks at one      *)
(* handler at a time; nothing in it counts steps.                          *)
(***************************************************************************)
EXTENDS Attributes

Settings == Known \ {"empty"}       \* what is there and can be seen
Terms == Known \cup {"null"}        \* what Terraform's state may say

(***************************************************************************)
(* Plans.                                                                  *)
(***************************************************************************)

\* What a Create may carry.
Firsts(f) ==
    (Configs(f) \ {"null"})
    \cup (CASE f.kind.plan \in {"computed", "kept", "output", "kept_output"} -> {"unknown"}
            [] f.kind.plan = "optional" -> {"null"}
            [] f.kind.plan = "default_empty" -> {"empty"}
            [] OTHER -> {})

\* What an Update may carry where the state says s.
Nexts(f, s) ==
    LET kept == CASE f.kind.plan \in {"kept", "kept_output"} -> {s}
                  [] f.kind.plan = "kept_or_default" -> {s} \ {"null"}
                  [] OTHER -> {}
        replaced == f.kind.replace = "always" \/ (f.kind.replace = "if_known" /\ s # "null")
    IN  {p \in Firsts(f) \cup kept :
            /\ f.kind.plan \in {"kept", "kept_output"} => p # "unknown"
            /\ ~(f.demanded /\ p \in Unset)
            /\ p \in {s, "unknown"} \/ ~replaced}

\* Plans that Terraform must get back: all but the empty string, and the
\* removal that Coolify is never told of.
Withdrawable(f) ==
    f.kind.plan = "optional" /\ f.patch \in {"if_known", "if_nonempty", "if_changed"}
Expected(f, p) == p \notin {"empty", "unknown"} /\ ~(p = "null" /\ Withdrawable(f))

(***************************************************************************)
(* Requests and answers.                                                   *)
(***************************************************************************)

\* The empty string neither is configured nor can come from anywhere else.
Wordless(f) ==
    /\ "empty" \notin Configs(f) \cup Fills(f) /\ f.kind.plan # "default_empty"
    /\ ~f.kind.secret /\ ~f.kind.own /\ ~f.gated
    /\ \A p \in Planned \ {"empty"}, t \in Settings, o \in Terms \ {"empty"} :
        /\ "empty" \notin {Read(f.made, p, t, o), Read(f.updated, p, t, o), Read(f.read, p, t, o)}
        /\ "empty" \notin {Sent(f.post, p, o), Sent(f.patch, p, o)}

\* What Coolify may hold: what it fills in, what it was told past Terraform,
\* what a request carried.
Contents(f) ==
    LET plans == IF Wordless(f) THEN Planned \ {"empty"} ELSE Planned IN
    (Fills(f) \cup Settings
     \cup {Sent(f.post, p, "null") : p \in plans} \cup {Sent(f.patch, p, s) : p \in plans, s \in Terms}
     \cup (IF f.late = "never" THEN {} ELSE plans)) \cap Stored

\* What Coolify holds after the requests of a Create with plan p, where it
\* found one of found.
MakesFrom(f, found, p) ==
    LET post == Sent(f.post, p, "null")
        made == IF post # "omitted" THEN {post} ELSE IF f.reset THEN {"default"} ELSE found
    IN  IF f.late = "never" \/ p \in Unset THEN made
        ELSE IF Sent(f.late, p, "null") # "omitted" THEN {p} ELSE made \cup {p}

\* Where a Create finds nothing but what Coolify fills in.
Fresh(f) == f.deletes /\ ~f.existing /\ ~f.lenient
Makes(f, p) == MakesFrom(f, IF Fresh(f) THEN Fills(f) ELSE Contents(f), p)

\* What an Update with plan p leaves of t, where the state says s.
Leaves(f, p, s, t) ==
    LET x == Sent(f.patch, p, s) IN
    IF x # "omitted" THEN x ELSE IF f.reset THEN "default" ELSE t

\* An answer says t, or nothing, where Coolify may withhold the attribute
\* and the handler does not keep p itself.
Heard(f, p, t) ==
    {t} \cup (IF f.kind.secret \/ f.kind.own \/ (f.gated /\ (~f.preserved \/ p \in Unset))
              THEN {"empty"} ELSE {})

\* What a state says, with the answer it was read from.
Sights(f) ==
    IF f.reset \/ f.upserts \/ f.kind.live THEN Terms \X Stored
    ELSE {<<Read(f.read, p, a, p), a>> : p \in Terms, a \in Stored}

\* What an update with plan p is answered then.
Echoes(f, p, sight) ==
    LET x == Sent(f.patch, p, sight[1]) IN IF x = "omitted" THEN {sight[2]} ELSE Heard(f, p, x)

\* The answers about what is not withheld from an older Coolify: one for a
\* token that may read secrets, one for a token that may not.
Answers(f) ==
    {[t \in Stored |-> t]} \cup (IF f.kind.secret THEN {[t \in Stored |-> "empty"]} ELSE {})

\* What Create and Update save.
SavedByCreate(f, p, a) ==
    NormalizeUnknown(Read(f.made, IF f.normal THEN NormalizeUnknown(p) ELSE p, a, "null"))
SavedByUpdate(f, p, a, s) == NormalizeUnknown(Read(f.updated, p, a, s))

(***************************************************************************)
(* AppliedAsPlanned and AppliedSettles.                                    *)
(***************************************************************************)

\* A reading of the answers to a Create returns the plan.
CreateKeeps(f, reading) ==
    \A p \in Firsts(f) : \A t \in Makes(f, p) : \A a \in Heard(f, p, t) : \A o \in Terms :
        Expected(f, p) => Read(reading, p, a, o) = p

\* A reading of the answer to an Update returns the plan.
UpdateKeeps(f, reading) ==
    \A sight \in Sights(f) : \A p \in Nexts(f, sight[1]) :
        \A a \in Echoes(f, p, sight) : \A o \in {sight[1], p} :
            Expected(f, p) => Read(reading, p, a, o) = p

\* What a Create or an Update left open is known after it.
CreateResolves(f) ==
    f.kind.plan \in {"computed", "kept", "output", "kept_output"} =>
        \A t \in Makes(f, "unknown") : \A a \in Heard(f, "unknown", t) :
            Read(f.made, IF f.normal THEN "null" ELSE "unknown", a, "null") # "unknown"
UpdateResolves(f) ==
    f.kind.plan \in {"computed", "output"} =>
        \A s \in Terms, a \in Stored : Read(f.updated, "unknown", a, s) # "unknown"

PreservedIsPlanned(f) == f.preserved => f.kind.plan # "optional"
LiveIsOutput(f) == f.kind.live => f.kind.plan = "output"

KeepsPlans(f) ==
    /\ CreateKeeps(f, f.made) /\ CreateResolves(f)
    /\ UpdateKeeps(f, f.updated) /\ UpdateResolves(f)
    /\ PreservedIsPlanned(f)

\* Read agrees with what Create and Update returned.
Settles(f) ==
    /\ CreateKeeps(f, f.read) /\ UpdateKeeps(f, f.read)
    /\ PreservedIsPlanned(f) /\ LiveIsOutput(f)
    /\ f.kind.plan = "kept_or_default" => \A p, a \in Stored : Read(f.read, p, a, p) # "null"

(***************************************************************************)
(* WithheldIsAnnounced, DestroyedIsOff, LeftOpenIsLeft.                    *)
(***************************************************************************)

\* What Coolify may withhold is announced.
Announces(f) == f.gated => f.announced

\* A switch goes with its object, or Delete sends it off.
SwitchesOff(f) == f.switch => f.deletes \/ (f.off /\ ~f.kind.own /\ ~f.gated)

\* An update sends nothing new of what nobody ever set: nothing, or what
\* the answer has shown to be there.
LeavesOpen(f) ==
    LET open == IF f.kind.plan \in {"computed", "output"} THEN "unknown" ELSE "null" IN
    \/ f.demanded \/ f.kind.plan \in {"required", "default", "default_empty", "kept_or_default"}
    \/ /\ ~f.reset
       /\ \A sight \in Sights(f) :
            sight[1] = "null" => LET x == Sent(f.patch, open, "null") IN
                                 x = "omitted" \/ (x = sight[2] /\ ~f.kind.secret)

(***************************************************************************)
(* UnchangedIsLeft, ConfiguredIsServed, ChangeRestarts: what the state     *)
(* says is there.                                                          *)
(***************************************************************************)

\* Set for the first time and never read: taken to be what it has.
Trusted(f) == f.kind.replace = "if_known" /\ f.read = "kept"
Tracked(f) == ~f.kind.own /\ ~Trusted(f)

\* A state that says something says what Coolify holds; and it does say
\* something where only that keeps a change from being an update.
Tells(f, s, t) ==
    /\ s \in Settings => s = t
    /\ s = "null" => f.kind.replace # "if_known"

\* So does the state after the next refresh, a being the answer to it.
Agrees(f, s, t, a) == Tells(f, s, t) /\ Tells(f, Read(f.read, s, a, s), t)

CreateTracks(f) ==
    \A p \in Firsts(f) : \A t \in Makes(f, p) : \A answer \in Answers(f) :
        Agrees(f, SavedByCreate(f, p, answer[t]), t, answer[t])

UpdateTracks(f) ==
    \A answer \in Answers(f) : \A s \in Terms, t \in Stored :
        Tells(f, s, t) /\ Read(f.read, s, answer[t], s) = s =>
            \A p \in Nexts(f, s) :
                LET left == Leaves(f, p, s, t) IN
                Agrees(f, SavedByUpdate(f, p, answer[left], s), left, answer[left])

Tracks(f) == Tracked(f) => CreateTracks(f) /\ UpdateTracks(f)

UnseenIsKept(f) == f.unseen => f.read = "kept"

\* An update of nothing sends nothing.
LeavesUnchanged(f) ==
    /\ LeavesOpen(f) /\ UnseenIsKept(f) /\ LiveIsOutput(f)
    /\ f.reset => ~f.gated /\ ~f.kind.own /\ \A p \in Settings : Sent(f.patch, p, p) = p
    /\ Trusted(f) => f.patch = "never" /\ ~f.reset

\* What is configured is carried by some request.
Serves(f) ==
    Tracked(f) =>
        /\ \A p \in Firsts(f) \cap Settings : \A t \in Makes(f, p) : t = p
        /\ \A sight \in Sights(f) : \A p \in Nexts(f, sight[1]) \cap Configs(f) \cap Settings :
            \/ p = sight[1] \/ Sent(f.patch, p, sight[1]) = p
            \/ ~f.reset /\ f.kind.replace = "if_known" /\ sight = <<"null", "empty">>

\* What an update changes of an application, it restarts for.
Restarts(f) ==
    f.redeploys =>
        \/ f.kind.own \/ f.patch = "never"
        \/ /\ f.restarts /\ ~f.reset
           /\ \A p \in Nexts(f, "empty") \cap Unset : Sent(f.patch, p, "empty") = "omitted"

(***************************************************************************)
(* RemovalIsHonest: what the state says is not there.                      *)
(***************************************************************************)

\* Where a state of null may settle.
Nullable(f) ==
    \/ f.kind.plan \in {"kept", "computed", "output", "kept_output"}
    \/ f.kind.plan = "optional" /\ ~Withdrawable(f)

\* Null says that Coolify was told nothing.
CreateAdmits(f) ==
    \A p \in Firsts(f) : \A t \in MakesFrom(f, Fills(f), p) : \A answer \in Answers(f) :
        LET s == SavedByCreate(f, p, answer[t]) IN
        "null" \in {s, Read(f.read, s, answer[t], s)} => t \in Fills(f)

UpdateAdmits(f) ==
    \A answer \in Answers(f) : \A s \in Terms, t \in Stored :
        (s = "null" => t \in Fills(f)) /\ Read(f.read, s, answer[t], s) = s =>
            \A p \in Nexts(f, s) :
                LET left == Leaves(f, p, s, t)
                    r == SavedByUpdate(f, p, answer[left], s)
                IN  "null" \in {r, Read(f.read, r, answer[left], r)} => left \in Fills(f)

\* And where it is not so, Read does not see it either.
CreateOverlooks(f) ==
    \A p \in Firsts(f) : \A t \in Makes(f, p) :
        SavedByCreate(f, p, t) = "null" => t = "empty" \/ t \in Fills(f) \/ BlindAt(f, "null", t)

UpdateOverlooks(f) ==
    \A s \in Terms, t \in Stored :
        Read(f.read, s, t, s) = s =>
            \A p \in Nexts(f, s) :
                LET left == Leaves(f, p, s, t) IN
                SavedByUpdate(f, p, left, s) = "null" =>
                    left = "empty" \/ left \in Fills(f) \/ BlindAt(f, "null", left)

Admits(f) ==
    /\ UnseenIsKept(f)
    /\ f.deletes => ~f.lenient
    /\ f.kind.own => ~f.reset
    /\ Nullable(f) /\ ~f.kind.live /\ ~f.kind.own =>
        CreateAdmits(f) /\ UpdateAdmits(f) /\ CreateOverlooks(f) /\ UpdateOverlooks(f)

(***************************************************************************)
(* ImportKeeps.                                                            *)
(***************************************************************************)

\* What a change would replace is taken from the identifier, or read, or
\* left null where that does not replace.
Recognises(f) ==
    f.kind.replace # "no" /\ f.import # "never" =>
        /\ ~f.gated /\ ~f.kind.own /\ ~f.kind.live /\ (f.deletes /\ f.existing => f.unseen)
        /\ \/ f.read = "kept" /\ f.import = "null" /\ f.kind.replace = "if_known"
           \/ /\ f.read = "kept" /\ f.import = "id" /\ ~f.reset /\ (f.deletes \/ ~f.off)
              /\ \A s \in Stored : \A p \in Nexts(f, s) : Sent(f.patch, p, s) \in {s, "omitted"}
           \/ /\ \A p \in Terms, t \in Settings : Read(f.read, p, t, p) = t
              /\ f.kind.secret => /\ f.import = "null" /\ f.kind.replace = "if_known"
                                  /\ Read(f.read, "null", "empty", "null") = "null"

(***************************************************************************)
(* Every row of the tables keeps the rules.                                *)
(***************************************************************************)
Sound(f) ==
    /\ KeepsPlans(f) /\ Settles(f)
    /\ Announces(f) /\ SwitchesOff(f) /\ LeavesOpen(f)
    /\ Tracks(f) /\ LeavesUnchanged(f) /\ Serves(f) /\ Restarts(f)
    /\ Admits(f) /\ Recognises(f)

SoundFlows == {f \in Flows : Sound(f)}

\* The flow of every resource keeps the contract under which the theorems
\* hold for any number of edits, faults and changes made past Terraform.
RowsAreSound == flow \in SoundFlows
=============================================================================
