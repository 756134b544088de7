---------------------------- MODULE ChildAttributes ---------------------------
(***************************************************************************)
(* The attributes of what hangs off an application, a service, a database, *)
(* a project or a server: variables, storages, tasks, tags and additional  *)
(* destinations. The identifier of an import names the parent.             *)
(***************************************************************************)
EXTENDS Codecs

Parents == {"application_uuid", "service_uuid", "database_uuid"}

\* Create and Update save the plan with the defaults they did not send. A
\* value that GET hides is kept.
EnvVarSchema ==
    Each(Parents, Replacing(Optional)) @@ Each({"key"}, Replacing(Required)) @@
    Each({"value"}, Secret(Required)) @@
    Each({"is_preview", "is_build", "is_runtime", "is_literal", "is_multiline"}, Flag(Kept)) @@
    Each({"is_shown_once"}, Flag(Defaulted)) @@ Each({"comment"}, Kept) @@ Each({"uuid"}, KeptOutput)
EnvVarPost ==
    Each(Parents, "if_known") @@ Each({"key", "value"}, "always") @@ Each({"is_preview"}, "filled") @@
    Each({"is_build", "is_runtime", "is_literal", "is_multiline", "is_shown_once", "comment"}, "if_known")
EnvVarPatch ==
    Each({"value", "is_preview"}, "always") @@ Each({"is_literal", "is_multiline", "is_shown_once"}, "filled") @@
    Each({"is_build", "is_runtime", "comment"}, "if_known")
EnvVarSaved ==
    Each({"is_preview", "is_build", "is_runtime", "is_literal", "is_multiline", "is_shown_once"},
         "kept_or_default") @@
    Each({"comment"}, "kept_or_empty")
EnvVarRead ==
    Each({"key", "is_preview", "is_build", "is_runtime", "is_literal", "is_multiline", "is_shown_once",
          "comment"}, "direct") @@
    Each({"value"}, "present_or_empty")
ApplicationEnvVar ==
    [Resource(EnvVarSchema, EnvVarPost, EnvVarPatch, EnvVarRead)
        EXCEPT !.made = Each({"uuid"}, "direct") @@ EnvVarSaved, !.updated = EnvVarSaved,
               !.ids = Parents \cup {"uuid"}]

\* The routes of services and databases know neither is_build and
\* is_runtime, which are then always off, nor is_shown_once.
AppOnly == {"is_build", "is_runtime", "is_shown_once"}
OtherEnvVar ==
    [ApplicationEnvVar EXCEPT
        !.schema = Each({"is_build", "is_runtime"}, Flag(KeptOutput)) @@ EnvVarSchema,
        !.post = Each(AppOnly, "never") @@ EnvVarPost,
        !.patch = Each({"is_literal", "is_multiline"}, "if_known") @@ Each(AppOnly, "never") @@ EnvVarPatch,
        !.read = Each({"is_build", "is_runtime"}, "kept_or_default") @@ EnvVarRead]

\* Update saves the plan; a comment or value that is left out is not sent.
SharedScope == {"scope", "project_uuid", "environment", "server_uuid"}
SharedEnvSchema ==
    Each({"scope", "key"}, Replacing(Required)) @@
    Each(SharedScope \ {"scope"}, Replacing(Optional)) @@ Each({"value"}, Secret(Optional)) @@
    Each({"comment"}, Optional) @@ Each({"is_literal", "is_multiline", "is_shown_once"}, Flag(Kept)) @@
    Each({"id", "env_id"}, KeptOutput)
SharedEnvPost ==
    Each(SharedScope, "if_known") @@ Each({"key", "value", "comment"}, "if_nonempty") @@
    Each({"is_literal", "is_multiline", "is_shown_once"}, "if_known")
SharedEnvMade ==
    Each({"id", "env_id"}, "direct") @@ Each({"value"}, "if_present") @@
    Each({"is_literal", "is_multiline", "is_shown_once"}, "seed")
SharedEnvRead ==
    Each({"key", "env_id", "is_literal", "is_multiline", "is_shown_once"}, "direct") @@
    Each({"value", "comment"}, "if_present")
SharedEnvPatch ==
    Each({"value", "comment"}, "if_nonempty") @@
    Each({"is_literal", "is_multiline", "is_shown_once"}, "if_known")
SharedEnv ==
    [Resource(SharedEnvSchema, SharedEnvPost, SharedEnvPatch, SharedEnvRead)
        EXCEPT !.made = SharedEnvMade, !.updated = None, !.ids = SharedScope \cup {"id", "env_id"}]

\* Only an update may turn the preview suffix off. host_path is refused.
StorageSchema ==
    Each(Parents, Replacing(Optional)) @@ Each({"resource_uuid"}, Replacing(Kept)) @@
    Each({"name", "mount_path"}, Required) @@ Each({"is_preview_suffix_enabled"}, Flag(Defaulted)) @@
    Each({"uuid"}, KeptOutput)
StoragePost ==
    Each(Parents, "if_known") @@ Each({"name", "mount_path"}, "always") @@
    Each({"resource_uuid"}, "if_nonempty")
StorageLate == Each({"is_preview_suffix_enabled"}, "if_nondefault")
StoragePatch == Each({"name", "mount_path", "is_preview_suffix_enabled"}, "if_changed")
StorageRead ==
    Each({"name", "mount_path"}, "direct") @@ Each({"resource_uuid"}, "if_present") @@
    Each({"is_preview_suffix_enabled"}, "present_or_default")
Storage ==
    [Resource(StorageSchema, StoragePost, StoragePatch, StorageRead)
        EXCEPT !.late = StorageLate,
               !.made = Each({"uuid"}, "direct") @@ Each({"resource_uuid"}, "preserve_empty") @@ StorageRead,
               !.ids = Parents \cup {"uuid"}]

ScheduledTaskSchema ==
    Each(Parents \ {"database_uuid"}, Replacing(Optional)) @@ Each({"name", "command", "frequency"}, Required) @@
    Each({"container"}, DefaultedEmpty) @@ Each({"enabled", "timeout"}, Flag(Defaulted)) @@ Each({"uuid"}, KeptOutput)
ScheduledTaskPost ==
    Each(Parents \ {"database_uuid"}, "if_known") @@
    Each({"name", "command", "frequency", "enabled"}, "always") @@ Each({"container"}, "if_nonempty") @@
    Each({"timeout"}, "if_known")
ScheduledTaskPatch == Each({"name", "command", "frequency", "enabled", "container", "timeout"}, "if_changed")
ScheduledTaskRead ==
    Each({"name", "command", "frequency", "enabled", "container"}, "direct") @@
    Each({"timeout"}, "present_or_default")
ScheduledTask ==
    [Resource(ScheduledTaskSchema, ScheduledTaskPost, ScheduledTaskPatch, ScheduledTaskRead)
        EXCEPT !.made = Each({"uuid"}, "direct") @@ ScheduledTaskRead,
               !.ids = (Parents \ {"database_uuid"}) \cup {"uuid"}]

\* A tag on an object. A Create whose list fails leaves the UUID of the tag
\* to the next refresh, and till then the name stands for it in the id.
ResourceTagSchema ==
    Each({"resource_type", "resource_uuid", "tag_name"}, Replacing(Required)) @@
    Each({"id", "tag_uuid"}, KeptOutput)
AttachResourceTag == Each({"resource_type", "resource_uuid", "tag_name"}, "always")
ResourceTagRead == Each({"id", "tag_name", "tag_uuid"}, "direct")
ResourceTag ==
    [Resource(ResourceTagSchema, AttachResourceTag, None, ResourceTagRead)
        EXCEPT !.made = Each({"id", "tag_uuid"}, "direct"),
               !.updated = None,
               !.ids = {"id", "resource_type", "resource_uuid", "tag_uuid"}]
UnlistedResourceTag == [ResourceTag EXCEPT !.made = Each({"id"}, "direct") @@ Each({"tag_uuid"}, "kept_or_null")]

\* Another destination of an application.
ApplicationDestination ==
    LET ends == {"application_uuid", "destination_uuid"} IN
    [Resource(Each(ends, Replacing(Required)) @@ Each({"id"}, KeptOutput), Each(ends, "always"), None, None)
        EXCEPT !.made = Each({"id"}, "direct"), !.ids = ends \cup {"id"}]

ChildResources ==
    {ApplicationEnvVar, OtherEnvVar, SharedEnv, Storage, ScheduledTask, ResourceTag, UnlistedResourceTag,
     ApplicationDestination}
=============================================================================
