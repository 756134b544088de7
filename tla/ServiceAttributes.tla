-------------------------- MODULE ServiceAttributes ---------------------------
(***************************************************************************)
(* The attributes of a service, of the applications inside its compose     *)
(* stack, and of what else configures a part of an object that Coolify     *)
(* made: the backup schedule of a volume, the preview of a pull request,   *)
(* all the environment variables of an object at once.                     *)
(***************************************************************************)
EXTENDS Codecs

(***************************************************************************)
(* A service.                                                              *)
(***************************************************************************)
ServiceFlags ==
    {"connect_to_docker_network", "is_container_label_escape_enabled", "redact_all_env_values_in_logs"}
ServiceSchema ==
    Each({"uuid"}, KeptOutput) @@ Each({"name", "description"}, Kept) @@
    Each({"project_uuid", "server_uuid"}, ReplacingIfKnown(Required)) @@
    Each({"destination_uuid", "environment_uuid"}, ReplacingIfKnown(Optional)) @@
    Each({"environment_name"}, ReplacingIfKnown(KeptOrDefault)) @@ Each({"type"}, Replacing(Kept)) @@
    Each({"status"}, Live(Output)) @@ Each({"config_hash"}, Output) @@
    Each({"docker_compose"}, Secret(Output)) @@ Each({"docker_compose_raw"}, Secret(Kept)) @@
    Each(ServiceFlags \cup {"include_coolify_default_variables"}, Flag(Kept)) @@
    Each({"urls"}, Flag(Optional)) @@ Each({"instant_deploy"}, Own(Flag(Defaulted))) @@
    Each({"force_domain_override"}, Own(Flag(Optional)))
ServicePost ==
    Each({"project_uuid", "server_uuid"}, "always") @@
    Each({"environment_name", "environment_uuid", "destination_uuid", "name", "description", "type",
          "urls"}, "if_nonempty") @@
    Each(ServiceFlags \cup {"docker_compose_raw", "instant_deploy"}, "if_known")

\* Only a PATCH takes it.
ServiceLate == Each({"include_coolify_default_variables"}, "if_known")

\* Taking the URLs out of the configuration sends empty ones.
ServiceURLsForUpdate == Each({"urls"}, "for_update")
ServicePatch ==
    Each(ServiceFlags \cup {"name", "description", "docker_compose_raw",
                            "include_coolify_default_variables"}, "if_changed") @@
    ServiceURLsForUpdate
FlattenServiceURLs == Each({"urls"}, "if_configured")
FlattenService ==
    Each({"uuid"}, "direct") @@ Each({"description"}, "from_api") @@
    Each({"name", "status", "docker_compose", "config_hash", "connect_to_docker_network",
          "is_container_label_escape_enabled"}, "or_null") @@
    Each({"docker_compose_raw"}, "preserve_empty") @@ Each({"instant_deploy"}, "kept_or_default") @@
    Each({"redact_all_env_values_in_logs", "include_coolify_default_variables", "type", "project_uuid",
          "server_uuid", "environment_name"}, "if_present") @@
    FlattenServiceURLs
NullUnknownServiceCreate ==
    ServiceFlags \cup {"name", "description", "type", "docker_compose_raw", "status", "docker_compose",
                       "config_hash", "include_coolify_default_variables"}
WithheldFromServices == {"redact_all_env_values_in_logs", "include_coolify_default_variables"}
Service ==
    [Resource(ServiceSchema, ServicePost, ServicePatch, FlattenService)
        EXCEPT !.late = ServiceLate, !.normal = NullUnknownServiceCreate,
               !.ids = {"uuid", "project_uuid", "server_uuid", "environment_name"},
               !.gated = WithheldFromServices, !.announced = WithheldFromServices,
               !.preserved = WithheldFromServices]

(***************************************************************************)
(* An application inside a service, which is there before Create.          *)
(***************************************************************************)
PrepareInput ==
    {"noindex_domains", "is_force_https_enabled", "is_permanent_redirect_enabled", "redirect",
     "traefik_certificate_resolver", "max_restart_count"}
StackFlags ==
    {"exclude_from_status", "is_log_drain_enabled", "is_gzip_enabled", "is_stripprefix_enabled"}
StackTexts == {"url", "human_name", "description", "image"}
ServiceApplicationSchema ==
    Each({"service_uuid", "uuid"}, Replacing(Required)) @@ Each({"name"}, KeptOutput) @@
    Each({"fqdn", "status"}, Live(KeptOutput)) @@
    Each(StackTexts \cup {"traefik_certificate_resolver"}, Kept) @@
    Each(StackFlags \cup (PrepareInput \ {"traefik_certificate_resolver"}), Flag(Kept)) @@
    Each({"force_domain_override"}, Own(Flag(Optional)))
ServiceApplicationInput == Each(StackTexts \cup StackFlags \cup PrepareInput, "if_changed") @@
    Each({"service_uuid", "uuid"}, "always")
FlattenVersionGated == Each(PrepareInput, "preserve_empty")
FlattenServiceApplication ==
    Each({"name", "fqdn", "status"}, "direct") @@ Each(StackTexts \cup StackFlags, "preserve_empty") @@
    FlattenVersionGated
ServiceApplication ==
    [Resource(ServiceApplicationSchema, ServiceApplicationInput, ServiceApplicationInput,
              FlattenServiceApplication)
        EXCEPT !.existing = TRUE, !.deletes = FALSE, !.ids = {"service_uuid", "uuid"},
               !.gated = PrepareInput, !.announced = PrepareInput, !.preserved = PrepareInput]

(***************************************************************************)
(* The backup schedule of a volume: one PUT creates and replaces it, and   *)
(* nothing reads it.                                                       *)
(***************************************************************************)
UnsetDestructiveFields ==
    {"enabled", "save_s3", "disable_local_backup", "stop_during_backup", "retention_amount_locally",
     "retention_days_locally", "retention_max_storage_locally", "retention_amount_s3",
     "retention_days_s3", "retention_max_storage_s3"}
Parents == {"application_uuid", "service_uuid", "database_uuid"}
WithheldFromVolumes == {"s3_storage_uuids", "missing_backup_notification_days"}
VolumeBackupSchema ==
    Each({"uuid", "storage_type"}, KeptOutput) @@ Each(Parents, Replacing(Flag(Optional))) @@
    Each({"storage_uuid"}, Replacing(Required)) @@ Each({"frequency"}, Required) @@
    Each(UnsetDestructiveFields \cup WithheldFromVolumes \cup {"timeout"}, Flag(Kept)) @@
    Each({"s3_storage_uuid"}, Flag(Optional))
VolumeBackupInput ==
    Each({"storage_uuid", "frequency"}, "always") @@
    Each(UnsetDestructiveFields \cup Parents \cup WithheldFromVolumes \cup {"timeout"}, "if_known") @@
    Each({"s3_storage_uuid"}, "if_nonempty")
FillCreateDefaults == Each(UnsetDestructiveFields, "filled")
FlattenVolumeBackup ==
    Each(UnsetDestructiveFields \cup {"uuid", "storage_uuid", "storage_type", "frequency"}, "direct") @@
    Each({"s3_storage_uuid"}, "or_null") @@ Each(WithheldFromVolumes \cup {"timeout"}, "preserve_empty")
VolumeBackup ==
    [Resource(VolumeBackupSchema, FillCreateDefaults @@ VolumeBackupInput, VolumeBackupInput,
              FlattenVolumeBackup)
        EXCEPT !.read = None, !.existing = TRUE, !.unseen = TRUE, !.upserts = TRUE,
               !.ids = Parents \cup {"storage_uuid"},
               !.gated = WithheldFromVolumes, !.announced = WithheldFromVolumes,
               !.reset = UnsetDestructiveFields, !.demanded = UnsetDestructiveFields]

(***************************************************************************)
(* The domains of a preview, which are sent and never read.                *)
(***************************************************************************)
PreviewSchema ==
    Each({"application_uuid", "pull_request_id"}, Replacing(Flag(Required))) @@
    Each({"domains", "docker_compose_domains"}, Optional) @@
    Each({"force_domain_override"}, Own(Flag(Optional)))
PreviewDomainInput ==
    Each({"application_uuid", "pull_request_id"}, "always") @@
    Each({"domains", "docker_compose_domains"}, "if_nonempty")
ApplicationPreview ==
    [Resource(PreviewSchema, PreviewDomainInput, PreviewDomainInput, None)
        EXCEPT !.importable = FALSE, !.unseen = TRUE]

(***************************************************************************)
(* The environment variables of an object, all in one PATCH. Create and    *)
(* Update keep the plan, and so does Read what the token may not see.      *)
(***************************************************************************)
EnvsBulkSchema ==
    Each({"resource_type", "resource_uuid"}, Replacing(Required)) @@ Each({"variables"}, Secret(Required))
BulkUpdate == Each(DOMAIN EnvsBulkSchema, "always")
ReadEnvsBulk == Each({"variables"}, "if_present")
EnvsBulk ==
    [Resource(EnvsBulkSchema, BulkUpdate, BulkUpdate, ReadEnvsBulk)
        EXCEPT !.made = None, !.updated = None, !.existing = TRUE, !.deletes = FALSE, !.ids = {"resource_type", "resource_uuid"}]

ServiceResources == {Service, ServiceApplication, VolumeBackup, ApplicationPreview, EnvsBulk}
=============================================================================
