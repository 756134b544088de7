---------------------------- MODULE TeamAttributes ----------------------------
(***************************************************************************)
(* The attributes of what a team owns: projects and environments,          *)
(* destinations, keys, tokens, scripts, S3 storages and Git sources.       *)
(***************************************************************************)
EXTENDS Codecs

ProjectSchema ==
    Each({"name"}, Required) @@ Each({"description"}, Kept) @@
    Each({"uuid"}, KeptOutput) @@ Each({"icon_path", "icon_storage_type"}, Output)
ProjectPost == Each({"name"}, "always") @@ Each({"description"}, "if_nonempty")
ProjectPatch == Each({"name", "description"}, "if_changed")
ProjectRead ==
    Each({"uuid", "name"}, "direct") @@ Each({"description"}, "from_api") @@
    Each({"icon_path", "icon_storage_type"}, "or_null")
Project == [Resource(ProjectSchema, ProjectPost, ProjectPatch, ProjectRead) EXCEPT !.ids = {"uuid"}]

\* POST refuses a description; Create sends a non-empty one in a PATCH.
EnvironmentSchema ==
    Each({"project_uuid"}, Replacing(Required)) @@ Each({"name"}, Required) @@
    Each({"description"}, Kept) @@ Each({"uuid"}, KeptOutput) @@ Each({"id"}, Flag(KeptOutput))
EnvironmentPost == Each({"project_uuid", "name"}, "always") @@ Each({"description"}, "if_nonempty")
EnvironmentPatch == Each({"name", "description"}, "always")
EnvironmentRead ==
    Each({"name", "id"}, "direct") @@ Each({"uuid"}, "preserve_empty") @@
    Each({"description"}, "present_or_empty")
Environment ==
    [Resource(EnvironmentSchema, EnvironmentPost, EnvironmentPatch, EnvironmentRead)
        EXCEPT !.updated = Each({"uuid"}, "present_or_old") @@ EnvironmentRead,
               !.made = Each({"description"}, "preserve_empty") @@ EnvironmentRead,
               !.ids = {"project_uuid", "name"}]

DestinationSchema ==
    Each({"server_uuid", "network"}, Replacing(Required)) @@ Each({"name"}, Kept) @@
    Each({"type"}, Flag(Replacing(Kept))) @@ Each({"uuid"}, KeptOutput)
DestinationPost ==
    Each({"server_uuid", "network"}, "always") @@ Each({"name", "type"}, "if_nonempty")
DestinationPatch == Each({"name"}, "always")
DestinationRead ==
    Each({"uuid", "network", "type"}, "direct") @@ Each({"name"}, "or_null") @@
    Each({"server_uuid"}, "if_present")
Destination ==
    [Resource(DestinationSchema, DestinationPost, DestinationPatch, DestinationRead)
        EXCEPT !.ids = {"uuid"}]

\* Create and Update keep the key that was planned, Read the one it has.
PrivateKeySchema ==
    Each({"name"}, Required) @@ Each({"private_key"}, Secret(Required)) @@
    Each({"description"}, Kept) @@ Each({"uuid", "public_key", "fingerprint"}, KeptOutput) @@
    Each({"is_git_related"}, Flag(KeptOutput))
PrivateKeyPost == Each({"name", "private_key"}, "always") @@ Each({"description"}, "if_nonempty")
PrivateKeyPatch == Each({"name", "description"}, "if_changed") @@ Each({"private_key"}, "if_known")
PrivateKeyRead ==
    Each({"private_key"}, "seed") @@ Each({"description"}, "from_api") @@
    Each({"public_key", "fingerprint"}, "or_null") @@ Each({"uuid", "name", "is_git_related"}, "direct")
PrivateKey ==
    [Resource(PrivateKeySchema, PrivateKeyPost, PrivateKeyPatch, PrivateKeyRead)
        EXCEPT !.made["private_key"] = "kept", !.updated["private_key"] = "kept", !.ids = {"uuid"}]

CloudTokenSchema ==
    Each({"name"}, Required) @@ Each({"cloud_provider"}, Replacing(Required)) @@
    Each({"token"}, Secret(ReplacingIfKnown(Required))) @@ Each({"uuid"}, KeptOutput) @@
    Each({"description"}, Output)
CloudTokenPost == Each({"name", "cloud_provider", "token"}, "always")
CloudTokenPatch == Each({"name"}, "if_changed")
CloudTokenRead ==
    Each({"uuid", "name", "cloud_provider"}, "direct") @@ Each({"description"}, "from_api") @@
    Each({"token"}, "if_present")
CloudToken == [Resource(CloudTokenSchema, CloudTokenPost, CloudTokenPatch, CloudTokenRead)
                   EXCEPT !.ids = {"uuid"}]

CloudInitScriptSchema ==
    Each({"name"}, Required) @@ Each({"script"}, Secret(Required)) @@ Each({"uuid"}, KeptOutput)
CloudInitScriptWrite == Each({"name", "script"}, "always")
CloudInitScriptRead == Each({"uuid", "name"}, "direct") @@ Each({"script"}, "if_present")
CloudInitScript ==
    [Resource(CloudInitScriptSchema, CloudInitScriptWrite, CloudInitScriptWrite, CloudInitScriptRead)
        EXCEPT !.ids = {"uuid"}]

\* use_path_style_endpoint is for Coolify 4.5.1 and later.
S3StorageSchema ==
    Each({"name", "endpoint", "bucket", "region"}, Required) @@
    Each({"key", "secret"}, Secret(Required)) @@ Each({"description"}, Kept) @@
    Each({"use_path_style_endpoint"}, Flag(Kept)) @@ Each({"is_usable"}, Flag(Defaulted)) @@
    Each({"uuid"}, KeptOutput)
S3StoragePost ==
    Each({"name", "endpoint", "bucket", "region", "key", "secret"}, "always") @@
    Each({"description"}, "if_nonempty") @@ Each({"use_path_style_endpoint", "is_usable"}, "if_known")
S3StoragePatch ==
    Each({"name", "description", "endpoint", "bucket", "region", "key", "secret",
          "use_path_style_endpoint", "is_usable"}, "if_changed")
S3StorageRead ==
    Each({"uuid", "name", "endpoint", "bucket", "region"}, "direct") @@
    Each({"description"}, "or_null") @@ Each({"key", "secret"}, "if_present") @@
    Each({"use_path_style_endpoint"}, "preserve_empty") @@ Each({"is_usable"}, "present_or_default")
S3Storage ==
    [Resource(S3StorageSchema, S3StoragePost, S3StoragePatch, S3StorageRead)
        EXCEPT !.ids = {"uuid"}, !.gated = {"use_path_style_endpoint"},
               !.announced = {"use_path_style_endpoint"}]

\* A webhook secret that is not configured is generated; the key is never
\* read back.
GitHubAppSchema ==
    Each({"name", "client_id", "private_key_uuid"}, Required) @@ Each({"client_secret"}, Secret(Required)) @@
    Each({"app_id", "installation_id"}, Flag(Required)) @@ Each({"organization_name"}, Kept) @@
    Each({"custom_user"}, Defaulted) @@ Each({"custom_port"}, Flag(Defaulted)) @@
    Each({"webhook_secret"}, Secret(Computed)) @@ Each({"is_system_wide"}, Flag(Replacing(Kept))) @@
    Each({"uuid"}, KeptOutput) @@ Each({"id"}, Flag(KeptOutput))
GitHubRunnerSchema ==
    Each({"actions", "organization_self_hosted_runners", "webhook_events", "runner_group_id"}, KeptOutput)
GitHubAppPost ==
    Each({"name", "app_id", "installation_id", "client_id", "client_secret", "private_key_uuid"}, "always") @@
    Each({"organization_name", "custom_user"}, "if_nonempty") @@
    Each({"custom_port", "is_system_wide"}, "if_known") @@ Each({"webhook_secret"}, "filled")
GitHubAppPatch ==
    Each({"name", "organization_name", "custom_user", "custom_port", "app_id", "installation_id", "client_id",
          "client_secret", "webhook_secret", "private_key_uuid"}, "if_changed")
GitHubAppRead ==
    Each({"id", "name", "app_id", "installation_id", "client_id", "is_system_wide"}, "direct") @@
    Each({"uuid", "organization_name"}, "or_null") @@ Each({"custom_user", "custom_port"}, "present_or_default") @@
    Each({"client_secret", "webhook_secret"}, "if_present")
GitHubRunnerRead ==
    Each({"actions", "organization_self_hosted_runners", "webhook_events", "runner_group_id"}, "or_null")
GitHubApp ==
    [Resource(GitHubAppSchema @@ GitHubRunnerSchema, GitHubAppPost, GitHubAppPatch,
              GitHubAppRead @@ GitHubRunnerRead)
        EXCEPT !.made["webhook_secret"] = "present_or_default",
               !.updated["webhook_secret"] = "present_or_old", !.ids = {"app_id"}]

GitLabAppSchema ==
    Each({"name", "html_url"}, Required) @@ Each({"api_url", "custom_user"}, Kept) @@
    Each({"custom_port"}, Flag(Kept)) @@ Each({"webhook_token"}, Secret(Kept)) @@
    Each({"group_name", "client_id", "redirect_uri"}, Optional) @@ Each({"client_secret"}, Secret(Optional)) @@
    Each({"is_system_wide"}, Flag(Replacing(Kept))) @@ Each({"uuid"}, KeptOutput) @@
    Each({"id"}, Flag(KeptOutput))
GitLabAppPost ==
    Each({"name", "html_url"}, "always") @@ Each({"custom_port", "is_system_wide"}, "if_known") @@
    Each({"api_url", "custom_user", "group_name", "client_id", "client_secret", "webhook_token",
          "redirect_uri"}, "if_nonempty")
GitLabAppPatch ==
    Each({"name", "html_url"}, "always") @@
    Each({"api_url", "custom_user", "custom_port", "group_name", "client_id", "client_secret",
          "webhook_token", "redirect_uri"}, "if_known")
GitLabAppRead ==
    Each({"id", "name", "html_url", "is_system_wide"}, "direct") @@
    Each({"uuid", "api_url", "group_name", "client_id", "client_secret", "redirect_uri"}, "if_present") @@
    Each({"custom_user", "custom_port"}, "present_or_default") @@ Each({"webhook_token"}, "if_present")
GitLabApp ==
    [Resource(GitLabAppSchema, GitLabAppPost, GitLabAppPatch, GitLabAppRead)
        EXCEPT !.made["webhook_token"] = "present_or_empty", !.ids = {"id"}]

\* Of the metadata only the token knows; GET does not return it either.
IntegrationTokenSchema ==
    Each({"name"}, Required) @@ Each({"integration_provider"}, Replacing(Required)) @@
    Each({"token"}, Secret(Required)) @@ Each({"capabilities"}, Kept) @@
    Each({"automatic_dns", "proxied_dns"}, Flag(Kept)) @@
    Each({"metadata_client_id", "metadata_namespace"}, Optional) @@
    Each({"metadata_base_url"}, Secret(Optional)) @@ Each({"metadata_timeout"}, Flag(Optional)) @@
    Each({"dns_zones_count", "zones_synced_at", "created_at", "updated_at"}, Output) @@
    Each({"uuid"}, KeptOutput)
IntegrationTokenPost ==
    Each({"name", "integration_provider", "token"}, "always") @@
    Each({"automatic_dns", "proxied_dns", "metadata_timeout"}, "if_known") @@
    Each({"capabilities", "metadata_client_id", "metadata_namespace", "metadata_base_url"}, "if_nonempty")
IntegrationTokenPatch ==
    Each({"name", "token", "automatic_dns", "proxied_dns"}, "if_changed") @@
    Each({"capabilities", "metadata_client_id", "metadata_namespace", "metadata_base_url",
          "metadata_timeout"}, "if_different")
IntegrationTokenRead ==
    Each({"uuid"}, "direct") @@ Each({"name", "integration_provider"}, "if_present") @@
    Each({"capabilities", "automatic_dns", "proxied_dns", "dns_zones_count", "zones_synced_at",
          "created_at", "updated_at"}, "preserve_empty")
IntegrationToken ==
    [Resource(IntegrationTokenSchema, IntegrationTokenPost, IntegrationTokenPatch, IntegrationTokenRead)
        EXCEPT !.ids = {"uuid"}]

TeamResources ==
    {Project, Environment, Destination, PrivateKey, CloudToken, CloudInitScript, S3Storage, GitHubApp,
     GitLabApp, IntegrationToken}
=============================================================================
