--------------------------- MODULE ServerAttributes ---------------------------
(***************************************************************************)
(* The attributes of servers, registered by address or bought from a cloud *)
(* provider, and of the settings of a server that are resources of their   *)
(* own. A server is created with few of them and patched afterwards; the   *)
(* settings exist as long as the server does, so Create adopts them.       *)
(***************************************************************************)
EXTENDS Codecs

(***************************************************************************)
(* Servers.                                                                *)
(***************************************************************************)
Tunables == {"concurrent_builds", "dynamic_timeout", "deployment_queue_limit",
             "server_disk_usage_notification_threshold"}
Interval == "server_disk_usage_notification_interval_hours"
Frequency == "server_disk_usage_check_frequency"
CommonServerAttrs ==
    Each({"uuid"}, KeptOutput) @@ Each({"name", "private_key_uuid"}, Required) @@
    Each({"description", Frequency}, Kept) @@ Each({"user"}, Defaulted) @@
    Each(Tunables \cup {"port", "is_build_server", "connection_timeout"}, Flag(Defaulted)) @@
    Each({"server_role", Interval}, Flag(Kept)) @@ Each({"is_reachable", "is_usable"}, Live(Flag(Output)))

SettingFlags ==
    {"is_cloudflare_tunnel", "is_metrics_enabled", "is_sentinel_enabled", "force_docker_cleanup",
     "delete_unused_volumes", "delete_unused_networks", "generate_exact_labels", "force_disabled",
     "is_jump_server", "is_swarm_manager", "is_swarm_worker", "is_sentinel_debug_enabled",
     "disable_application_image_retention", "sentinel_metrics_history_days",
     "sentinel_metrics_refresh_rate_seconds", "sentinel_push_interval_seconds", "docker_cleanup_threshold"}
SettingTexts == {"docker_cleanup_frequency", "sentinel_token", "sentinel_custom_url"}
ServerExtendedCoreAttrs ==
    Each({"wildcard_domain", "server_timezone"}, Kept) @@ Each({"is_terminal_enabled"}, Flag(Kept)) @@
    Each(SettingFlags, Flag(Output)) @@ Each(SettingTexts, Output)

DrainFlags == {"is_logdrain_axiom_enabled", "is_logdrain_custom_enabled", "is_logdrain_newrelic_enabled"}
DrainTexts ==
    {"logdrain_axiom_api_key", "logdrain_axiom_dataset_name", "logdrain_custom_config",
     "logdrain_custom_config_parser", "is_logdrain_highlight_enabled", "logdrain_highlight_project_id",
     "logdrain_newrelic_base_uri", "logdrain_newrelic_license_key"}
ServerLogdrainAttrs == Each(DrainFlags, Flag(Output)) @@ Each(DrainTexts, Output)

HostVersions ==
    {"compose_version", "compose_version_checked_at", "docker_version", "docker_version_checked_at"}
ServerHostProbeAttrs == Each(HostVersions, Live(Output))

ServerBackupCompressionAttrs == Each({"backup_compression_cpu_percentage"}, Flag(Kept))

ServerSchemaAttributes ==
    CommonServerAttrs @@ ServerExtendedCoreAttrs @@ ServerLogdrainAttrs @@ ServerHostProbeAttrs @@
    ServerBackupCompressionAttrs

ServerFieldsV451 == {"wildcard_domain", "server_timezone", "backup_compression_cpu_percentage"}

FlattenExtendedSettings ==
    Each(SettingFlags \cup DrainFlags \cup {"is_terminal_enabled"}, "direct") @@
    Each(SettingTexts \cup DrainTexts \cup HostVersions \cup ServerFieldsV451, "or_null")

FlattenServerCommon ==
    Each(Tunables \cup {"uuid", "name", "ip", "port", "user", "is_build_server", "is_reachable",
                        "is_usable"}, "direct") @@
    Each({"description"}, "from_api") @@ Each({"private_key_uuid"}, "if_present") @@
    Each({"connection_timeout"}, "or_default") @@ Each({Frequency}, "or_null") @@
    Each({"server_role", Interval}, "preserve_empty") @@ FlattenExtendedSettings

\* The defaults are left out of the PATCH as well, which stores the same.
BuildPostCreateSettingsInput ==
    Each(Tunables \cup {"connection_timeout", "is_terminal_enabled"}, "if_nondefault") @@
    Each({Frequency, "wildcard_domain", "server_timezone"}, "if_nonempty") @@
    Each({Interval, "backup_compression_cpu_percentage"}, "if_known")

\* The routes that buy a server take none of the shared attributes.
BuildPostCreateCloudProviderInput ==
    Each({"description"}, "if_known") @@ Each({"port", "user", "is_build_server"}, "if_nondefault") @@
    Each({"server_role"}, "if_nonempty") @@ BuildPostCreateSettingsInput

BuildServerUpdateInput ==
    Each(Tunables \cup ServerFieldsV451
         \cup {"name", "description", "ip", "port", "user", "private_key_uuid", "is_build_server",
               "connection_timeout", Frequency, Interval, "is_terminal_enabled", "server_role",
               "instant_validate"}, "if_changed")

NormalizeUnknownServerPlanFields == {"description", "ip", "is_reachable", "is_usable", Frequency, Interval}

\* What the client leaves out for an older Coolify, and what the provider
\* then warns of.
WithheldServerFields == ServerFieldsV451 \cup {Interval, "server_role"}
WarnUnsupportedServer == ServerFieldsV451 \cup {Interval}

AnyServer(schema, post, late, read) ==
    [Resource(schema @@ ServerSchemaAttributes, post, BuildServerUpdateInput, read @@ FlattenServerCommon)
        EXCEPT !.late = late, !.ids = {"uuid"}, !.normal = NormalizeUnknownServerPlanFields,
               !.gated = WithheldServerFields, !.announced = WarnUnsupportedServer,
               !.preserved = ServerFieldsV451]

CreateServerInput ==
    Each({"name", "ip", "port", "private_key_uuid", "user"}, "always") @@
    Each({"description", "server_role"}, "if_nonempty") @@ Each({"is_build_server"}, "if_nondefault") @@
    Each({"instant_validate"}, "if_known")
Server ==
    AnyServer(Each({"ip"}, Required) @@ Each({"instant_validate"}, Own(Flag(Kept))), CreateServerInput,
              BuildPostCreateSettingsInput, Each({"instant_validate"}, "kept_or_default"))

(***************************************************************************)
(* Cloud servers. What they are bought with is never read back.            *)
(***************************************************************************)
Bought(schema, chosen, given, filled, script) ==
    [AnyServer(schema @@ Each({"ip"}, KeptOutput) @@ Each({"instant_validate"}, Own(Flag(Defaulted))),
               Each(chosen \cup {"name", "private_key_uuid"}, "always") @@ Each(given, "if_known") @@
                   Each(script, "if_nonempty") @@ Each(filled, "filled") @@
                   Each({"instant_validate"}, "if_known"),
               BuildPostCreateCloudProviderInput, None)
        EXCEPT !.made = Each(filled, "kept_or_default") @@ FlattenServerCommon]

Choices(chosen, given, filled, script) ==
    Each(chosen, Replacing(Required)) @@ Each(given, Flag(Replacing(Optional))) @@
    Each(script, Secret(Replacing(Optional))) @@ Each(filled, Flag(ReplacingIfKnown(Kept)))

HetznerServer ==
    LET chosen == {"cloud_provider_token_uuid", "server_type", "location", "image"}
        given == {"hetzner_ssh_key_ids", "hetzner_firewall_ids", "hetzner_network_ids"}
        filled == {"enable_ipv4", "enable_ipv6", "enable_backups"}
        script == {"cloud_init_script"}
    IN Bought(Choices(chosen, given, filled, script), chosen, given, filled, script)

DigitaloceanServer ==
    LET chosen == {"cloud_provider_token_uuid", "size", "region", "image"}
        given == {"digitalocean_ssh_key_ids"}
        filled == {"enable_ipv6", "monitoring"}
        script == {"cloud_init_script"}
    IN Bought(Choices(chosen, given, filled, script), chosen, given, filled, script)

VultrServer ==
    LET chosen == {"cloud_provider_token_uuid", "plan", "region", "os_id"}
        given == {"vultr_ssh_key_ids"}
        filled == {"enable_ipv6", "disable_public_ipv4"}
        script == {"cloud_init_script"}
    IN Bought(Choices(chosen, given, filled, script), chosen, given, filled, script)

\* Replaced only by a change of what is known.
HostingerSchemaAttributes ==
    Each({"cloud_provider_token_uuid", "item_id", "data_center_id", "template_id"},
         ReplacingIfKnown(Required)) @@
    Each({"public_key_ids", "post_install_script_id"}, Flag(ReplacingIfKnown(Optional))) @@
    Each({"enable_backups"}, Flag(ReplacingIfKnown(Kept))) @@
    Each({"hostinger_virtual_machine_id"}, KeptOutput) @@
    Each({"hostinger_virtual_machine_status"}, Live(KeptOutput)) @@ Each({"provisioning"}, Live(Flag(Output)))
FlattenHostingerServer ==
    Each({"hostinger_virtual_machine_id", "hostinger_virtual_machine_status"}, "preserve_empty") @@
    Each({"provisioning"}, "direct") @@ FlattenServerCommon
HostingerServer ==
    [Bought(HostingerSchemaAttributes,
            {"cloud_provider_token_uuid", "item_id", "data_center_id", "template_id"},
            {"public_key_ids", "post_install_script_id"}, {"enable_backups"}, {})
        EXCEPT !.made = Each({"enable_backups"}, "kept_or_default") @@ FlattenHostingerServer,
               !.updated = FlattenHostingerServer, !.read = FlattenHostingerServer]

CloudServers == {HetznerServer, DigitaloceanServer, VultrServer, HostingerServer}

(***************************************************************************)
(* Settings of a server. Create and Update send the same request.          *)
(***************************************************************************)
Setting(schema, input, flatten) ==
    [Resource(Each({"server_uuid"}, Replacing(Required)) @@ schema, Each({"server_uuid"}, "always") @@ input,
              input, flatten)
        EXCEPT !.ids = {"server_uuid"}, !.existing = TRUE, !.deletes = FALSE]

SentinelFlags == {"is_sentinel_enabled", "is_metrics_enabled", "is_sentinel_debug_enabled"}
SentinelNumbers ==
    {"sentinel_metrics_refresh_rate_seconds", "sentinel_metrics_history_days", "sentinel_push_interval_seconds"}
TrafficNumbers ==
    {"traffic_topn", "traffic_sample_threshold", "traffic_retention_1h_days", "traffic_retention_1d_days",
     "is_geoip_enabled", "geoip_refresh_days"}
SentinelSecrets == {"sentinel_token", "geoip_maxmind_license_key"}
SentinelSchema ==
    Each(SentinelFlags \cup SentinelNumbers \cup TrafficNumbers \cup {"traffic_ip_mode"}, Flag(Kept)) @@
    Each(SentinelSecrets, Secret(Optional)) @@ Each({"sentinel_custom_url"}, Kept)
SentinelInput ==
    Each(SentinelFlags \cup SentinelNumbers \cup TrafficNumbers, "if_known") @@
    Each(SentinelSecrets \cup {"sentinel_custom_url", "traffic_ip_mode"}, "if_nonempty")
FlattenSentinel ==
    Each(SentinelFlags, "default_if_unknown") @@ Each(SentinelSecrets, "if_configured") @@
    Each(SentinelNumbers \cup TrafficNumbers \cup {"sentinel_custom_url", "traffic_ip_mode"}, "preserve_empty")
ClearTrafficSettings == TrafficNumbers \cup {"geoip_maxmind_license_key", "traffic_ip_mode"}
ServerSentinel ==
    [Setting(SentinelSchema, SentinelInput, FlattenSentinel)
        EXCEPT !.gated = ClearTrafficSettings, !.announced = {"traffic_ip_mode"},
               !.switches = {"is_sentinel_enabled"}, !.off = {"is_sentinel_enabled"}]

\* A proxy type that is already there is not sent again.
ProxyTexts == {"redirect_url", "proxy_error_page", "traefik_certificate_resolver"}
ProxyFlags == {"redirect_enabled", "generate_exact_labels"}
ProxySchema ==
    Each(ProxyTexts, Kept) @@ Each(ProxyFlags \cup {"proxy_type"}, Flag(Kept)) @@ Each({"configuration"}, Optional)
ProxyUpdateFromPlan ==
    Each(ProxyTexts \cup ProxyFlags \cup {"proxy_type"}, "if_known") @@ Each({"configuration"}, "if_nonempty")
FlattenProxy ==
    Each(ProxyTexts \cup ProxyFlags, "preserve_empty") @@ Each({"proxy_type"}, "if_present") @@
    Each({"configuration"}, "if_configured")
ServerProxy ==
    LET kept == Each({"configuration"}, "kept") @@ FlattenProxy
    IN [Setting(ProxySchema, ProxyUpdateFromPlan, FlattenProxy)
            EXCEPT !.made = kept, !.updated = kept,
                   !.gated = {"proxy_error_page"}, !.announced = {"proxy_error_page"}]

LogdrainFlags ==
    {"is_logdrain_newrelic_enabled", "is_logdrain_axiom_enabled", "is_logdrain_custom_enabled"}
LogdrainTexts ==
    {"logdrain_newrelic_license_key", "logdrain_newrelic_base_uri", "logdrain_axiom_dataset_name",
     "logdrain_axiom_api_key", "logdrain_custom_config_parser"}
CloudwatchTexts ==
    {"logdrain_cloudwatch_region", "logdrain_cloudwatch_group", "logdrain_cloudwatch_stream_prefix"}
CloudwatchFlag == "is_logdrain_cloudwatch_enabled"
LogdrainSchema ==
    Each(LogdrainFlags \cup {CloudwatchFlag}, Flag(Kept)) @@
    Each(LogdrainTexts \cup CloudwatchTexts \cup {"logdrain_axiom_domain", "logdrain_custom_config"}, Kept)
LogdrainInput ==
    Each(LogdrainFlags \cup {CloudwatchFlag}, "if_known") @@
    Each(LogdrainTexts \cup CloudwatchTexts \cup {"logdrain_axiom_domain", "logdrain_custom_config"},
         "if_nonempty")
FlattenLogdrain ==
    Each(LogdrainFlags, "default_if_unknown") @@ Each(LogdrainTexts, "or_null") @@
    Each(CloudwatchTexts \cup {CloudwatchFlag, "logdrain_axiom_domain", "logdrain_custom_config"},
         "preserve_empty")
WarnUnsupportedLogdrain == CloudwatchTexts \cup {CloudwatchFlag, "logdrain_axiom_domain"}
ServerLogdrain ==
    [Setting(LogdrainSchema, LogdrainInput, FlattenLogdrain)
        EXCEPT !.gated = WarnUnsupportedLogdrain, !.announced = WarnUnsupportedLogdrain,
               !.switches = LogdrainFlags \cup {CloudwatchFlag}, !.off = LogdrainFlags]

CleanupFlags ==
    {"force_docker_cleanup", "delete_unused_volumes", "delete_unused_networks",
     "disable_application_image_retention"}
DockerCleanupSchema ==
    Each({"docker_cleanup_frequency"}, Kept) @@ Each(CleanupFlags \cup {"docker_cleanup_threshold"}, Flag(Kept))
DockerCleanupInput ==
    Each({"docker_cleanup_frequency"}, "if_nonempty") @@
    Each(CleanupFlags \cup {"docker_cleanup_threshold"}, "if_known")
FlattenDockerCleanup ==
    Each({"docker_cleanup_frequency"}, "seed") @@ Each({"docker_cleanup_threshold"}, "if_present") @@
    Each(CleanupFlags, "default_if_unknown")
ServerDockerCleanup == Setting(DockerCleanupSchema, DockerCleanupInput, FlattenDockerCleanup)

\* No answer has the password.
ServerRegistry ==
    [Resource(Each({"server_uuid", "registry"}, Replacing(Required)) @@ Each({"username"}, Required) @@
                  Each({"password"}, Secret(Required)),
              Each({"server_uuid", "registry", "username", "password"}, "always"),
              Each({"username", "password"}, "always"), Each({"username"}, "if_present"))
        EXCEPT !.ids = {"server_uuid", "registry"}]

ServerCloudflareTunnel ==
    [Setting(Each({"is_cloudflare_tunnel"}, Flag(Required)), Each({"is_cloudflare_tunnel"}, "always"),
             Each({"is_cloudflare_tunnel"}, "direct"))
        EXCEPT !.switches = {"is_cloudflare_tunnel"}, !.off = {"is_cloudflare_tunnel"}]

ServerResources ==
    CloudServers \cup
    {Server, ServerSentinel, ServerProxy, ServerLogdrain, ServerDockerCleanup, ServerRegistry,
     ServerCloudflareTunnel}
=============================================================================
