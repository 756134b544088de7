------------------------- MODULE ApplicationAttributes -------------------------
(***************************************************************************)
(* The attributes of the five application resources: from a public         *)
(* repository, a private one by key or by GitHub App, a Dockerfile and a   *)
(* Docker image. Most are shared; the POST takes few of them, and the rest *)
(* travels in a PATCH after it.                                            *)
(***************************************************************************)
EXTENDS Codecs

(***************************************************************************)
(* Schema.                                                                 *)
(***************************************************************************)
GitAppSourceAttrs ==
    Each({"git_repository", "build_pack", "ports_exposes"}, Required) @@ Each({"git_branch"}, Defaulted) @@
    Each({"dockerfile_location"}, Optional) @@
    Each({"docker_compose_location", "docker_compose_custom_start_command",
          "docker_compose_custom_build_command", "dockerfile_target_build"}, Kept)

Commands == {"install_command", "build_command", "start_command"}
GitAppCommandAttrs == Each(Commands, Kept)

LimitStrings == {"limits_memory", "limits_memory_swap", "limits_memory_reservation", "limits_cpus"}
LimitNumbers == {"limits_memory_swappiness", "limits_cpu_shares"}
HealthNumbers == {"health_check_interval", "health_check_timeout", "health_check_retries",
                  "health_check_start_period"}
CoreAppAttrs ==
    Each({"uuid"}, KeptOutput) @@ Each({"name", "description", "domains"}, Kept) @@
    Each({"project_uuid", "server_uuid"}, ReplacingIfKnown(Required)) @@
    Each({"destination_uuid", "environment_uuid"}, ReplacingIfKnown(Optional)) @@
    Each({"environment_name"}, ReplacingIfKnown(KeptOrDefault)) @@ Each({"status"}, Live(Output)) @@
    Each(LimitStrings \cup {"limits_cpuset", "health_check_port"}, Optional) @@
    Each(LimitNumbers, Flag(Optional)) @@ Each({"health_check_enabled"}, Flag(Kept)) @@
    Each({"health_check_path"}, Defaulted) @@ Each(HealthNumbers, Flag(Defaulted)) @@
    Each({"is_auto_deploy_enabled"}, Flag(Defaulted)) @@ Each({"redeploy_on_update"}, Own(Flag(Defaulted)))

ExtendedBuildDeployAttrs ==
    Each({"base_directory", "publish_directory", "docker_compose_domains", "watch_paths"}, Kept) @@
    Each({"dockerfile"}, Secret(Replacing(Optional))) @@
    Each({"docker_registry_image_tag", "git_commit_sha"}, Optional) @@
    Each({"redirect", "static_image", "is_static", "is_spa", "is_preserve_repository_enabled",
          "use_build_server"}, Flag(Defaulted)) @@
    Each({"is_preview_deployments_enabled", "use_build_secrets", "stop_grace_period"}, Flag(Kept)) @@
    Each({"instant_deploy"}, Own(Flag(Defaulted)))

DeploymentCommands ==
    {"pre_deployment_command", "pre_deployment_command_container", "post_deployment_command",
     "post_deployment_command_container"}
ExtendedRuntimeAttrs ==
    Each({"autogenerate_domain"}, Own(Flag(Defaulted))) @@ Each({"preview_url_template"}, KeptOutput) @@
    Each({"max_restart_count"}, Flag(Kept)) @@
    Each({"restart_limit_reached", "container_present", "domain_port_overrides"}, Live(Flag(Output))) @@
    Each(DeploymentCommands, Optional)

HealthChoices == {"health_check_host", "health_check_method", "health_check_scheme", "health_check_type"}
ExtendedHealthCheckAttrs ==
    Each({"health_check_command", "health_check_response_text"}, Optional) @@
    Each(HealthChoices \cup {"health_check_return_code"}, Flag(Defaulted))

WebhookSecrets ==
    {"manual_webhook_secret_bitbucket", "manual_webhook_secret_gitea", "manual_webhook_secret_github",
     "manual_webhook_secret_gitlab"}
NetworkFlags ==
    {"connect_to_docker_network", "is_container_label_escape_enabled", "is_force_https_enabled",
     "is_http_basic_auth_enabled"}
SecurityNetworkAttrs ==
    Each(NetworkFlags, Flag(Defaulted)) @@
    Each({"custom_docker_run_options", "custom_network_aliases", "ports_mappings",
          "http_basic_auth_username"}, Optional) @@
    Each({"custom_labels", "custom_nginx_configuration", "http_basic_auth_password"}, Secret(Optional)) @@
    Each({"force_domain_override"}, Own(Flag(Optional))) @@ Each(WebhookSecrets, Secret(Kept))

SettingsV42 ==
    {"is_git_submodules_enabled", "is_git_lfs_enabled", "is_git_shallow_clone_enabled", "disable_build_cache",
     "inject_build_args_to_dockerfile", "include_source_commit_in_build", "is_env_sorting_enabled",
     "is_pr_deployments_public_enabled", "docker_images_to_keep", "is_gzip_enabled",
     "is_stripprefix_enabled", "is_raw_compose_deployment_enabled"}
ApplicationSettingAttrsV42 == Each(SettingsV42, Flag(Kept))

FlagsV43 == {"is_log_drain_enabled", "is_gpu_enabled", "is_consistent_container_name_enabled"}
NamesV43 == {"gpu_count", "gpu_device_ids", "gpu_options", "custom_internal_name"}
ApplicationSettingAttrsV43 ==
    Each(FlagsV43, Flag(Kept)) @@ Each(NamesV43 \cup {"gpu_driver", "noindex_domains"}, Kept)

ApplicationSettingAttrsV44 == Each({"custom_container_name_prefix"}, Kept)

HashNames ==
    {"http_basic_auth_hash_algorithm", "http_basic_auth_argon2id_time_cost", "http_basic_auth_bcrypt_cost"}
SettingsV45 ==
    {"http_basic_auth_argon2id_memory_cost", "is_permanent_redirect_enabled", "redact_all_env_values_in_logs"}
ApplicationSettingAttrsV45 == Each(HashNames, Kept) @@ Each(SettingsV45, Flag(Kept))

SettingsV451 ==
    {"rolling_update_drain_seconds", "include_coolify_default_variables", "is_container_label_readonly_enabled"}
ApplicationSettingAttrsV451 == Each(SettingsV451, Flag(Kept))

ApplicationSettingAttrsV46 == Each({"git_https_username"}, Kept) @@ Each({"git_https_password"}, Secret(Kept))

ApplicationSettingAttrsAheadOfPin == Each({"traefik_certificate_resolver"}, Kept)

CommonAppSchema ==
    CoreAppAttrs @@ ExtendedBuildDeployAttrs @@ ExtendedRuntimeAttrs @@ ExtendedHealthCheckAttrs @@
    SecurityNetworkAttrs @@ ApplicationSettingAttrsV42 @@ ApplicationSettingAttrsV43 @@
    ApplicationSettingAttrsV44 @@ ApplicationSettingAttrsV45 @@ ApplicationSettingAttrsV451 @@
    ApplicationSettingAttrsV46 @@ ApplicationSettingAttrsAheadOfPin

(***************************************************************************)
(* Update.                                                                 *)
(***************************************************************************)
BuildCoreUpdateFields ==
    Each({"name", "description", "domains", "limits_cpuset", "health_check_enabled", "health_check_path",
          "health_check_port", "health_check_command", "health_check_response_text",
          "health_check_return_code", "is_auto_deploy_enabled"}
         \cup LimitStrings \cup LimitNumbers \cup HealthNumbers \cup HealthChoices, "if_changed") @@
    Each({"git_repository", "git_branch", "build_pack", "ports_exposes", "dockerfile_location"}
         \cup Commands, "if_changed")

AddExtendedUpdateFields ==
    Each({"base_directory", "publish_directory", "docker_registry_image_tag", "git_commit_sha", "watch_paths",
          "custom_docker_run_options", "custom_labels", "custom_network_aliases", "custom_nginx_configuration",
          "ports_mappings", "redirect", "static_image", "is_static", "is_spa", "http_basic_auth_username",
          "http_basic_auth_password", "is_preserve_repository_enabled", "use_build_server",
          "is_preview_deployments_enabled", "use_build_secrets", "stop_grace_period",
          "force_domain_override", "dockerfile_target_build", "docker_compose_location",
          "docker_compose_custom_build_command", "docker_compose_custom_start_command"}
         \cup NetworkFlags \cup DeploymentCommands \cup WebhookSecrets, "if_changed")

\* Two spellings of the same mapping are one value here.
DockerComposeDomainsIfChanged == Each({"docker_compose_domains"}, "if_changed")

\* Only the list of noindex domains is emptied when it is no longer set.
AddApplicationSettingUpdateFields ==
    Each(SettingsV42 \cup {"max_restart_count"} \cup FlagsV43 \cup NamesV43
         \cup {"gpu_driver", "custom_container_name_prefix", "traefik_certificate_resolver"}
         \cup HashNames \cup SettingsV45 \cup SettingsV451
         \cup {"git_https_username", "git_https_password"}, "if_changed") @@
    Each({"noindex_domains"}, "if_different")

BuildUpdateInput ==
    BuildCoreUpdateFields @@ AddExtendedUpdateFields @@ DockerComposeDomainsIfChanged @@
    AddApplicationSettingUpdateFields

(***************************************************************************)
(* The PATCH after the POST.                                               *)
(***************************************************************************)

\* What asks for it: anything that is not what Coolify has by itself.
HasNonDefaultAppExtendedFields ==
    Each(LimitStrings \cup LimitNumbers \cup HealthNumbers \cup HealthChoices
         \cup {"health_check_enabled", "health_check_path", "health_check_return_code",
               "is_auto_deploy_enabled"} \cup NetworkFlags
         \cup {"is_static", "is_spa", "is_preserve_repository_enabled", "use_build_server",
               "is_preview_deployments_enabled", "use_build_secrets"}
         \cup SettingsV42 \cup FlagsV43
         \cup {"gpu_driver", "force_domain_override", "redirect", "static_image"}, "if_nondefault") @@
    Each({"limits_cpuset", "health_check_port", "health_check_command", "health_check_response_text",
          "base_directory", "dockerfile_target_build", "publish_directory", "docker_registry_image_tag",
          "docker_compose_domains", "git_commit_sha", "watch_paths", "custom_docker_run_options",
          "custom_labels", "custom_network_aliases", "custom_nginx_configuration", "ports_mappings",
          "http_basic_auth_username", "http_basic_auth_password"}
         \cup DeploymentCommands \cup WebhookSecrets \cup NamesV43
         \cup {"custom_container_name_prefix", "traefik_certificate_resolver"} \cup HashNames, "if_nonempty") @@
    Each({"stop_grace_period", "git_https_username", "git_https_password", "noindex_domains",
          "max_restart_count"} \cup SettingsV45 \cup SettingsV451, "if_known")

BuildPostCreatePatch ==
    LimitStrings \cup LimitNumbers \cup {"limits_cpuset", "health_check_enabled", "health_check_path",
        "health_check_port", "health_check_command", "health_check_response_text",
        "health_check_return_code", "is_auto_deploy_enabled"} \cup HealthNumbers \cup HealthChoices
    \cup {"base_directory", "dockerfile_target_build", "publish_directory", "docker_registry_image_tag",
          "docker_compose_domains", "git_commit_sha", "watch_paths", "custom_docker_run_options",
          "custom_labels", "custom_network_aliases", "custom_nginx_configuration", "ports_mappings",
          "redirect", "static_image", "is_static", "is_spa", "http_basic_auth_username",
          "http_basic_auth_password"} \cup DeploymentCommands \cup WebhookSecrets \cup NetworkFlags
    \cup {"is_preserve_repository_enabled", "use_build_server", "is_preview_deployments_enabled",
          "use_build_secrets", "stop_grace_period", "force_domain_override"}

SetApplicationSettingPostCreate ==
    SettingsV42 \cup {"max_restart_count"} \cup FlagsV43 \cup NamesV43
    \cup {"gpu_driver", "custom_container_name_prefix", "traefik_certificate_resolver"} \cup HashNames
    \cup SettingsV45 \cup SettingsV451 \cup {"git_https_username", "git_https_password", "noindex_domains"}

PostCreatePatchExtendedFields ==
    [a \in DOMAIN HasNonDefaultAppExtendedFields \cap (BuildPostCreatePatch \cup SetApplicationSettingPostCreate)
        |-> HasNonDefaultAppExtendedFields[a]]

(***************************************************************************)
(* Flattening. An answer is read into the plan by Create and Update, into  *)
(* the state by Read.                                                      *)
(***************************************************************************)

\* The server, the project and the environment are copied when the answer
\* has them.
FlattenApplicationCommon ==
    Each({"uuid", "name", "git_repository", "git_branch", "build_pack", "domains"}, "direct") @@
    Each({"description"}, "from_api") @@ Each({"ports_exposes"}, "seed") @@
    Each(Commands \cup {"status"}, "or_null") @@ Each({"redeploy_on_update"}, "kept_or_default") @@
    Each({"dockerfile_location", "project_uuid", "server_uuid", "environment_name"}, "if_present")

FlattenLimitsAndHealth ==
    Each(LimitStrings \cup LimitNumbers \cup HealthNumbers \cup {"health_check_path"}, "if_configured") @@
    Each({"limits_cpuset", "health_check_port", "health_check_command", "health_check_response_text"},
         "or_clear") @@
    Each(HealthChoices \cup {"health_check_enabled"}, "or_default") @@
    Each({"health_check_return_code"}, "if_present") @@
    Each({"is_auto_deploy_enabled"}, "present_or_default")

FlattenExtendedFields ==
    Each({"base_directory"}, "seed_if_configured") @@
    Each({"git_commit_sha", "custom_labels", "custom_nginx_configuration", "dockerfile",
          "http_basic_auth_username", "http_basic_auth_password"}, "if_configured") @@
    Each({"publish_directory", "watch_paths", "dockerfile_target_build", "docker_compose_location",
          "docker_compose_custom_build_command", "docker_compose_custom_start_command"}, "or_null") @@
    Each({"docker_registry_image_tag", "custom_docker_run_options", "custom_network_aliases",
          "ports_mappings"} \cup DeploymentCommands, "or_clear")

ResolveDockerComposeDomains == Each({"docker_compose_domains"}, "or_null")

FlattenExtendedDefaults ==
    Each({"redirect", "static_image"}, "or_default") @@ Each({"preview_url_template"}, "or_null") @@
    Each(WebhookSecrets \cup {"stop_grace_period"}, "preserve_empty") @@
    Each(NetworkFlags \cup {"is_static", "is_spa", "is_preserve_repository_enabled", "use_build_server",
         "is_preview_deployments_enabled", "use_build_secrets"}, "present_or_default") @@
    Each({"instant_deploy", "autogenerate_domain"}, "kept_or_default")

FlattenRestartLimitFields ==
    Each({"max_restart_count"}, "preserve_empty") @@
    Each({"restart_limit_reached", "container_present"}, "or_null")

FlattenDomainPortOverrides == Each({"domain_port_overrides"}, "or_null")

FlattenApplicationSettingFields ==
    Each(SettingsV42 \cup FlagsV43 \cup {"gpu_driver"}, "present_or_default") @@
    Each(NamesV43 \cup {"custom_container_name_prefix"}, "or_null") @@
    Each({"traefik_certificate_resolver", "git_https_username", "noindex_domains"}, "preserve_empty") @@
    Each({"git_https_password"}, "seed") @@
    Each(HashNames \cup SettingsV45 \cup SettingsV451, "if_present")

FlattenApplication ==
    FlattenApplicationCommon @@ FlattenLimitsAndHealth @@ FlattenExtendedFields @@
    ResolveDockerComposeDomains @@ FlattenExtendedDefaults @@ FlattenRestartLimitFields @@
    FlattenDomainPortOverrides @@ FlattenApplicationSettingFields

\* What ImportState sets, because Read would leave it null.
SetImportDefaults ==
    HealthNumbers \cup HealthChoices \cup NetworkFlags
    \cup {"health_check_enabled", "health_check_path", "health_check_return_code", "is_auto_deploy_enabled",
          "redirect", "static_image", "is_static", "is_spa", "is_preserve_repository_enabled",
          "use_build_server", "is_preview_deployments_enabled", "use_build_secrets"}

ImportApplicationState == {"uuid", "project_uuid", "server_uuid", "environment_name"}

\* What Create makes null before it flattens.
NormalizeCommonAppCreateState ==
    DOMAIN CommonAppSchema \ {"max_restart_count", "restart_limit_reached", "container_present",
                              "domain_port_overrides", "noindex_domains", "redeploy_on_update",
                              "instant_deploy"}

(***************************************************************************)
(* Versions of Coolify, and redeployment.                                  *)
(***************************************************************************)

\* What the client leaves out of a PATCH for an older Coolify.
ClearApplicationSettingsV42 ==
    SettingsV42 \cup {"is_preview_deployments_enabled", "use_build_secrets", "stop_grace_period"}
ClearApplicationSettingsV43 ==
    FlagsV43 \cup NamesV43 \cup {"gpu_driver", "noindex_domains", "max_restart_count"}
ClearApplicationSettingsV44 == {"custom_container_name_prefix"}
ClearApplicationSettingsV45 == HashNames \cup SettingsV45
ClearApplicationSettingsV451 == SettingsV451
ClearApplicationSettingsV46 == {"git_https_username", "git_https_password"}

Withheld ==
    ClearApplicationSettingsV42 \cup ClearApplicationSettingsV43 \cup ClearApplicationSettingsV44
    \cup ClearApplicationSettingsV45 \cup ClearApplicationSettingsV451 \cup ClearApplicationSettingsV46

\* What a plan warns of, each list with the version it is for.
V42ApplicationFields ==
    SettingsV42 \cup {"is_preview_deployments_enabled", "use_build_secrets", "stop_grace_period"}
V43ApplicationFields == FlagsV43 \cup NamesV43 \cup {"gpu_driver", "noindex_domains", "max_restart_count"}
V44ApplicationFields == {"custom_container_name_prefix"}
V45ApplicationFields == HashNames \cup SettingsV45
V451ApplicationFields == SettingsV451

\* A broken variant: one field of v4.6 was not listed.
V46ApplicationFieldsInPart == {"git_https_username"}
V46ApplicationFields == {"git_https_username", "git_https_password"}

Announced ==
    V42ApplicationFields \cup V43ApplicationFields \cup V44ApplicationFields \cup V45ApplicationFields
    \cup V451ApplicationFields \cup V46ApplicationFields

\* A broken variant: the Dockerfile was forgotten, as were the fields of v4.5.
RuntimeFieldsOfGit == (DOMAIN BuildUpdateInput) \ (HashNames \cup {"max_restart_count", "dockerfile"})

\* With redeploy_on_update a change of one of these restarts the application.
RuntimeFieldsChanged ==
    (DOMAIN BuildUpdateInput \cup {"dockerfile"}) \ {"max_restart_count"}

(***************************************************************************)
(* The resources.                                                          *)
(***************************************************************************)
Application(schema, post, read, normal) ==
    [Resource(schema @@ CommonAppSchema, post, BuildUpdateInput, read @@ FlattenApplication)
        EXCEPT !.late = PostCreatePatchExtendedFields, !.ids = ImportApplicationState,
               !.seeded = SetImportDefaults, !.normal = NormalizeCommonAppCreateState \cup normal,
               !.gated = Withheld, !.announced = Announced, !.redeploys = TRUE,
               !.restarts = RuntimeFieldsChanged]

CreatePublicAppInput ==
    Each({"project_uuid", "server_uuid", "git_repository", "build_pack", "ports_exposes"}, "always") @@
    Each({"environment_name", "environment_uuid", "destination_uuid", "git_branch", "name", "description",
          "domains", "dockerfile_location", "docker_compose_location", "docker_compose_custom_start_command",
          "docker_compose_custom_build_command", "dockerfile"} \cup Commands, "if_nonempty") @@
    Each({"instant_deploy", "autogenerate_domain", "force_domain_override"}, "if_known")
GitAppSchema == GitAppSourceAttrs @@ GitAppCommandAttrs
GitAppOutputs ==
    {"git_branch", "build_command", "docker_compose_custom_build_command",
     "docker_compose_custom_start_command", "docker_compose_location", "dockerfile_target_build"}

PublicGitApplication == Application(GitAppSchema, CreatePublicAppInput, None, GitAppOutputs)

PrivateGitApplication ==
    Application(Each({"private_key_uuid"}, Replacing(Required)) @@ GitAppSchema,
                Each({"private_key_uuid"}, "always") @@ CreatePublicAppInput,
                Each({"private_key_uuid"}, "if_present"), GitAppOutputs)

GitHubAppApplication ==
    Application(Each({"github_app_uuid"}, Replacing(Required)) @@ GitAppSchema,
                Each({"github_app_uuid"}, "always") @@ CreatePublicAppInput,
                Each({"github_app_uuid"}, "if_present"), GitAppOutputs)

CreateDockerImageAppInput ==
    Each({"project_uuid", "server_uuid", "docker_image", "ports_exposes"}, "always") @@
    Each({"environment_name", "environment_uuid", "destination_uuid", "name", "description", "domains",
          "install_command", "start_command"}, "if_nonempty") @@
    Each({"instant_deploy", "autogenerate_domain", "force_domain_override"}, "if_known")

\* The image is compared without its tag; a new one restarts.
DockerImageApplication ==
    LET shared ==
            Application(Each({"docker_image", "ports_exposes"}, Required) @@
                            Each({"install_command", "start_command"}, Kept),
                        CreateDockerImageAppInput, Each({"docker_image"}, "direct"), {})
    IN [shared EXCEPT !.patch = Each({"docker_image"}, "if_changed") @@ BuildUpdateInput,
                      !.restarts = @ \cup {"docker_image"}]

\* dockerfile_location is the content of the Dockerfile. No answer has it:
\* the field of that name in an answer is a path.
CreateDockerfileAppInput ==
    Each({"project_uuid", "server_uuid", "dockerfile_location", "ports_exposes"}, "always") @@
    Each({"environment_name", "environment_uuid", "destination_uuid", "name", "description", "domains"}
         \cup Commands, "if_nonempty") @@
    Each({"instant_deploy", "autogenerate_domain", "force_domain_override"}, "if_known")
DockerfileSchema ==
    Each({"dockerfile_location", "ports_exposes"}, Required) @@
    Each(Commands \cup {"dockerfile_target_build"}, Kept) @@
    Each({"git_repository", "git_branch", "build_pack"}, KeptOutput)
DockerfileOutputs == {"git_repository", "git_branch", "build_pack", "build_command", "dockerfile_target_build"}
DockerfileApplication ==
    Application(DockerfileSchema, CreateDockerfileAppInput, Each({"dockerfile_location"}, "kept"),
                DockerfileOutputs)

\* Before 4.5 the content cannot be patched, and a change replaces.
OlderDockerfileApplication ==
    [DockerfileApplication EXCEPT !.schema["dockerfile_location"] = Replacing(Required),
                                  !.patch["dockerfile_location"] = "never"]

ApplicationResources ==
    {PublicGitApplication, PrivateGitApplication, GitHubAppApplication, DockerImageApplication,
     DockerfileApplication, OlderDockerfileApplication}
=============================================================================
