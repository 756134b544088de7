-------------------------- MODULE DatabaseAttributes --------------------------
(***************************************************************************)
(* The attributes of the nine database resources, which share all but the  *)
(* credentials and the configuration file of their engine, and of the      *)
(* backup schedules of a database.                                         *)
(***************************************************************************)
EXTENDS Codecs

(***************************************************************************)
(* What the engines share.                                                 *)
(***************************************************************************)
LimitStrings == {"limits_memory", "limits_memory_swap", "limits_memory_reservation", "limits_cpus"}
LimitNumbers == {"limits_memory_swappiness", "limits_cpu_shares"}
HealthChecks ==
    {"health_check_interval", "health_check_timeout", "health_check_retries", "health_check_start_period"}
Logging == {"is_log_drain_enabled", "is_include_timestamps"}
CommonDatabaseAttrs ==
    Each({"uuid"}, KeptOutput) @@ Each({"name", "description", "image", "limits_cpuset"}, Kept) @@
    Each({"project_uuid", "server_uuid"}, ReplacingIfKnown(Required)) @@
    Each({"destination_uuid", "environment_uuid"}, ReplacingIfKnown(Optional)) @@
    Each({"environment_name"}, ReplacingIfKnown(KeptOrDefault)) @@
    Each(LimitStrings, Defaulted) @@ Each(LimitNumbers \cup Logging \cup {"is_public"}, Flag(Defaulted)) @@
    Each(HealthChecks \cup {"health_check_enabled", "public_port"}, Flag(Kept)) @@
    Each({"public_port_timeout"}, Flag(Optional)) @@
    Each({"ports_mappings", "custom_docker_run_options"}, Output) @@ Each({"status"}, Live(Output)) @@
    Each({"max_restart_count", "restart_limit_reached"}, Live(Flag(Output))) @@
    Each({"internal_db_url"}, Secret(Output)) @@ Each({"instant_deploy"}, Own(Flag(Defaulted)))

\* Coolify takes the limits with the POST, and the provider sends them again
\* with what only a PATCH takes.
PopulateBaseCreateInput ==
    Each({"project_uuid", "server_uuid"}, "always") @@
    Each({"environment_name", "environment_uuid", "destination_uuid", "name", "description", "image",
          "limits_cpuset"}, "if_nonempty") @@
    Each({"is_public", "public_port", "instant_deploy"}, "if_known") @@
    Each(LimitStrings \cup LimitNumbers, "if_nondefault")

SetUpdateExtended ==
    Each(LimitStrings \cup LimitNumbers \cup HealthChecks \cup {"health_check_enabled"}, "if_nondefault") @@
    Each({"limits_cpuset"}, "if_nonempty") @@ Each({"public_port_timeout"}, "if_known")

SetUpdateExtendedDiff ==
    Each(LimitStrings \cup LimitNumbers \cup HealthChecks
         \cup {"limits_cpuset", "public_port_timeout", "health_check_enabled"}, "if_changed")

UpdateInput == Each({"name", "description", "image", "is_public", "public_port"}, "if_changed") @@ SetUpdateExtendedDiff

FlattenDatabaseCommon ==
    Each({"uuid", "name", "is_public"}, "direct") @@ Each({"image", "public_port"}, "or_null") @@
    Each({"description"}, "from_api") @@
    Each({"project_uuid", "server_uuid", "environment_name"}, "if_present")

FlattenReadOnlyDatabaseStrings == Each({"ports_mappings", "custom_docker_run_options"}, "or_null")

FlattenDatabaseExtended ==
    Each(LimitStrings \cup LimitNumbers \cup HealthChecks
         \cup {"status", "internal_db_url", "max_restart_count", "restart_limit_reached"}, "or_null") @@
    Each({"limits_cpuset"}, "preserve_empty") @@ Each({"public_port_timeout"}, "if_configured") @@
    Each(Logging \cup {"enable_ssl"}, "seed") @@ Each({"ssl_mode"}, "seed_or_null") @@
    Each({"health_check_enabled"}, "if_present") @@ Each({"instant_deploy"}, "kept_or_default") @@
    FlattenReadOnlyDatabaseStrings

NormalizeCommonCreateState ==
    {"name", "description", "environment_name", "environment_uuid", "image", "is_public", "public_port",
     "status", "limits_cpuset", "health_check_enabled", "internal_db_url", "max_restart_count",
     "restart_limit_reached", "ports_mappings", "custom_docker_run_options"} \cup HealthChecks

ImportDatabaseState == {"uuid", "project_uuid", "server_uuid", "environment_name"}

EnableSSLAttr == Each({"enable_ssl"}, Flag(Defaulted))
SSLModeAttr == Each({"ssl_mode"}, Flag(Kept))

(***************************************************************************)
(* The engines: credentials Coolify makes up when they are left out, which *)
(* of them no answer shows to a token without the right to read secrets,   *)
(* and files that only a PATCH takes.                                      *)
(***************************************************************************)
Engine(names, passwords, files, schema, refused, shown) ==
    [Resource(schema @@ Each(names, Kept) @@ Each(passwords, Secret(Kept)) @@ Each(files, Optional) @@
                  CommonDatabaseAttrs,
              Each(refused, "never") @@ Each(names \cup passwords, "if_nonempty") @@ PopulateBaseCreateInput,
              Each(refused, "never") @@ Each(names \cup passwords \cup files, "if_changed") @@ UpdateInput,
              shown @@ Each(names, "or_null") @@ Each(passwords, "preserve_empty") @@ Each(files, "or_clear")
                  @@ FlattenDatabaseCommon @@ FlattenDatabaseExtended)
        EXCEPT !.late = Each(files, "if_known") @@ SetUpdateExtended,
               !.normal = NormalizeCommonCreateState \cup names \cup passwords \cup files \cup {"ssl_mode"},
               !.ids = ImportDatabaseState]

Postgresql ==
    Engine({"postgres_user", "postgres_db"}, {"postgres_password"},
           {"postgres_conf", "postgres_initdb_args", "postgres_host_auth_method"},
           Each({"init_scripts"}, Output) @@ EnableSSLAttr @@ SSLModeAttr, {},
           Each({"init_scripts"}, "or_null"))
Mysql ==
    Engine({"mysql_user", "mysql_database"}, {"mysql_password", "mysql_root_password"}, {"mysql_conf"},
           EnableSSLAttr @@ SSLModeAttr, {}, None)
Mariadb ==
    Engine({"mariadb_user", "mariadb_database"}, {"mariadb_password", "mariadb_root_password"},
           {"mariadb_conf"}, EnableSSLAttr @@ SSLModeAttr, {}, None)
Mongodb ==
    Engine({"mongo_initdb_root_username", "mongo_initdb_database"}, {"mongo_initdb_root_password"},
           {"mongo_conf"}, EnableSSLAttr @@ SSLModeAttr, {}, None)
Redis == Engine({}, {"redis_password"}, {"redis_conf"}, EnableSSLAttr, {}, None)
Keydb == Engine({}, {"keydb_password"}, {"keydb_conf"}, EnableSSLAttr, {}, None)
Dragonfly == Engine({}, {"dragonfly_password"}, {}, EnableSSLAttr, {}, None)

\* The name of the database is read, and never sent.
Clickhouse ==
    Engine({"clickhouse_admin_user", "clickhouse_db"}, {"clickhouse_admin_password"}, {}, None,
           {"clickhouse_db"}, None)

\* Not reachable from outside: the configuration may not say so.
Sqlite ==
    LET whole == Engine({"sqlite_databases"}, {}, {}, None, {}, Each({"sqlite_databases"}, "preserve_empty"))
        inside == DOMAIN whole.schema \ {"is_public", "public_port", "public_port_timeout"}
    IN [whole EXCEPT !.schema = [a \in inside |-> whole.schema[a]]]

DatabasesWithSSL == {Postgresql, Mysql, Mariadb, Mongodb, Redis, Keydb, Dragonfly}
Databases == DatabasesWithSSL \cup {Clickhouse, Sqlite}

(***************************************************************************)
(* Backup schedules.                                                       *)
(***************************************************************************)
Retentions ==
    {"retain_amount_locally", "retain_days_locally", "retain_max_storage_locally", "retain_amount_s3",
     "retain_days_s3", "retain_max_storage_s3", "timeout"}
BackupSchema ==
    Each({"id", "uuid", "description"}, KeptOutput) @@
    Each({"last_execution_at", "missing_backup_notification_sent_at"}, Live(KeptOutput)) @@
    Each({"database_uuid"}, Replacing(Required)) @@ Each({"frequency"}, Required) @@
    Each({"enabled", "save_s3", "dump_all"}, Flag(Defaulted)) @@
    Each(Retentions \cup {"missing_backup_notification_days", "disable_local_backup", "s3_storage_uuids"},
         Flag(Kept)) @@
    Each({"s3_storage_uuid"}, Flag(Optional)) @@ Each({"databases_to_backup"}, Kept) @@
    Each({"backup_now"}, Own(Flag(Optional)))
BackupPost ==
    Each({"database_uuid", "frequency", "enabled"}, "always") @@
    Each({"s3_storage_uuid", "databases_to_backup"}, "if_nonempty") @@
    Each(Retentions \cup {"save_s3", "dump_all", "backup_now", "s3_storage_uuids",
                          "missing_backup_notification_days", "disable_local_backup"}, "if_known")
BackupPatch ==
    Each({"s3_storage_uuid", "databases_to_backup"}, "for_update") @@
    Each(Retentions \cup {"frequency", "enabled", "save_s3", "dump_all", "s3_storage_uuids",
                          "missing_backup_notification_days", "disable_local_backup"}, "if_changed")
FlattenDatabaseBackup ==
    Each({"id", "uuid", "enabled", "save_s3", "dump_all"}, "direct") @@
    Each({"database_uuid", "frequency"}, "if_present") @@ Each({"description"}, "from_api") @@
    Each({"disable_local_backup"}, "or_default") @@ Each({"s3_storage_uuid"}, "seed") @@
    Each(Retentions \cup {"databases_to_backup"}, "or_null") @@
    Each({"s3_storage_uuids", "missing_backup_notification_days", "last_execution_at",
          "missing_backup_notification_sent_at"}, "preserve_empty")
NullUnknownBackupComputed ==
    DOMAIN BackupSchema \ {"uuid", "database_uuid", "frequency", "s3_storage_uuid", "backup_now"}
WithheldFromBackups == {"missing_backup_notification_days", "s3_storage_uuids", "disable_local_backup"}
DatabaseBackup ==
    [Resource(BackupSchema, BackupPost, BackupPatch, FlattenDatabaseBackup)
        EXCEPT !.ids = {"database_uuid", "id"}, !.normal = NullUnknownBackupComputed,
               !.gated = WithheldFromBackups, !.announced = WithheldFromBackups,
               !.preserved = {"disable_local_backup"}]

DatabaseResources == Databases \cup {DatabaseBackup}
=============================================================================
