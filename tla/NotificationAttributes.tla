------------------------ MODULE NotificationAttributes ------------------------
(***************************************************************************)
(* The attributes of the settings that are there before Terraform is: the  *)
(* notification channels of a team and the email of the instance. Create   *)
(* adopts them by a PATCH, and Update is a PATCH too. So are the switches  *)
(* of the instance's API.                                                  *)
(***************************************************************************)
EXTENDS Codecs

(***************************************************************************)
(* What happens that a channel may tell of, and in Telegram in which       *)
(* thread: every channel sends and reads these alike.                      *)
(***************************************************************************)
Events ==
    {"deployment_success", "deployment_failure", "status_change", "restart_limit_reached",
     "backup_success", "backup_failure", "scheduled_task_success", "scheduled_task_failure",
     "docker_cleanup_success", "docker_cleanup_failure", "server_disk_usage", "server_reachable",
     "server_unreachable", "server_patch", "traefik_outdated"}
EventSchemaAttrs == Each(Events, Flag(Kept))
CreateEvents == Each(Events, "if_known")
DiffEvents == Each(Events, "if_changed")
FlattenEvents == Each(Events, "direct")

Threads ==
    {"thread_deployment_success", "thread_deployment_failure", "thread_status_change",
     "thread_restart_limit_reached", "thread_backup_success", "thread_backup_failure",
     "thread_scheduled_task_success", "thread_scheduled_task_failure", "thread_docker_cleanup_success",
     "thread_docker_cleanup_failure", "thread_server_disk_usage", "thread_server_reachable",
     "thread_server_unreachable", "thread_server_patch", "thread_traefik_outdated"}
ThreadSchemaAttrs == Each(Threads, Secret(Kept))
CreateThreads == Each(Threads, "if_known")
DiffThreads == Each(Threads, "if_changed")
FlattenThreads == Each(Threads, "preserve_empty")

(***************************************************************************)
(* A channel: switched on or off, with credentials of its own that no      *)
(* answer shows to a token without the right to read secrets.              *)
(***************************************************************************)
IDAttribute == Each({"id"}, KeptOutput)
EnabledAttribute == Each({"enabled"}, Flag(Defaulted))

Adopted(schema, post, patch, read) ==
    [Resource(IDAttribute @@ schema, post, patch, Each({"id"}, "direct") @@ read)
        EXCEPT !.existing = TRUE, !.ids = {"id"}, !.deletes = FALSE]

\* Delete switches the channel off and leaves the rest.
Channel(credentials, flags, schema, post, patch, read) ==
    [Adopted(EnabledAttribute @@ Each(credentials, Secret(Kept)) @@ Each(flags, Flag(Kept)) @@
                 EventSchemaAttrs @@ schema,
             Each({"enabled"} \cup credentials \cup flags, "if_known") @@ CreateEvents @@ post,
             Each({"enabled"} \cup credentials \cup flags, "if_changed") @@ DiffEvents @@ patch,
             Each({"enabled"} \cup flags, "direct") @@ Each(credentials, "preserve_empty") @@
                 FlattenEvents @@ read)
        EXCEPT !.switches = {"enabled"}, !.off = {"enabled"}]

Discord == Channel({"webhook_url"}, {"ping_enabled"}, None, None, None, None)
Slack == Channel({"webhook_url"}, {}, None, None, None, None)
Webhook == Channel({"webhook_url"}, {}, None, None, None, None)
Pushover == Channel({"user_key", "api_token"}, {}, None, None, None, None)
Telegram ==
    Channel({"token", "chat_id"}, {}, ThreadSchemaAttrs, CreateThreads, DiffThreads, FlattenThreads)

(***************************************************************************)
(* Email, of a team and of the instance.                                   *)
(***************************************************************************)
MailSwitches == {"smtp_enabled", "resend_enabled"}
MailSecrets ==
    {"smtp_from_address", "smtp_from_name", "smtp_host", "smtp_username", "smtp_password", "resend_api_key"}
MailNumbers == {"smtp_port", "smtp_timeout"}
MailAttrs == MailSwitches \cup MailSecrets \cup MailNumbers \cup {"smtp_encryption", "smtp_ehlo_domain"}
MailSchema ==
    Each(MailSwitches, Flag(Defaulted)) @@ Each(MailSecrets, Secret(Kept)) @@
    Each(MailNumbers \cup {"smtp_encryption"}, Flag(Kept)) @@ Each({"smtp_ehlo_domain"}, Kept)
FlattenMail ==
    Each(MailSwitches, "direct") @@ Each(MailSecrets \cup MailNumbers \cup {"smtp_ehlo_domain"}, "preserve_empty") @@
    Each({"smtp_encryption"}, "or_null")

TeamOnly == {"smtp_recipients", "use_instance_email_settings", "deployment_commit_details_email_notifications"}
EmailSchema ==
    MailSchema @@ EventSchemaAttrs @@ Each({"use_instance_email_settings"}, Flag(Defaulted)) @@
    Each({"smtp_recipients"}, Secret(Kept)) @@ Each({"deployment_commit_details_email_notifications"}, Flag(Kept))
EmailCreateInput == Each(MailAttrs \cup TeamOnly, "if_known") @@ CreateEvents
EmailUpdateInput == Each(MailAttrs \cup TeamOnly, "if_changed") @@ DiffEvents
FlattenEmail ==
    FlattenMail @@ FlattenEvents @@ Each({"use_instance_email_settings"}, "direct") @@
    Each({"smtp_recipients", "deployment_commit_details_email_notifications"}, "preserve_empty")
EmailSwitches == MailSwitches \cup {"use_instance_email_settings"}

\* A broken variant: Delete leaves the instance's settings in use.
EmailOffOfTeam == MailSwitches
EmailOff == MailSwitches \cup {"use_instance_email_settings"}

WithheldFromEmail == {"smtp_ehlo_domain", "deployment_commit_details_email_notifications"}
Email ==
    [Adopted(EmailSchema, EmailCreateInput, EmailUpdateInput, FlattenEmail)
        EXCEPT !.gated = WithheldFromEmail, !.announced = WithheldFromEmail,
               !.switches = EmailSwitches, !.off = EmailOff]

InstanceEmail ==
    [Adopted(MailSchema, Each(MailAttrs, "if_known"), Each(MailAttrs, "if_changed"), FlattenMail)
        EXCEPT !.switches = MailSwitches, !.off = MailSwitches]

(***************************************************************************)
(* The REST API and the MCP server of the instance, which no GET shows. A  *)
(* destroy that fails only warns. The Coolify here has the enable route.   *)
(***************************************************************************)
APISwitches == {"enabled", "mcp_enabled"}
APISettings ==
    [Resource(Each(APISwitches, Flag(Defaulted)), Each(APISwitches, "always"), Each(APISwitches, "always"), None)
        EXCEPT !.existing = TRUE, !.importable = FALSE, !.deletes = FALSE, !.lenient = TRUE,
               !.off = APISwitches, !.switches = {"mcp_enabled"}]

NotificationResources == {Discord, Slack, Webhook, Pushover, Telegram, Email, InstanceEmail, APISettings}
=============================================================================
