----------------------------- MODULE MCAttributes -----------------------------
(***************************************************************************)
(* Instances of Attributes for TLC: the flows of every resource, and those *)
(* of them that break a property. RowsAreSound ties the former to the      *)
(* theorems of AttributesProofs.                                           *)
(***************************************************************************)
EXTENDS AttributeRules

LOCAL Team == INSTANCE TeamAttributes
LOCAL Child == INSTANCE ChildAttributes
LOCAL App == INSTANCE ApplicationAttributes
LOCAL Srv == INSTANCE ServerAttributes
LOCAL Db == INSTANCE DatabaseAttributes
LOCAL Svc == INSTANCE ServiceAttributes
LOCAL Note == INSTANCE NotificationAttributes

AllResources ==
    Team!TeamResources \cup Child!ChildResources \cup App!ApplicationResources \cup Srv!ServerResources
    \cup Db!DatabaseResources \cup Svc!ServiceResources
    \cup Note!NotificationResources

\* Read makes a name null when the answer lacks it: AppliedAsPlanned.
WithheldNames == {Flow(App!PublicGitApplication, a) : a \in App!NamesV43 \cup {"custom_container_name_prefix"}}

\* Withheld from an older Coolify without a word, as their descriptions
\* say: WithheldIsAnnounced.
WithheldSilently ==
    {Flow(r, "server_role") : r \in Srv!CloudServers \cup {Srv!Server}}
    \cup {Flow(Srv!ServerSentinel, a) : a \in Srv!TrafficNumbers \cup {"geoip_maxmind_license_key"}}

\* No change of it restarts the application: ChangeRestarts.
RestartLimit == {Flow(r, "max_restart_count") : r \in App!ApplicationResources}

\* Never sent, but read back: AppliedAsPlanned, AppliedSettles and
\* ConfiguredIsServed.
Unsent ==
    {Flow(Child!OtherEnvVar, "is_shown_once"), Flow(Db!Clickhouse, "clickhouse_db")}
    \cup {Flow(r, a) : r \in Db!Databases, a \in Db!Logging}
    \cup {Flow(r, "enable_ssl") : r \in Db!DatabasesWithSSL} \cup {Flow(Db!Postgresql, "ssl_mode")}

\* Kept by every plan though they change by themselves: AppliedAsPlanned.
KeptTooLong ==
    {Flow(Db!DatabaseBackup, "last_execution_at"), Flow(Srv!HostingerServer, "hostinger_virtual_machine_status"),
     Flow(Svc!ServiceApplication, "fqdn")}

\* Unknown after an import, kept so by the plan, and answered by the PUT:
\* AppliedAsPlanned.
ImportedSchedule ==
    {Flow(Svc!VolumeBackup, a) : a \in {"uuid", "storage_type", "timeout"} \cup Svc!WithheldFromVolumes}

\* Not switched off by Delete: DestroyedIsOff.
CloudwatchDrain == {Flow(Srv!ServerLogdrain, Srv!CloudwatchFlag)}

\* Never read back, and replaced by any change: ImportKeeps. Two kinds of
\* applications never send the Dockerfile either.
Dockerfiles ==
    {Flow(r, "dockerfile") : r \in App!ApplicationResources}
    \cup {Flow(App!OlderDockerfileApplication, "dockerfile_location")}
BoughtWith == {f \in UNION {FlowsOf(r) : r \in Srv!CloudServers} : f.kind.replace = "always"}

\* These are left to a Coolify that knows the attribute.
Gated == WithheldNames \cup WithheldSilently

AllFlows ==
    (UNION {FlowsOf(r) : r \in AllResources} \cup {[f EXCEPT !.gated = FALSE] : f \in Gated})
    \ (Gated \cup RestartLimit \cup Unsent \cup KeptTooLong \cup ImportedSchedule \cup CloudwatchDrain
         \cup Dockerfiles \cup BoughtWith)
=============================================================================
