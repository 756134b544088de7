--------------------------- MODULE ResourcePrograms ---------------------------
(***************************************************************************)
(* What each coolify_* resource does in its CRUD handlers, as programs of  *)
(* the steps ResourceLifecycle.tla gives a meaning to:                     *)
(*                                                                         *)
(*   "post"      POST; its answer carries the UUID                         *)
(*   "save"      State.Set of what the handler holds                       *)
(*   "get"       GET or list the object: any error, or no object, ends     *)
(*               the handler with an error                                 *)
(*   "look"      list it, and go on with the plan when that fails          *)
(*   "find"      GET or list it in Read: no object leaves the state        *)
(*   "extend"    PATCH after POST, when the plan has something POST does   *)
(*               not accept                                                *)
(*   "recover"   the same, and one GET is saved when the PATCH fails       *)
(*   "settle"    the same, and the answer is what gets saved               *)
(*   "patch"     PATCH the attributes that differ from the state           *)
(*   "amend"     the same, and the answer is what gets saved               *)
(*   "put"       PATCH every attribute of the plan                         *)
(*   "replace"   the same, and the answer is what gets saved               *)
(*   "restart"   restart the object; a failure is only a warning           *)
(*   "delete"    DELETE; 404 counts as done                                *)
(*   "retry"     DELETE, again while the server says it is in use          *)
(*   "poll"      GET until 404 or a deadline                               *)
(*                                                                         *)
(* A step that fails returns from the handler, with what was saved so far. *)
(***************************************************************************)
EXTENDS Sequences

Reading == <<"find", "save">>

\* Applications: postCreatePatchExtendedFields, readBackAfterCreate,
\* updateAndReadBack and deleteApplication are shared by all five.
ApplicationCreate == <<"post", "save", "extend", "get", "save">>
ApplicationUpdate == <<"patch", "restart", "get", "save">>
ApplicationDelete == <<"delete", "poll">>

PublicApplication ==
    [create |-> ApplicationCreate, read |-> Reading, update |-> ApplicationUpdate, delete |-> ApplicationDelete]
DockerImageApplication ==
    [create |-> ApplicationCreate, read |-> Reading, update |-> ApplicationUpdate, delete |-> ApplicationDelete]
DockerfileApplication ==
    [create |-> ApplicationCreate, read |-> Reading, update |-> ApplicationUpdate, delete |-> ApplicationDelete]
GitHubAppApplication ==
    [create |-> ApplicationCreate, read |-> Reading, update |-> ApplicationUpdate, delete |-> ApplicationDelete]
PrivateGitApplication ==
    [create |-> ApplicationCreate, read |-> Reading, update |-> ApplicationUpdate, delete |-> ApplicationDelete]

\* Databases: one resource per engine over RecoverCreateAfterExtendedError,
\* UpdateDatabase and DeleteDatabase.
DatabaseCreate == <<"post", "save", "recover", "get", "save">>
DatabaseUpdate == <<"patch", "get", "save">>
DatabaseDelete == <<"delete", "poll">>

Postgresql ==
    [create |-> DatabaseCreate, read |-> Reading, update |-> DatabaseUpdate, delete |-> DatabaseDelete]
Mysql ==
    [create |-> DatabaseCreate, read |-> Reading, update |-> DatabaseUpdate, delete |-> DatabaseDelete]
Mariadb ==
    [create |-> DatabaseCreate, read |-> Reading, update |-> DatabaseUpdate, delete |-> DatabaseDelete]
Mongodb ==
    [create |-> DatabaseCreate, read |-> Reading, update |-> DatabaseUpdate, delete |-> DatabaseDelete]
Redis ==
    [create |-> DatabaseCreate, read |-> Reading, update |-> DatabaseUpdate, delete |-> DatabaseDelete]
Keydb ==
    [create |-> DatabaseCreate, read |-> Reading, update |-> DatabaseUpdate, delete |-> DatabaseDelete]
Dragonfly ==
    [create |-> DatabaseCreate, read |-> Reading, update |-> DatabaseUpdate, delete |-> DatabaseDelete]
Clickhouse ==
    [create |-> DatabaseCreate, read |-> Reading, update |-> DatabaseUpdate, delete |-> DatabaseDelete]
Sqlite ==
    [create |-> DatabaseCreate, read |-> Reading, update |-> DatabaseUpdate, delete |-> DatabaseDelete]

\* The one resource that sends its late setting after the read-back.
Service ==
    [create |-> <<"post", "save", "get", "settle", "save">>, read |-> Reading,
     update |-> <<"patch", "get", "save">>, delete |-> <<"delete", "poll">>]

\* Servers: CreateServer and the four cloud providers.
ServerCreate == <<"post", "save", "extend", "get", "save">>
ServerUpdate == <<"patch", "get", "save">>

Server ==
    [create |-> ServerCreate, read |-> Reading, update |-> ServerUpdate, delete |-> <<"delete">>]
HetznerServer ==
    [create |-> ServerCreate, read |-> Reading, update |-> ServerUpdate, delete |-> <<"delete">>]
DigitalOceanServer ==
    [create |-> ServerCreate, read |-> Reading, update |-> ServerUpdate, delete |-> <<"delete">>]
VultrServer ==
    [create |-> ServerCreate, read |-> Reading, update |-> ServerUpdate, delete |-> <<"delete">>]
HostingerServer ==
    [create |-> ServerCreate, read |-> Reading, update |-> ServerUpdate, delete |-> <<"delete">>]

\* Resources that read themselves back with a GET.
PrivateKey ==
    [create |-> <<"post", "save", "get", "save">>, read |-> Reading,
     update |-> <<"patch", "get", "save">>, delete |-> <<"retry">>]
Project ==
    [create |-> <<"post", "save", "get", "save">>, read |-> Reading,
     update |-> <<"amend", "save">>, delete |-> <<"retry">>]
Destination ==
    [create |-> <<"post", "save", "get", "save">>, read |-> Reading,
     update |-> <<"replace", "save">>, delete |-> <<"delete">>]
S3Storage ==
    [create |-> <<"post", "save", "get", "save">>, read |-> Reading,
     update |-> <<"patch", "get", "save">>, delete |-> <<"delete">>]
CloudToken ==
    [create |-> <<"post", "save", "get", "save">>, read |-> Reading,
     update |-> <<"patch", "get", "save">>, delete |-> <<"delete">>]
IntegrationToken ==
    [create |-> <<"post", "save", "get", "save">>, read |-> Reading,
     update |-> <<"amend", "save">>, delete |-> <<"delete">>]

\* Resources that find themselves in a list.
DatabaseBackup ==
    [create |-> <<"post", "save", "get", "save">>, read |-> Reading,
     update |-> <<"patch", "get", "save">>, delete |-> <<"delete">>]
ScheduledTask ==
    [create |-> <<"post", "look", "save">>, read |-> Reading,
     update |-> <<"patch", "look", "save">>, delete |-> <<"delete">>]
Storage ==
    [create |-> <<"post", "save", "extend", "look", "save">>, read |-> Reading,
     update |-> <<"patch", "look", "save">>, delete |-> <<"delete">>]

\* Resources that trust the answer of their write. A POST of a GitLab app
\* that is answered without an id, and whose list does not show it, counts
\* as a POST whose answer was lost.
EnvironmentVariable ==
    [create |-> <<"post", "save">>, read |-> Reading, update |-> <<"put", "save">>, delete |-> <<"delete">>]
SharedEnvironmentVariable ==
    [create |-> <<"post", "save">>, read |-> Reading, update |-> <<"put", "save">>, delete |-> <<"delete">>]
Tag ==
    [create |-> <<"post", "save">>, read |-> Reading, update |-> <<"replace", "save">>, delete |-> <<"delete">>]
GitLabApp ==
    [create |-> <<"post", "save">>, read |-> Reading, update |-> <<"replace", "save">>, delete |-> <<"delete">>]
GitHubApp ==
    [create |-> <<"post", "save">>, read |-> Reading, update |-> <<"amend", "save">>, delete |-> <<"delete">>]
CloudInitScript ==
    [create |-> <<"post", "save">>, read |-> Reading, update |-> <<"replace", "save">>, delete |-> <<"delete">>]

\* Every program above; resources with the same handlers count once.
AllPrograms ==
    {PublicApplication, DockerImageApplication, DockerfileApplication, GitHubAppApplication,
     PrivateGitApplication, Postgresql, Mysql, Mariadb, Mongodb, Redis, Keydb, Dragonfly,
     Clickhouse, Sqlite, Service, Server, HetznerServer, DigitalOceanServer, VultrServer,
     HostingerServer, PrivateKey, Project, Destination, S3Storage, CloudToken,
     IntegrationToken, DatabaseBackup, ScheduledTask, Storage, EnvironmentVariable,
     SharedEnvironmentVariable, Tag, GitLabApp, GitHubApp, CloudInitScript}
=============================================================================
