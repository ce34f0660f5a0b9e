------------------------------ MODULE Sites ------------------------------
(***************************************************************************)
(* Where things are: the clusters of a configuration and the environment   *)
(* that selects among them (config.py), the destination a bundle is        *)
(* packaged for and the store it is put in (packaging/router.py), and the  *)
(* endpoint of an archive a job takes as input (inputs.py, inspection.py). *)
(*                                                                         *)
(* A cluster is [name, server, user, root]; a configuration is             *)
(* [clusters, project, local_root, environment], its environment being the *)
(* process's own until an experiment takes a snapshot of it.               *)
(***************************************************************************)
EXTENDS JobScript

CONSTANTS Me, MyNames, MyUser      \* this host, the names it has, and this user
ASSUME SiteAssumption == Me \in MyNames

NoSetting == <<"none">>
Setting(value) == <<"str", value>>

project(config) == Or(config.environment.EXEX_PROJECT, config.project)

default_cluster(config) ==
  Or(config.environment.EXEX_CLUSTER,
     IF config.clusters # <<>> THEN Setting(config.clusters[1].name) ELSE NoSetting)
location(config, name) == Or(name, default_cluster(config))

\* ValueError without a default, or for a name the file does not have.
KnownCluster(config, name) ==
  \E i \in DOMAIN config.clusters : Setting(config.clusters[i].name) = location(config, name)
\* A dict of the clusters by name keeps the last of two with one name.
cluster_settings(config, name) ==
  config.clusters[CHOOSE i \in DOMAIN config.clusters :
    /\ Setting(config.clusters[i].name) = location(config, name)
    /\ \A j \in i + 1..Len(config.clusters) :
         Setting(config.clusters[j].name) # location(config, name)]

\* An experiment keeps the configuration and the two variables as they were.
snapshot(config, environment) == [config EXCEPT !.environment = environment]

local_settings(config) ==
  [name |-> "local", server |-> NoSetting, user |-> NoSetting, root |-> config.local_root]
SettingsOf(executor, config) ==
  IF executor.kind = "local" THEN local_settings(config)
  ELSE cluster_settings(config, executor.cluster)
Reachable(executor, config) ==
  executor.kind = "local" \/ KnownCluster(config, executor.cluster)

package_target(executor, config) ==
  IF executor.kind = "local" THEN <<"local", config.local_root, project(config)>>
  ELSE LET s == cluster_settings(config, executor.cluster)
       IN  <<executor.kind, s.server, s.user, s.root, project(config)>>

\* The store of a destination, on this host when no server is named.
create_artifact_store(settings, proj) ==
  [server |-> settings.server, user |-> IF settings.server = NoSetting THEN NoSetting ELSE settings.user,
   root |-> settings.root, project |-> proj]

---------------------------------------------------------------------------
(* Endpoints *)

\* No host for an endpoint that is this host and user; ssh to it otherwise.
hostname(endpoint) ==
  IF endpoint.hostname[2] \in MyNames /\ endpoint.username \in {NoSetting, Setting(MyUser)}
  THEN NoSetting ELSE endpoint.hostname
Endpoint(host, username) ==
  LET named == [hostname |-> Or(host, Setting(Me)), username |-> username]
  IN  IF hostname(named) = NoSetting
      THEN [hostname |-> Setting(Me), username |-> Setting(MyUser)] ELSE named
EndpointOf(settings) ==
  Endpoint(settings.server, IF settings.server = NoSetting THEN NoSetting ELSE settings.user)

\* inputs.declarations and inputs.stage: a binding keeps its archive's identity,
\* and the archive is copied into the job's own store when it is elsewhere.
declarations(artifact) ==
  [id |-> artifact.id, endpoint |-> Endpoint(artifact.hostname, artifact.username),
   store |-> artifact.store]
stage(binding, executor, config) ==
  LET settings == SettingsOf(executor, config)
  IN  IF binding.endpoint = EndpointOf(settings) THEN binding
      ELSE [id |-> binding.id, endpoint |-> EndpointOf(settings),
            store |-> create_artifact_store(settings, project(config))]
===========================================================================
