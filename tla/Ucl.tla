-------------------------------- MODULE Ucl --------------------------------
(***************************************************************************)
(* What a job needs (xm_cluster/requirements.py), and how it is asked of   *)
(* the two clusters of UCL (contrib/ucl.py).                               *)
(*                                                                         *)
(* Resources are a sequence of <<name, amount>>, names as they are written.*)
(***************************************************************************)
EXTENDS Sites

\* Names are looked up in either case; KeyError for any other.
ResourceType == [cpu |-> "CPU", CPU |-> "CPU", ram |-> "RAM", RAM |-> "RAM",
                 gpu |-> "GPU", GPU |-> "GPU"]

\* ValueError for a resource that comes twice, under one name or two.
Specified(resources) ==
  /\ \A i \in DOMAIN resources : resources[i][1] \in DOMAIN ResourceType
  /\ \A i, j \in DOMAIN resources :
       ResourceType[resources[i][1]] = ResourceType[resources[j][1]] => i = j
JobRequirements(resources, place) ==
  [location |-> place,
   task_requirements |-> [i \in DOMAIN resources |->
                            <<ResourceType[resources[i][1]], resources[i][2]>>]]

\* Each requirement, <<type, amount>>, is put in the cluster's own terms.
Slots(type, amount) == Opt(type = "CPU" /\ amount > 1, "smp", <<"int", amount>>)

_myriad_executor_fn(needs, walltime) ==
  LET resource(type, amount) ==
        Opt(type = "RAM", "mem", <<"int", amount>>)
        \cup Opt(type = "GPU" /\ amount > 0, "gpu", <<"int", amount>>)
  IN  GridEngine(walltime,
        UNION {resource(needs[i][1], needs[i][2]) : i \in DOMAIN needs},
        UNION {Slots(needs[i][1], needs[i][2]) : i \in DOMAIN needs},
        <<"singularity-env">>)

\* GPUs beyond the first are slots of an environment, and a job with any has no
\* limit on its virtual memory.
_cs_executor_fn(needs, walltime) ==
  LET gpus == \E i \in DOMAIN needs : needs[i][1] = "GPU" /\ needs[i][2] > 0
      resource(type, amount) ==
        Opt(type = "RAM" /\ ~gpus, "h_vmem", <<"int", amount>>)
        \cup Opt(type = "RAM", "tmem", <<"int", amount>>)
        \cup Opt(type = "GPU" /\ amount > 0, "gpu", <<"str", "true">>)
      environment(type, amount) ==
        Opt(type = "GPU" /\ amount > 1, "gpu", <<"int", amount>>) \cup Slots(type, amount)
  IN  GridEngine(walltime,
        UNION {resource(needs[i][1], needs[i][2]) : i \in DOMAIN needs},
        UNION {environment(needs[i][1], needs[i][2]) : i \in DOMAIN needs},
        <<>>)

\* The cluster is the one that is the default when the executor is made.
Supported(requirements, config) ==
  /\ requirements.location = NoSetting
  /\ default_cluster(config) \in {Setting("myriad"), Setting("cs")}
UclGridEngine(requirements, walltime, config) ==
  IF default_cluster(config) = Setting("myriad")
  THEN _myriad_executor_fn(requirements.task_requirements, walltime)
  ELSE _cs_executor_fn(requirements.task_requirements, walltime)
===========================================================================
