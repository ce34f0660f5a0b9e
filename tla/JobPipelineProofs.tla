------------------------- MODULE JobPipelineProofs -------------------------
(***************************************************************************)
(* IInv says, phase by phase, what the request, its packaging, its job,    *)
(* its row, its script and its tasks are of one another, and is inductive. *)
(* What the job's command line, environment, directories, directives and   *)
(* answers come to then follows from it state by state, through lemmas     *)
(* about the operators: folding a parameter file over a shell, the headers *)
(* of two schedulers, the accounting of one and the ids of the other.      *)
(* Only StatusIsTrue and PlacedWhereItRuns need more of a step than IInv.  *)
(***************************************************************************)
EXTENDS JobPipeline, JobBlocksProofs

---------------------------------------------------------------------------
(* The inductive invariant *)

Phases == {"created", "packaged", "added", "submitted", "refused"}

\* What never changes, and what is always of a kind.
Fixed ==
  /\ req \in Requests /\ frozen \in Environments /\ environment \in Environments
  /\ phase \in Phases /\ changes \in Nat
  /\ changes = 0 => environment = frozen
  /\ phase = "created" => unit = Nothing

\* Before each phase, what it decides is not there yet.
NotYet ==
  /\ phase \notin {"submitted", "refused"} => record = NewRow
  /\ phase # "submitted" =>
       /\ script = Nothing /\ bindings = Nothing /\ attempt = 0 /\ current = Nothing
       /\ sched = Nothing /\ ran = Nothing /\ status = "none"

\* What `package` made, of the environment of then.
UsableIn(env) ==
  req.requirements = Nothing \/
    (Specified(req.requirements.resources)
     /\ Supported(JobRequirements(req.requirements.resources, req.requirements.location),
                  snapshot(Configuration, env)))
ExecutorIn(env) ==
  IF req.requirements = Nothing THEN req.executor
  ELSE UclGridEngine(JobRequirements(req.requirements.resources, req.requirements.location),
                     req.requirements.walltime, snapshot(Configuration, env))
Packaged ==
  phase \in {"packaged", "added", "submitted"} =>
    /\ Reachable(req.packaged_for, Site)
    /\ \E env \in Environments : /\ UsableIn(env) /\ executor = ExecutorIn(env)
                                 /\ changes = 0 => env = frozen
    /\ executable = Executable("source", req.image_type, from_collection(req.package_args),
                               req.package_env, package_target(req.packaged_for, Site))
    /\ bundle = create_artifact_store(SettingsOf(req.packaged_for, Site), project(Site))

\* The one job that is launched, and what `add` made of the author's.
Chosen == flatten_job(unit)[1]
JobArgs ==
  IF req.override_args = <<"none">> THEN from_collection(req.args)
  ELSE merge_args(<< <<"args", from_collection(req.args)>>, req.override_args>>)
JobEnv ==
  IF req.override_env = Nothing THEN req.env_vars ELSE req.override_env ++ req.env_vars
Width == ArraySize(req.args_list, req.env_list)
\* Each of an array's lists has one entry for every task, or the same for all.
Spread == Len(req.args_list) \in {1, Width} /\ Len(req.env_list) \in {1, Width}
Added ==
  phase \in {"added", "submitted"} =>
    /\ Chosen.executor = executor /\ Chosen.executable = executable
    /\ req.shape # "array" =>
         /\ Chosen.kind = "job"
         /\ Chosen.args = JobArgs /\ Chosen.env_vars = JobEnv
         /\ req.override_args[1] # "str"
    /\ req.shape = "array" =>
         /\ Chosen.kind = "array"
         /\ Chosen.args = [i \in 1..Width |-> from_collection(TaskOwn(req.args_list, i))]
         /\ Chosen.env_vars = [i \in 1..Width |-> TaskOwn(req.env_list, i)]
         /\ req.override_args = <<"none">> /\ req.override_env = Nothing
         /\ Spread
    /\ Declared

Home == SettingsOf(Chosen.executor, Site)
Directory == job_log_path(create_artifact_store(Home, project(Site)))
Columns ==
  {"state", "message", "job", "is_array", "task_count", "native_id", "job_name", "log_directory",
   "log_path", "links_directory", "artifact_directory", "execution_directory", "backend", "hostname",
   "username"}
Row ==
  /\ DOMAIN record = Columns /\ record = [column \in Columns |-> record[column]]
  /\ record.state \in {"unknown", "stopped", "failed"}
  /\ record.job = _encode(Chosen)
  /\ record.is_array = (Chosen.kind = "array") /\ record.task_count = Tasks(Chosen)
  /\ record.backend = Chosen.executor.kind
  /\ record.native_id = IF Chosen.executor.kind = "gridengine" THEN JobId
                        ELSE IF Chosen.executor.kind = "slurm"
                        THEN IF Chosen.executor.mode = "salloc" THEN 0 ELSE JobId ELSE 0
  /\ record.hostname = Or(Home.server, Setting(Me))
  /\ record.username = IF Home.server = NoSetting THEN Setting(MyUser) ELSE Home.user
  /\ record.links_directory = <<Directory, "links">>
  /\ record.artifact_directory = IF HasOutputs THEN <<Directory, "artifacts">> ELSE NoSetting
  /\ record.job_name = IF Chosen.executor.kind = "slurm" THEN Setting(JobName) ELSE NoSetting
  /\ record.log_directory =
       IF Chosen.executor.kind = "slurm" THEN Setting(Absolute(Home, Logs(Chosen.executor, Directory)))
       ELSE IF Chosen.executor.kind = "local" THEN Setting(Directory) ELSE NoSetting
  /\ record.execution_directory = IF Managed(Chosen) THEN Setting(Directory) ELSE NoSetting
  /\ record.log_path = NoSetting
Submitted ==
  phase = "submitted" =>
    /\ Acceptable(Chosen) /\ Launchable(Chosen)
    /\ script.built = build(Chosen, Directory, req.continuation, req.inputs # <<>>, HasOutputs)
    /\ script.directory = Directory
    /\ script.driver = IF Managed(Chosen)
                       THEN managed_script(Chosen, req.pause_before, Directory,
                                           Absolute(Home, Logs(Chosen.executor, Directory)))
                       ELSE <<>>
    /\ bindings = [i \in DOMAIN req.inputs |-> stage(declarations(req.inputs[i]), Chosen.executor, Site)]
    /\ Row

States == {"PENDING", "RUNNING"} \cup Done
RunOf(k, rank) ==
  LET host == HostEnv(k)
      mine == ProcessEnv(k, rank)
      end  == Source(script.built, host, mine)
  IN  [exit |-> end.exit, argv |-> end.argv, env |-> end.env, rank |-> rank, log |-> Output(k),
       links |-> IF end.exit = 0 THEN LinksLand(script.built, host, mine) ELSE Nothing,
       artifacts |-> IF HasOutputs /\ end.exit = 0 THEN ArtifactsLand(script.built, host) ELSE Nothing]
Scheduled ==
  phase = "submitted" =>
    /\ sched \in [NativeTasks(script.built) -> States]
    /\ Backend # "slurm" => \A k \in DOMAIN sched : sched[k] \notin {"TIMEOUT", "CANCELLED"}
    /\ DOMAIN ran \subseteq DOMAIN sched
    /\ \A k \in DOMAIN ran : sched[k] # "PENDING" /\ \E rank \in Ranks : ran[k] = RunOf(k, rank)
    /\ \A k \in DOMAIN sched : sched[k] \in {"RUNNING", "COMPLETED"} => k \in DOMAIN ran
    /\ IsManaged /\ attempt = 0 => ran = Nothing
    /\ IsManaged => status = "none" /\ DOMAIN sched = {0}
Attempted ==
  IF phase = "submitted" /\ IsManaged /\ attempt > 0
  THEN /\ DOMAIN current = {"native_id", "links_directory", "log_path", "artifact_directory"}
       /\ current = [column \in DOMAIN current |-> current[column]]
       /\ current.links_directory = <<AttemptDir(attempt), "links">>
       /\ 0 \in DOMAIN ran => current.native_id = NativeJob /\ current.log_path = AttemptLog
       /\ (HasOutputs /\ sched[0] = "COMPLETED") =>
            current.artifact_directory = <<AttemptDir(attempt), "artifacts">>
  ELSE current = Nothing
IInv ==
  /\ Fixed /\ NotYet /\ Packaged /\ Added /\ Submitted /\ Scheduled /\ Attempted
  /\ attempt \in Nat

---------------------------------------------------------------------------
(* Until the job is packaged *)

LEMMA InitIInv == Init => IInv
<1> SUFFICES ASSUME Init PROVE IInv
  OBVIOUS
<1>1. Fixed
  BY DEF Init, Fixed, Phases
<1>2. NotYet
  BY DEF Init, NotYet
<1>3. Packaged /\ Added /\ Submitted /\ Scheduled /\ Attempted /\ attempt \in Nat
  BY DEF Init, Packaged, Added, Submitted, Scheduled, Attempted
<1> QED BY <1>1, <1>2, <1>3 DEF IInv

LEMMA NextFixed == Fixed /\ [Next]_pipeline => Fixed'
<1> SUFFICES ASSUME Fixed, [Next]_pipeline PROVE Fixed'
  OBVIOUS
<1> USE DEF authored, submitted, tasks
<1>1. CASE ChangeEnvironment
  BY <1>1, PipelineAssumption DEF Fixed, ChangeEnvironment
<1>2. CASE Package
  BY <1>2 DEF Fixed, Package, Phases
<1>3. CASE Add
  BY <1>3 DEF Fixed, Add, Phases
<1>4. CASE Submit
  BY <1>4 DEF Fixed, Submit, Phases
<1>5. CASE NextAttempt \/ RunTask \/ EndTask \/ Stop
  BY <1>5 DEF Fixed, NextAttempt, RunTask, EndTask, Stop
<1>6. CASE Inspect \/ InspectLocal \/ ListJobs
  BY <1>6 DEF Fixed, Inspect, InspectLocal, ListJobs
<1>7. CASE UNCHANGED pipeline
  BY <1>7 DEF Fixed, pipeline
<1> QED BY <1>1, <1>2, <1>3, <1>4, <1>5, <1>6, <1>7 DEF Next

LEMMA NextNotYet == Fixed /\ NotYet /\ [Next]_pipeline => NotYet'
<1> SUFFICES ASSUME Fixed, NotYet, [Next]_pipeline PROVE NotYet'
  OBVIOUS
<1> USE DEF authored, submitted, tasks
<1>1. CASE ChangeEnvironment
  BY <1>1 DEF NotYet, ChangeEnvironment
<1>2. CASE Package
  BY <1>2 DEF NotYet, Package
<1>3. CASE Add
  BY <1>3 DEF NotYet, Add
<1>4. CASE Submit
  BY <1>4 DEF NotYet, Submit
<1>5. CASE NextAttempt \/ RunTask \/ EndTask \/ Stop
  BY <1>5 DEF NotYet, NextAttempt, RunTask, EndTask, Stop
<1>6. CASE Inspect \/ InspectLocal \/ ListJobs
  BY <1>6 DEF NotYet, Inspect, InspectLocal, ListJobs
<1>7. CASE UNCHANGED pipeline
  BY <1>7 DEF NotYet, pipeline
<1> QED BY <1>1, <1>2, <1>3, <1>4, <1>5, <1>6, <1>7 DEF Next

LEMMA NextPackaged == Fixed /\ Packaged /\ [Next]_pipeline => Packaged'
<1> SUFFICES ASSUME Fixed, Packaged, [Next]_pipeline PROVE Packaged'
  OBVIOUS
<1> USE DEF authored, submitted, tasks, Site, SiteNow
<1>1. CASE ChangeEnvironment
  BY <1>1, PipelineAssumption DEF Fixed, Packaged, ChangeEnvironment, UsableIn, ExecutorIn
<1>2. CASE Package
  <2>1. CASE Usable /\ Reachable(req.packaged_for, Site)
    <3>1. UsableIn(environment) /\ Executor = ExecutorIn(environment)
      BY <2>1 DEF Usable, Executor, UsableIn, ExecutorIn
    <3> QED BY <1>2, <2>1, <3>1 DEF Package, Packaged, Fixed, UsableIn, ExecutorIn
  <2>2. CASE ~(Usable /\ Reachable(req.packaged_for, Site))
    BY <1>2, <2>2 DEF Package, Packaged
  <2> QED BY <2>1, <2>2
<1>3. CASE Add
  BY <1>3 DEF Packaged, Add, UsableIn, ExecutorIn
<1>4. CASE Submit
  BY <1>4 DEF Packaged, Submit, UsableIn, ExecutorIn
<1>5. CASE NextAttempt \/ RunTask \/ EndTask \/ Stop
  BY <1>5 DEF Packaged, NextAttempt, RunTask, EndTask, Stop, UsableIn, ExecutorIn
<1>6. CASE Inspect \/ InspectLocal \/ ListJobs
  BY <1>6 DEF Packaged, Inspect, InspectLocal, ListJobs, UsableIn, ExecutorIn
<1>7. CASE UNCHANGED pipeline
  BY <1>7 DEF Packaged, pipeline, UsableIn, ExecutorIn
<1> QED BY <1>1, <1>2, <1>3, <1>4, <1>5, <1>6, <1>7 DEF Next

LEMMA UnionOf ==
  ASSUME NEW f, NEW g
  PROVE  /\ DOMAIN (f ++ g) = DOMAIN f \cup DOMAIN g
         /\ \A n \in DOMAIN f : (f ++ g)[n] = f[n]
         /\ \A n \in DOMAIN g \ DOMAIN f : (f ++ g)[n] = g[n]
BY DEF ++

LEMMA EntryOf == ASSUME NEW n, NEW v PROVE DOMAIN Entry(n, v) = {n} /\ Entry(n, v)[n] = v
BY DEF Entry

LEMMA NothingOf == DOMAIN Nothing = {}
BY DEF Nothing

---------------------------------------------------------------------------
(* What `add` makes of the job *)

Paths == {<<>>, <<"learner">>, <<"actor">>, <<"outer", "learner">>}
LEMMA PathKeys ==
  ASSUME NEW path \in Paths
  PROVE  /\ Append(path, "args") \notin {<<"nobody">>, <<"env_vars">>}
         /\ path # <<>> => Append(path, "env_vars") \notin {<<"nobody">>, <<"env_vars">>}
         /\ \A other \in Paths : Append(path, "env_vars") # Append(other, "args")
         /\ Last(Append(path, "args")) = "args"
<1> SUFFICES /\ Append(path, "args") \notin {<<"nobody">>, <<"env_vars">>}
             /\ path # <<>> => Append(path, "env_vars") \notin {<<"nobody">>, <<"env_vars">>}
             /\ \A other \in Paths : Append(path, "env_vars") # Append(other, "args")
             /\ Append(path, "args")[Len(Append(path, "args"))] = "args"
  BY DEF Last
<1>1. CASE path = <<>>
  BY <1>1 DEF Paths
<1>2. CASE path = <<"learner">>
  BY <1>2 DEF Paths
<1>3. CASE path = <<"actor">>
  BY <1>3 DEF Paths
<1>4. CASE path = <<"outer", "learner">>
  BY <1>4 DEF Paths
<1> QED BY <1>1, <1>2, <1>3, <1>4 DEF Paths

LEMMA OverrideOf ==
  ASSUME NEW tree, NEW path \in Paths, 1 \in DOMAIN Jobs(tree), Jobs(tree)[1][1] = path,
         \A i \in DOMAIN Jobs(tree) : Jobs(tree)[i][1] \in Paths
  PROVE  LET args == Overrides(tree)
         IN  /\ Append(path, "args") \in DOMAIN args <=> req.override_args # <<"none">>
             /\ req.override_args # <<"none">> => args[Append(path, "args")] = req.override_args
             /\ <<"env_vars">> \in DOMAIN args <=> req.override_env # Nothing
             /\ req.override_env # Nothing => args[<<"env_vars">>] = req.override_env
             /\ DOMAIN args = {} => req.override_args = <<"none">> /\ req.override_env = Nothing
             /\ path # <<>> => Append(path, "env_vars") \notin DOMAIN args
<1> DEFINE key == Append(path, "args")
           stray == IF req.stray THEN Entry(<<"nobody">>, Nothing) ELSE Nothing
           env == IF req.override_env = Nothing THEN Nothing
                  ELSE Entry(<<"env_vars">>, req.override_env)
           over == IF req.override_args = <<"none">> THEN Nothing
                   ELSE get_args_for_all_jobs(tree, req.override_args)
<1>1. Overrides(tree) = stray ++ env ++ over
  BY DEF Overrides
<1>2. DOMAIN stray \subseteq {<<"nobody">>}
  BY EntryOf, NothingOf
<1>3. DOMAIN env = (IF req.override_env = Nothing THEN {} ELSE {<<"env_vars">>})
  BY EntryOf, NothingOf
<1>4. req.override_env # Nothing => env[<<"env_vars">>] = req.override_env
  BY EntryOf
<1>5. req.override_args = <<"none">> => DOMAIN over = {}
  BY NothingOf
<1>6. req.override_args # <<"none">> =>
        /\ DOMAIN over = {Append(Jobs(tree)[i][1], "args") : i \in DOMAIN Jobs(tree)}
        /\ \A p \in DOMAIN over : over[p] = req.override_args
        /\ key \in DOMAIN over
  BY DEF get_args_for_all_jobs
<1>7. key # <<"nobody">> /\ key # <<"env_vars">> /\ <<"nobody">> # <<"env_vars">>
  BY PathKeys
<1>8. <<"env_vars">> \notin DOMAIN over
  <2>1. ASSUME NEW i \in DOMAIN Jobs(tree) PROVE Append(Jobs(tree)[i][1], "args") # <<"env_vars">>
    BY PathKeys
  <2> QED BY <2>1, <1>5, <1>6
<1> HIDE DEF key, stray, env, over
<1> DEFINE both == stray ++ env
<1>9. DOMAIN both = DOMAIN stray \cup DOMAIN env /\ \A n \in DOMAIN env \ DOMAIN stray : both[n] = env[n]
  BY UnionOf
<1>10. <<"env_vars">> \in DOMAIN env => both[<<"env_vars">>] = env[<<"env_vars">>]
  BY <1>2, <1>7, <1>9
<1> HIDE DEF both
<1> DEFINE all == both ++ over
<1>11. DOMAIN all = DOMAIN both \cup DOMAIN over
  BY UnionOf
<1>12. key \notin DOMAIN both
  BY <1>2, <1>3, <1>7, <1>9
<1>13. key \in DOMAIN over => all[key] = over[key]
  BY <1>12 DEF ++
<1>14. <<"env_vars">> \in DOMAIN env => all[<<"env_vars">>] = env[<<"env_vars">>]
  BY <1>9, <1>10 DEF ++
<1>15. Overrides(tree) = all
  BY <1>1 DEF both
<1> HIDE DEF all
<1>16. key \in DOMAIN all <=> req.override_args # <<"none">>
  BY <1>11, <1>12, <1>5, <1>6
<1>17. req.override_args # <<"none">> => all[key] = req.override_args
  BY <1>13, <1>6
<1>18. <<"env_vars">> \in DOMAIN all <=> req.override_env # Nothing
  BY <1>11, <1>9, <1>2, <1>3, <1>7, <1>8
<1>19. req.override_env # Nothing => all[<<"env_vars">>] = req.override_env
  BY <1>14, <1>3, <1>4
<1>20. DOMAIN all = {} => req.override_args = <<"none">> /\ req.override_env = Nothing
  BY <1>16, <1>18
<1>21. path # <<>> => Append(path, "env_vars") \notin DOMAIN all
  <2>1. ASSUME NEW i \in DOMAIN Jobs(tree), path # <<>>
        PROVE  Append(Jobs(tree)[i][1], "args") # Append(path, "env_vars")
    BY <2>1, PathKeys
  <2>2. path # <<>> => Append(path, "env_vars") # <<"nobody">> /\ Append(path, "env_vars") # <<"env_vars">>
    BY PathKeys
  <2> QED BY <2>1, <2>2, <1>2, <1>3, <1>5, <1>6, <1>9, <1>11
<1> QED BY <1>15, <1>16, <1>17, <1>18, <1>19, <1>20, <1>21 DEF key

\* What `add` makes of one of the author's jobs.
LEMMA AddedLeaf ==
  ASSUME NEW tree, NEW path \in Paths, 1 \in DOMAIN Jobs(tree), Jobs(tree)[1][1] = path,
         \A i \in DOMAIN Jobs(tree) : Jobs(tree)[i][1] \in Paths,
         path # <<>> => req.override_env = Nothing, NEW exe
  PROVE  LET job == populate(path, apply_args_to_job(path, AsJob(exe), Overrides(tree)))
         IN  /\ job.kind = "job" /\ job.executor = executor /\ job.executable = exe
             /\ job.args = JobArgs /\ job.env_vars = JobEnv
<1> DEFINE args == Overrides(tree)
           asked == AsJob(exe)
           job == apply_args_to_job(path, asked, args)
<1>1. /\ Append(path, "args") \in DOMAIN args <=> req.override_args # <<"none">>
      /\ req.override_args # <<"none">> => args[Append(path, "args")] = req.override_args
      /\ <<"env_vars">> \in DOMAIN args <=> req.override_env # Nothing
      /\ req.override_env # Nothing => args[<<"env_vars">>] = req.override_env
      /\ path # <<>> => Append(path, "env_vars") \notin DOMAIN args
  BY OverrideOf
<1>2. /\ asked.kind = "job" /\ asked.name = <<"none">> /\ asked.executor = executor
      /\ asked.executable = exe /\ asked.args = from_collection(req.args)
      /\ asked.env_vars = req.env_vars
  BY DEF AsJob, Job, NamedJob
<1>3. Append(<<>>, "env_vars") = <<"env_vars">>
  OBVIOUS
<1> HIDE DEF args, asked
<1>4. /\ job.kind = "job" /\ job.name = <<"none">> /\ job.executor = executor
      /\ job.executable = exe
  BY <1>2 DEF apply_args_to_job, NamedJob
<1>5. job.args = JobArgs
  BY <1>1, <1>2 DEF apply_args_to_job, NamedJob, JobArgs
<1>6. job.env_vars = JobEnv
  BY <1>1, <1>2, <1>3 DEF apply_args_to_job, NamedJob, JobEnv
<1> HIDE DEF job
<1>7. /\ populate(path, job).kind = "job" /\ populate(path, job).executor = executor
      /\ populate(path, job).executable = exe
      /\ populate(path, job).args = job.args /\ populate(path, job).env_vars = job.env_vars
  BY <1>4 DEF populate, NamedJob
<1> QED BY <1>5, <1>6, <1>7 DEF job, asked, args

LEMMA FirstOfGroup ==
  ASSUME NEW jobs, 1 \in DOMAIN jobs, NEW constraints, NEW args
  PROVE  LET named == populate_job_names(apply_args(JobGroup(jobs, constraints), args))
         IN  /\ named.kind = "group"
             /\ flatten_job(named)[1]
                  = populate(jobs[1][1], apply_args_to_job(jobs[1][1], jobs[1][2], args))
<1> DEFINE tree == JobGroup(jobs, constraints)
           leaf(path, job) == apply_args_to_job(path, job, args)
           applied == JobGroup([i \in DOMAIN jobs |-> <<jobs[i][1], leaf(jobs[i][1], jobs[i][2])>>], constraints)
           named == populate_job_names(applied)
<1>1. tree.kind = "group" /\ tree.jobs = jobs /\ tree.constraints = constraints
  BY DEF JobGroup
<1> HIDE DEF tree, leaf
<1>2. apply_args(tree, args) = applied
  BY <1>1 DEF apply_args, OnEach, leaf
<1>3. /\ applied.kind = "group" /\ applied.constraints = constraints
      /\ applied.jobs = [i \in DOMAIN jobs |-> <<jobs[i][1], leaf(jobs[i][1], jobs[i][2])>>]
  BY DEF JobGroup
<1> HIDE DEF applied
<1>4. named = JobGroup([i \in DOMAIN applied.jobs |->
                         <<applied.jobs[i][1], populate(applied.jobs[i][1], applied.jobs[i][2])>>], constraints)
  BY <1>3 DEF populate_job_names, OnEach
<1>5. /\ named.kind = "group"
      /\ named.jobs = [i \in DOMAIN applied.jobs |->
                         <<applied.jobs[i][1], populate(applied.jobs[i][1], applied.jobs[i][2])>>]
  BY <1>4 DEF JobGroup
<1> HIDE DEF named
<1>6. 1 \in DOMAIN named.jobs /\ named.jobs[1][2] = populate(jobs[1][1], leaf(jobs[1][1], jobs[1][2]))
  BY <1>3, <1>5
<1>7. flatten_job(named)[1] = named.jobs[1][2]
  BY <1>5, <1>6 DEF flatten_job, flatten_jobs, Jobs
<1> QED BY <1>2, <1>5, <1>6, <1>7 DEF named, tree, leaf

LEMMA Requested == ASSUME Fixed PROVE IsRequest(req)
BY RequestAssumption DEF Fixed

LEMMA AddedSingle ==
  ASSUME Fixed, req.shape # "array",
         NEW job, job = Author(executable), Applicable(job, Overrides(job)),
         NEW named, named = populate_job_names(apply_args(job, Overrides(job))),
         NEW tree, tree = IF named.kind = "job" THEN JobGroup(<< << <<named.name[2]>>, named>> >>, <<>>)
                          ELSE named
  PROVE  LET chosen == flatten_job(tree)[1]
         IN  /\ chosen.kind = "job" /\ chosen.executor = executor /\ chosen.executable = executable
             /\ chosen.args = JobArgs /\ chosen.env_vars = JobEnv
             /\ req.override_args[1] # "str"
<1> DEFINE args == Overrides(job)
           leaf(path) == populate(path, apply_args_to_job(path, AsJob(executable), args))
<1>1. req.shape \in {"job", "group", "nested", "pair"}
  BY Requested DEF IsRequest
<1>2. PICK path \in Paths :
        /\ 1 \in DOMAIN Jobs(job) /\ Jobs(job)[1] = <<path, AsJob(executable)>>
        /\ \A i \in DOMAIN Jobs(job) : Jobs(job)[i][1] \in Paths
        /\ \/ req.shape = "job" /\ job = AsJob(executable) /\ path = <<>>
           \/ /\ req.shape # "job" /\ path # <<>>
              /\ \A i \in DOMAIN Jobs(job) : Jobs(job)[i][1] # <<>>
              /\ \E jobs, constraints : job = JobGroup(jobs, constraints) /\ Jobs(job) = jobs
  <2>1. CASE req.shape = "job"
    <3>1. job = AsJob(executable) /\ job.kind = "job"
      BY <2>1 DEF Author, AsJob, Job, NamedJob
    <3>2. Jobs(job) = << << <<>>, AsJob(executable)>> >>
      BY <3>1 DEF Jobs
    <3> QED BY <2>1, <3>1, <3>2 DEF Paths
  <2>2. ASSUME NEW key \in Paths, key # <<>>, req.shape # "job", NEW constraints,
               job = JobGroup(<<At(key, executable)>>, constraints)
        PROVE  \E path \in Paths :
                 /\ 1 \in DOMAIN Jobs(job) /\ Jobs(job)[1] = <<path, AsJob(executable)>>
                 /\ \A i \in DOMAIN Jobs(job) : Jobs(job)[i][1] \in Paths
                 /\ \/ req.shape = "job" /\ job = AsJob(executable) /\ path = <<>>
                    \/ /\ req.shape # "job" /\ path # <<>>
                       /\ \A i \in DOMAIN Jobs(job) : Jobs(job)[i][1] # <<>>
                       /\ \E jobs, others : job = JobGroup(jobs, others) /\ Jobs(job) = jobs
    <3>1. Jobs(job) = <<At(key, executable)>>
      BY <2>2 DEF Jobs, JobGroup
    <3>2. At(key, executable) = <<key, AsJob(executable)>>
      BY DEF At
    <3> QED BY <2>2, <3>1, <3>2
  <2>3. CASE req.shape = "group"
    <3>1. job = JobGroup(<<At(<<"learner">>, executable)>>, <<>>)
      BY <2>3 DEF Author
    <3>2. <<"learner">> \in Paths /\ <<"learner">> # <<>>
      BY DEF Paths
    <3> QED BY <2>2, <2>3, <3>1, <3>2
  <2>4. CASE req.shape = "nested"
    <3>1. job = JobGroup(<<At(<<"outer", "learner">>, executable)>>, <<>>)
      BY <2>4 DEF Author
    <3>2. <<"outer", "learner">> \in Paths /\ <<"outer", "learner">> # <<>>
      BY DEF Paths
    <3> QED BY <2>2, <2>4, <3>1, <3>2
  <2>5. CASE req.shape = "pair"
    <3> DEFINE jobs == <<At(<<"learner">>, executable), At(<<"actor">>, executable)>>
    <3>1. job = JobGroup(jobs, <<"same-machine">>)
      BY <2>5 DEF Author
    <3>2. Jobs(job) = jobs
      BY <3>1 DEF Jobs, JobGroup
    <3>3. jobs[1] = << <<"learner">>, AsJob(executable)>> /\ jobs[2][1] = <<"actor">> /\ DOMAIN jobs = 1..2
      BY DEF At
    <3>4. /\ <<"learner">> \in Paths /\ <<"learner">> # <<>>
          /\ <<"actor">> \in Paths /\ <<"actor">> # <<>>
      BY DEF Paths
    <3> HIDE DEF jobs
    <3>5. \A i \in DOMAIN Jobs(job) : Jobs(job)[i][1] \in Paths /\ Jobs(job)[i][1] # <<>>
      BY <3>2, <3>3, <3>4
    <3> QED BY <2>5, <3>1, <3>2, <3>3, <3>4, <3>5
  <2> QED BY <1>1, <2>1, <2>3, <2>4, <2>5
<1>3. job.kind # "array"
  BY <1>2 DEF AsJob, Job, NamedJob, JobGroup
<1>4. /\ \A key \in DOMAIN args :
            \E i \in DOMAIN Jobs(job), field \in Fields : key = Append(Jobs(job)[i][1], field)
      /\ \A key \in DOMAIN args : Last(key) = "args" => Collectable(args[key])
  BY <1>3 DEF Applicable
<1>5. /\ Append(path, "args") \in DOMAIN args <=> req.override_args # <<"none">>
      /\ req.override_args # <<"none">> => args[Append(path, "args")] = req.override_args
      /\ <<"env_vars">> \in DOMAIN args <=> req.override_env # Nothing
  <2>1. Jobs(job)[1][1] = path
    BY <1>2
  <2> QED BY <1>2, <2>1, OverrideOf
<1>6. path # <<>> => req.override_env = Nothing
  <2>1. ASSUME path # <<>>, NEW i \in DOMAIN Jobs(job), NEW field \in Fields
        PROVE  Append(Jobs(job)[i][1], field) # <<"env_vars">>
    BY <2>1, <1>2, PathKeys DEF Fields
  <2>2. path # <<>> => <<"env_vars">> \notin DOMAIN args
    BY <2>1, <1>4
  <2> QED BY <2>2, <1>5
<1>7. req.override_args[1] # "str"
  <2>1. CASE req.override_args = <<"none">>
    BY <2>1
  <2>2. CASE req.override_args # <<"none">>
    BY <2>2, <1>4, <1>5, PathKeys DEF Collectable
  <2> QED BY <2>1, <2>2
<1>8. /\ leaf(path).kind = "job" /\ leaf(path).executor = executor /\ leaf(path).executable = executable
      /\ leaf(path).args = JobArgs /\ leaf(path).env_vars = JobEnv
  <2>1. Jobs(job)[1][1] = path
    BY <1>2
  <2> QED BY <1>2, <1>6, <2>1, AddedLeaf
<1> HIDE DEF leaf, args
<1>9. flatten_job(tree)[1] = leaf(path)
  <2>1. CASE req.shape = "job"
    <3>1. apply_args(job, args) = apply_args_to_job(<<>>, job, args)
      BY <1>2, <1>3, <2>1 DEF apply_args, OnEach, AsJob, Job, NamedJob
    <3>2. apply_args_to_job(<<>>, job, args).kind = "job"
      BY DEF apply_args_to_job, NamedJob
    <3>3. named = leaf(path)
      BY <3>1, <3>2, <1>2, <2>1 DEF args, populate_job_names, OnEach, leaf
    <3>4. tree = JobGroup(<< << <<named.name[2]>>, named>> >>, <<>>)
      BY <3>3, <1>8
    <3>5. tree.kind = "group" /\ tree.jobs = << << <<named.name[2]>>, named>> >>
      BY <3>4 DEF JobGroup
    <3>6. flatten_job(tree)[1] = named
      BY <3>5 DEF flatten_job, flatten_jobs, Jobs
    <3> QED BY <3>3, <3>6
  <2>2. CASE req.shape # "job"
    <3>1. PICK jobs, constraints : job = JobGroup(jobs, constraints) /\ Jobs(job) = jobs
      BY <1>2, <2>2
    <3>2. 1 \in DOMAIN jobs /\ jobs[1][1] = path /\ jobs[1][2] = AsJob(executable)
      BY <1>2, <3>1
    <3>3. named.kind = "group" /\ flatten_job(named)[1] = leaf(path)
      BY <3>1, <3>2, FirstOfGroup DEF leaf, args
    <3> QED BY <3>3
  <2> QED BY <2>1, <2>2
<1> QED BY <1>7, <1>8, <1>9

LEMMA AddedArray ==
  ASSUME Fixed, req.shape = "array", Broadcastable(req.args_list, req.env_list),
         NEW job, job = Author(executable), DOMAIN Overrides(job) = {},
         NEW named, named = populate_job_names(apply_args(job, Overrides(job)))
  PROVE  LET chosen == flatten_job(named)[1]
         IN  /\ named.kind = "array"
             /\ chosen.kind = "array" /\ chosen.executor = executor /\ chosen.executable = executable
             /\ chosen.args = [i \in 1..Width |-> from_collection(TaskOwn(req.args_list, i))]
             /\ chosen.env_vars = [i \in 1..Width |-> TaskOwn(req.env_list, i)]
             /\ req.override_args = <<"none">> /\ req.override_env = Nothing
             /\ Spread
<1> DEFINE lists == [i \in DOMAIN req.args_list |-> from_collection(req.args_list[i])]
           m == Len(req.args_list)
           n == Len(req.env_list)
<1>1. /\ req.args_list \in Seq(ToSet(req.args_list)) /\ m \in 1..MaxTasks
      /\ req.env_list \in Seq(ToSet(req.env_list)) /\ n \in 1..MaxTasks
  BY Requested DEF IsRequest
<1>2. Len(lists) = m /\ \A i \in 1..m : lists[i] = from_collection(req.args_list[i])
  BY <1>1
<1>3. job = ArrayJob(executable, executor, lists, req.env_list)
  BY DEF Author
<1> HIDE DEF lists
<1>4. ArraySize(lists, req.env_list) = Width /\ Width \in Nat /\ m \in Nat /\ n \in Nat
  BY <1>1, <1>2, TasksAssumption DEF ArraySize, Width
<1>5. (m = 1 \/ m = Width) /\ (n = 1 \/ n = Width)
  BY <1>1, <1>4 DEF Broadcastable, Width, ArraySize
<1>6. /\ job.kind = "array" /\ job.executor = executor /\ job.executable = executable
      /\ job.args = broadcast(lists, Width) /\ job.env_vars = broadcast(req.env_list, Width)
  BY <1>3, <1>4 DEF ArrayJob
<1>7. ASSUME NEW i \in 1..Width
      PROVE  (IF Len(lists) = 1 THEN lists[1] ELSE lists[i]) = from_collection(TaskOwn(req.args_list, i))
  BY <1>2, <1>4, <1>5 DEF TaskOwn
<1>8. job.args = [i \in 1..Width |-> from_collection(TaskOwn(req.args_list, i))]
  BY <1>6, <1>7 DEF broadcast
<1>9. job.env_vars = [i \in 1..Width |-> TaskOwn(req.env_list, i)]
  BY <1>6 DEF broadcast, TaskOwn
<1>10. named = job
  BY <1>6 DEF apply_args, populate_job_names, OnEach, populate
<1>11. flatten_job(named)[1] = job
  BY <1>6, <1>10 DEF flatten_job
<1>12. req.override_args = <<"none">> /\ req.override_env = Nothing
  <2>1. Jobs(job) = << << <<>>, job>> >>
    BY <1>6 DEF Jobs
  <2>2. <<>> \in Paths
    BY DEF Paths
  <2>3. 1 \in DOMAIN Jobs(job) /\ Jobs(job)[1][1] = <<>> /\ \A i \in DOMAIN Jobs(job) : Jobs(job)[i][1] \in Paths
    BY <2>1, <2>2
  <2> QED BY <2>2, <2>3, OverrideOf
<1>13. Spread
  BY <1>5 DEF Spread
<1> QED BY <1>6, <1>8, <1>9, <1>10, <1>11, <1>12, <1>13

LEMMA NextAdded == Fixed /\ Added /\ [Next]_pipeline => Added'
<1> SUFFICES ASSUME Fixed, Added, [Next]_pipeline PROVE Added'
  OBVIOUS
<1> USE DEF authored, submitted, tasks
<1>1. CASE ChangeEnvironment
  BY <1>1 DEF Added, ChangeEnvironment, Chosen, JobArgs, JobEnv, Width, Declared, Spread
<1>2. CASE Package
  BY <1>2 DEF Package, Added
<1>3. CASE Add
  <2>1. CASE phase' # "added"
    BY <1>3, <2>1 DEF Add, Added
  <2>2. CASE phase' = "added"
    <3> DEFINE job == Author(executable)
               named == populate_job_names(apply_args(job, Overrides(job)))
               tree == IF named.kind = "job" THEN JobGroup(<< << <<named.name[2]>>, named>> >>, <<>>)
                       ELSE named
    <3>1. /\ Declared
          /\ req.shape = "array" => Broadcastable(req.args_list, req.env_list)
          /\ Applicable(job, Overrides(job))
          /\ job.kind = "array" => DOMAIN Overrides(job) = {}
          /\ unit' = tree
          /\ UNCHANGED <<req, executor, executable>>
      BY <1>3, <2>2 DEF Add
    <3> HIDE DEF job, named, tree
    <3>2. CASE req.shape # "array"
      <4>1. /\ Chosen'.kind = "job" /\ Chosen'.executor = executor /\ Chosen'.executable = executable
            /\ Chosen'.args = JobArgs /\ Chosen'.env_vars = JobEnv
            /\ req.override_args[1] # "str"
        <5>1. Chosen' = flatten_job(tree)[1]
          BY <3>1 DEF Chosen
        <5>2. /\ job = Author(executable) /\ named = populate_job_names(apply_args(job, Overrides(job)))
              /\ tree = IF named.kind = "job" THEN JobGroup(<< << <<named.name[2]>>, named>> >>, <<>>)
                        ELSE named
          BY DEF job, named, tree
        <5> QED BY <3>1, <3>2, <5>1, <5>2, AddedSingle
      <4>2. JobArgs' = JobArgs /\ JobEnv' = JobEnv /\ Declared' = Declared
        BY <3>1 DEF JobArgs, JobEnv, Declared
      <4> QED BY <3>1, <3>2, <4>1, <4>2 DEF Added
    <3>3. CASE req.shape = "array"
      <4>1. job.kind = "array"
        BY <3>3 DEF job, Author, ArrayJob
      <4>2. /\ named.kind = "array"
            /\ flatten_job(named)[1].kind = "array"
            /\ flatten_job(named)[1].executor = executor /\ flatten_job(named)[1].executable = executable
            /\ flatten_job(named)[1].args = [i \in 1..Width |-> from_collection(TaskOwn(req.args_list, i))]
            /\ flatten_job(named)[1].env_vars = [i \in 1..Width |-> TaskOwn(req.env_list, i)]
            /\ req.override_args = <<"none">> /\ req.override_env = Nothing
            /\ Spread
        <5>1. job = Author(executable) /\ named = populate_job_names(apply_args(job, Overrides(job)))
          BY DEF job, named
        <5> QED BY <3>1, <3>3, <4>1, <5>1, AddedArray
      <4>3. Chosen' = flatten_job(named)[1]
        BY <3>1, <4>2 DEF tree, Chosen
      <4>4. Width' = Width /\ Declared' = Declared /\ Spread' = Spread
        BY <3>1 DEF Width, Declared, Spread
      <4> QED BY <3>1, <3>3, <4>2, <4>3, <4>4 DEF Added
    <3> QED BY <3>2, <3>3
  <2> QED BY <2>1, <2>2
<1>4. CASE Submit
  BY <1>4 DEF Added, Submit, Chosen, JobArgs, JobEnv, Width, Declared, Spread
<1>5. CASE NextAttempt \/ RunTask \/ EndTask \/ Stop
  BY <1>5 DEF Added, NextAttempt, RunTask, EndTask, Stop, Chosen, JobArgs, JobEnv, Width, Declared, Spread
<1>6. CASE Inspect \/ InspectLocal \/ ListJobs
  BY <1>6 DEF Added, Inspect, InspectLocal, ListJobs, Chosen, JobArgs, JobEnv, Width, Declared, Spread
<1>7. CASE UNCHANGED pipeline
  BY <1>7 DEF Added, pipeline, Chosen, JobArgs, JobEnv, Width, Declared, Spread
<1> QED BY <1>1, <1>2, <1>3, <1>4, <1>5, <1>6, <1>7 DEF Next

---------------------------------------------------------------------------
(* What submitting it makes *)

LEMMA BuiltJob ==
  ASSUME NEW job, NEW dir, NEW continuation, NEW inputs, NEW outputs
  PROVE  /\ build(job, dir, continuation, inputs, outputs).job = job
         /\ build(job, dir, continuation, inputs, outputs).managed
              = (continuation \/ (job.executor.kind = "slurm" /\ job.executor.mode = "salloc"))
BY DEF build

LEMMA HandleOf ==
  ASSUME NEW settings, NEW backend, NEW native, NEW dir, NEW outputs,
         NEW handle, handle = Handle(settings, backend, native, dir, outputs)
  PROVE  /\ DOMAIN handle = {"backend", "native_id", "hostname", "username", "links_directory",
                             "artifact_directory"}
         /\ handle.backend = backend /\ handle.native_id = native
         /\ handle.hostname = Or(settings.server, Setting(Me))
         /\ handle.username = IF settings.server = NoSetting THEN Setting(MyUser) ELSE settings.user
         /\ handle.links_directory = <<dir, "links">>
         /\ handle.artifact_directory = IF outputs THEN <<dir, "artifacts">> ELSE NoSetting
BY DEF Handle

\* What a client answers, whichever it is.
LEMMA LaunchOf ==
  ASSUME NEW job, job.executor.kind \in {"local", "gridengine", "slurm"}, Acceptable(job), Fixed,
         NEW dir, dir = job_log_path(create_artifact_store(SettingsOf(job.executor, Site), project(Site))),
         NEW launched, launched = _launch(job)
  PROVE  LET settings == SettingsOf(job.executor, Site)
             logs     == Absolute(settings, Logs(job.executor, dir))
             slurm    == job.executor.kind = "slurm"
             handle   == launched.handle
         IN  /\ launched.script.built
                  = build(job, dir, req.continuation, req.inputs # <<>>, HasOutputs)
             /\ launched.script.directory = dir
             /\ launched.script.driver
                  = IF Managed(job) THEN managed_script(job, req.pause_before, dir, logs) ELSE <<>>
             /\ DOMAIN handle =
                  {"backend", "native_id", "hostname", "username", "links_directory",
                   "artifact_directory"}
                  \cup (IF slurm THEN {"job_name", "execution_directory"} ELSE {})
                  \cup (IF job.executor.kind = "gridengine" THEN {} ELSE {"log_directory"})
             /\ handle.backend = job.executor.kind
             /\ handle.native_id = IF job.executor.kind = "gridengine" THEN JobId
                                   ELSE IF slurm
                                   THEN IF job.executor.mode = "salloc" THEN 0 ELSE JobId ELSE 0
             /\ handle.hostname = Or(settings.server, Setting(Me))
             /\ handle.username = IF settings.server = NoSetting THEN Setting(MyUser) ELSE settings.user
             /\ handle.links_directory = <<dir, "links">>
             /\ handle.artifact_directory = IF HasOutputs THEN <<dir, "artifacts">> ELSE NoSetting
             /\ slurm => /\ handle.job_name = Setting(JobName)
                         /\ handle.log_directory = Setting(logs)
                         /\ handle.execution_directory =
                              IF Managed(job) THEN Setting(dir) ELSE NoSetting
             /\ job.executor.kind = "local" => handle.log_directory = Setting(dir)
<1> DEFINE settings == SettingsOf(job.executor, Site)
           logs == Absolute(settings, Logs(job.executor, dir))
           inputs == req.inputs # <<>>
<1>1. job.executor.kind # "slurm" => ~Managed(job) /\ req.continuation = FALSE
  BY Requested DEF Acceptable, Managed, IsRequest
<1>2. CASE job.executor.kind = "local"
  <2> DEFINE base == Handle(settings, "local", 0, dir, HasOutputs)
             extra == [log_directory |-> Setting(dir)]
  <2>1. settings = local_settings(Site)
    BY <1>2 DEF SettingsOf
  <2>2. launched = local_launch(job, Site, inputs, HasOutputs)
    BY <1>2 DEF _launch
  <2>3. /\ launched.script = [built |-> build(job, dir, FALSE, inputs, HasOutputs), directory |-> dir,
                              driver |-> <<>>]
        /\ launched.handle = base ++ extra
    BY <2>1, <2>2 DEF local_launch, LocalHandle
  <2>4. DOMAIN extra = {"log_directory"} /\ extra.log_directory = Setting(dir)
    OBVIOUS
  <2>5. /\ DOMAIN base = {"backend", "native_id", "hostname", "username", "links_directory",
                          "artifact_directory"}
        /\ base.backend = "local" /\ base.native_id = 0
        /\ base.hostname = Or(settings.server, Setting(Me))
        /\ base.username = IF settings.server = NoSetting THEN Setting(MyUser) ELSE settings.user
        /\ base.links_directory = <<dir, "links">>
        /\ base.artifact_directory = IF HasOutputs THEN <<dir, "artifacts">> ELSE NoSetting
    BY HandleOf
  <2> HIDE DEF base, extra
  <2>6. /\ DOMAIN (base ++ extra) = DOMAIN base \cup DOMAIN extra
        /\ \A n \in DOMAIN base : (base ++ extra)[n] = base[n]
        /\ \A n \in DOMAIN extra \ DOMAIN base : (base ++ extra)[n] = extra[n]
    BY UnionOf
  <2>7. /\ launched.script.built = build(job, dir, req.continuation, inputs, HasOutputs)
        /\ launched.script.directory = dir /\ launched.script.driver = <<>>
    <3>1. build(job, dir, FALSE, inputs, HasOutputs) = build(job, dir, req.continuation, inputs, HasOutputs)
      BY <1>1, <1>2, Zenon
    <3> DEFINE made == build(job, dir, FALSE, inputs, HasOutputs)
    <3>2. launched.script = [built |-> made, directory |-> dir, driver |-> <<>>]
      BY <2>3
    <3> HIDE DEF made
    <3>3. launched.script.built = made /\ launched.script.directory = dir /\ launched.script.driver = <<>>
      BY <3>2
    <3> QED BY <3>1, <3>3, Zenon DEF made
  <2>8. job.executor.kind = "local" /\ job.executor.kind # "slurm" /\ job.executor.kind # "gridengine"
        /\ ~Managed(job)
    BY <1>1, <1>2
  <2>9. launched.handle = base ++ extra
    BY <2>3 DEF base, extra
  <2> HIDE DEF settings, logs
  <2> QED BY <2>4, <2>5, <2>6, <2>7, <2>8, <2>9 DEF settings, logs
<1>3. CASE job.executor.kind = "gridengine"
  <2>1. launched = gridengine_launch(job, Site, JobId, inputs, HasOutputs)
    BY <1>3 DEF _launch
  <2>2. /\ launched.script = [built |-> build(job, dir, FALSE, inputs, HasOutputs), directory |-> dir,
                              driver |-> <<>>]
        /\ launched.handle = Handle(settings, "gridengine", JobId, dir, HasOutputs)
    BY <2>1 DEF gridengine_launch
  <2> DEFINE base == Handle(settings, "gridengine", JobId, dir, HasOutputs)
  <2>3. /\ DOMAIN base = {"backend", "native_id", "hostname", "username", "links_directory",
                          "artifact_directory"}
        /\ base.backend = "gridengine" /\ base.native_id = JobId
        /\ base.hostname = Or(settings.server, Setting(Me))
        /\ base.username = IF settings.server = NoSetting THEN Setting(MyUser) ELSE settings.user
        /\ base.links_directory = <<dir, "links">>
        /\ base.artifact_directory = IF HasOutputs THEN <<dir, "artifacts">> ELSE NoSetting
    <3> HIDE DEF settings
    <3> QED BY DEF Handle
  <2>4. /\ launched.script.built = build(job, dir, req.continuation, inputs, HasOutputs)
        /\ launched.script.directory = dir /\ launched.script.driver = <<>>
        /\ launched.handle = base
    <3>1. build(job, dir, FALSE, inputs, HasOutputs) = build(job, dir, req.continuation, inputs, HasOutputs)
      BY <1>1, <1>3, Zenon
    <3> DEFINE made == build(job, dir, FALSE, inputs, HasOutputs)
    <3>2. launched.script = [built |-> made, directory |-> dir, driver |-> <<>>]
      BY <2>2
    <3> HIDE DEF made
    <3>3. launched.script.built = made /\ launched.script.directory = dir /\ launched.script.driver = <<>>
      BY <3>2
    <3> QED BY <2>2, <3>1, <3>3, Zenon DEF made
  <2>5. job.executor.kind = "gridengine" /\ job.executor.kind # "slurm" /\ job.executor.kind # "local"
        /\ ~Managed(job)
    BY <1>1, <1>3
  <2> HIDE DEF base, settings, logs
  <2> QED BY <2>3, <2>4, <2>5 DEF settings, logs
<1>4. CASE job.executor.kind = "slurm"
  <2> DEFINE native == IF job.executor.mode = "salloc" THEN 0 ELSE JobId
             base == Handle(settings, "slurm", native, dir, HasOutputs)
             extra == [job_name |-> Setting(JobName), log_directory |-> Setting(logs),
                       execution_directory |-> IF Managed(job) THEN Setting(dir) ELSE NoSetting]
             built == build(job, dir, req.continuation, inputs, HasOutputs)
  <2>1. launched = slurm_launch(job, Site, JobId, req.pause_before, req.continuation, inputs, HasOutputs)
    BY <1>4 DEF _launch
  <2>2. built.managed = Managed(job)
    BY BuiltJob DEF Managed
  <2>3. /\ launched.script = [built |-> built, directory |-> dir,
                              driver |-> IF built.managed
                                         THEN managed_script(job, req.pause_before, dir, logs) ELSE <<>>]
        /\ launched.handle = base ++ [job_name |-> Setting(JobName), log_directory |-> Setting(logs),
                       execution_directory |-> IF built.managed THEN Setting(dir) ELSE NoSetting]
    BY <2>1 DEF slurm_launch
  <2>4. /\ DOMAIN extra = {"job_name", "log_directory", "execution_directory"}
        /\ extra.job_name = Setting(JobName) /\ extra.log_directory = Setting(logs)
        /\ extra.execution_directory = IF Managed(job) THEN Setting(dir) ELSE NoSetting
    OBVIOUS
  <2>5. /\ DOMAIN base = {"backend", "native_id", "hostname", "username", "links_directory",
                          "artifact_directory"}
        /\ base.backend = "slurm" /\ base.native_id = native
        /\ base.hostname = Or(settings.server, Setting(Me))
        /\ base.username = IF settings.server = NoSetting THEN Setting(MyUser) ELSE settings.user
        /\ base.links_directory = <<dir, "links">>
        /\ base.artifact_directory = IF HasOutputs THEN <<dir, "artifacts">> ELSE NoSetting
    BY HandleOf
  <2>6. launched.handle = base ++ extra
    BY <2>2, <2>3
  <2> HIDE DEF base, extra, built
  <2>7. /\ DOMAIN (base ++ extra) = DOMAIN base \cup DOMAIN extra
        /\ \A n \in DOMAIN base : (base ++ extra)[n] = base[n]
        /\ \A n \in DOMAIN extra \ DOMAIN base : (base ++ extra)[n] = extra[n]
    BY UnionOf
  <2> HIDE DEF settings, logs
  <2>8. /\ launched.script.built = built /\ launched.script.directory = dir
        /\ launched.script.driver
             = IF Managed(job) THEN managed_script(job, req.pause_before, dir, logs) ELSE <<>>
    BY <2>2, <2>3
  <2> QED BY <1>4, <2>4, <2>5, <2>6, <2>7, <2>8 DEF settings, logs, built
<1> QED BY <1>2, <1>3, <1>4

LEMMA ExecutorKind ==
  ASSUME Fixed, Packaged, phase \in {"packaged", "added", "submitted"}
  PROVE  executor.kind \in {"local", "gridengine", "slurm"}
<1>1. PICK env \in Environments : executor = ExecutorIn(env)
  BY DEF Packaged
<1>2. CASE req.requirements = Nothing
  BY <1>1, <1>2, Requested DEF ExecutorIn, IsRequest, IsExecutor
<1>3. CASE req.requirements # Nothing
  BY <1>1, <1>3 DEF ExecutorIn, UclGridEngine, _myriad_executor_fn, _cs_executor_fn, GridEngine
<1> QED BY <1>2, <1>3

LEMMA SubmitSubmitted ==
  ASSUME Fixed, NotYet, Packaged, Added, Submit, phase' = "submitted"
  PROVE  Submitted'
<1> DEFINE job == flatten_job(unit)[1]
           launched == _launch(job)
           saved == [record EXCEPT !.job = _encode(job), !.is_array = job.kind = "array",
                                   !.task_count = Tasks(job)]
           dir == job_log_path(create_artifact_store(SettingsOf(job.executor, Site), project(Site)))
<1>1. phase = "added" /\ UNCHANGED authored
  BY DEF Submit
<1>2. /\ Acceptable(job) /\ Launchable(job)
      /\ bindings' = [i \in DOMAIN req.inputs |-> stage(declarations(req.inputs[i]), job.executor, Site)]
      /\ script' = launched.script /\ record' = launched.handle ++ saved
  BY DEF Submit
<1>3. job = Chosen /\ dir = Directory
  BY DEF Chosen, Directory, Home
<1>4. job.executor.kind \in {"local", "gridengine", "slurm"}
  BY <1>1, <1>3, ExecutorKind DEF Added
<1>5. record = NewRow
  BY <1>1 DEF NotYet
<1>6. /\ DOMAIN saved = {"state", "message", "job", "is_array", "task_count", "native_id", "job_name",
                         "log_directory", "log_path", "links_directory", "artifact_directory",
                         "execution_directory"}
      /\ saved.job = _encode(job) /\ saved.is_array = (job.kind = "array")
      /\ saved.task_count = Tasks(job) /\ saved.state = "unknown"
      /\ saved.job_name = NoSetting /\ saved.log_directory = NoSetting
      /\ saved.log_path = NoSetting /\ saved.execution_directory = NoSetting
  <2> DEFINE encoded == _encode(job)
             array == job.kind = "array"
             count == Tasks(job)
  <2> HIDE DEF encoded, array, count
  <2>1. saved = [record EXCEPT !.job = encoded, !.is_array = array, !.task_count = count]
    BY DEF encoded, array, count
  <2> HIDE DEF saved
  <2>2. DOMAIN record = {"state", "message", "job", "is_array", "task_count", "native_id", "job_name",
                         "log_directory", "log_path", "links_directory", "artifact_directory",
                         "execution_directory"}
    BY <1>5 DEF NewRow
  <2>3. /\ record.state = "unknown" /\ record.job_name = NoSetting /\ record.log_directory = NoSetting
        /\ record.log_path = NoSetting /\ record.execution_directory = NoSetting
    BY <1>5 DEF NewRow
  <2>4. /\ DOMAIN saved = DOMAIN record /\ saved.job = encoded /\ saved.is_array = array
        /\ saved.task_count = count /\ saved.state = record.state
        /\ saved.job_name = record.job_name /\ saved.log_directory = record.log_directory
        /\ saved.log_path = record.log_path
        /\ saved.execution_directory = record.execution_directory
    BY <2>1, <2>2
  <2> QED BY <2>2, <2>3, <2>4 DEF encoded, array, count
<1> HIDE DEF launched, saved, job, dir
<1> DEFINE settings == SettingsOf(job.executor, Site)
           logs     == Absolute(settings, Logs(job.executor, dir))
           slurm    == job.executor.kind = "slurm"
           handle   == launched.handle
<1>7. /\ launched.script.built = build(job, dir, req.continuation, req.inputs # <<>>, HasOutputs)
      /\ launched.script.directory = dir
      /\ launched.script.driver
           = IF Managed(job) THEN managed_script(job, req.pause_before, dir, logs) ELSE <<>>
      /\ DOMAIN handle =
           {"backend", "native_id", "hostname", "username", "links_directory",
            "artifact_directory"}
           \cup (IF slurm THEN {"job_name", "execution_directory"} ELSE {})
           \cup (IF job.executor.kind = "gridengine" THEN {} ELSE {"log_directory"})
      /\ handle.backend = job.executor.kind
      /\ handle.native_id = IF job.executor.kind = "gridengine" THEN JobId
                            ELSE IF slurm
                            THEN IF job.executor.mode = "salloc" THEN 0 ELSE JobId ELSE 0
      /\ handle.hostname = Or(settings.server, Setting(Me))
      /\ handle.username = IF settings.server = NoSetting THEN Setting(MyUser) ELSE settings.user
      /\ handle.links_directory = <<dir, "links">>
      /\ handle.artifact_directory = IF HasOutputs THEN <<dir, "artifacts">> ELSE NoSetting
      /\ slurm => /\ handle.job_name = Setting(JobName)
                  /\ handle.log_directory = Setting(logs)
                  /\ handle.execution_directory =
                       IF Managed(job) THEN Setting(dir) ELSE NoSetting
      /\ job.executor.kind = "local" => handle.log_directory = Setting(dir)
  BY <1>2, <1>4, LaunchOf DEF launched, dir
<1>8. /\ DOMAIN (handle ++ saved) = DOMAIN handle \cup DOMAIN saved
      /\ \A n \in DOMAIN handle : (handle ++ saved)[n] = handle[n]
      /\ \A n \in DOMAIN saved \ DOMAIN handle : (handle ++ saved)[n] = saved[n]
  BY UnionOf
<1>9. record' = handle ++ saved /\ script' = launched.script
  BY <1>2
<1>10. DOMAIN record' = Columns
  BY <1>6, <1>7, <1>8, <1>9 DEF Columns
<1>11. record' = [n \in DOMAIN record' |-> record'[n]]
  BY <1>9 DEF ++
<1>12. job.executor.kind # "slurm" => ~Managed(job)
  BY <1>2 DEF Acceptable
<1> HIDE DEF handle, settings, logs
<1>13. /\ record'.state = "unknown" /\ record'.job = _encode(job)
       /\ record'.is_array = (job.kind = "array") /\ record'.task_count = Tasks(job)
       /\ record'.log_path = NoSetting
  BY <1>6, <1>7, <1>8, <1>9
<1>14. /\ record'.backend = job.executor.kind
       /\ record'.native_id = IF job.executor.kind = "gridengine" THEN JobId
                              ELSE IF slurm
                              THEN IF job.executor.mode = "salloc" THEN 0 ELSE JobId ELSE 0
       /\ record'.hostname = Or(settings.server, Setting(Me))
       /\ record'.username = IF settings.server = NoSetting THEN Setting(MyUser) ELSE settings.user
       /\ record'.links_directory = <<dir, "links">>
       /\ record'.artifact_directory = IF HasOutputs THEN <<dir, "artifacts">> ELSE NoSetting
  BY <1>7, <1>8, <1>9
<1>15. /\ record'.job_name = IF slurm THEN Setting(JobName) ELSE NoSetting
       /\ record'.log_directory = IF slurm THEN Setting(logs)
                                  ELSE IF job.executor.kind = "local" THEN Setting(dir) ELSE NoSetting
       /\ record'.execution_directory = IF Managed(job) THEN Setting(dir) ELSE NoSetting
  BY <1>4, <1>6, <1>7, <1>8, <1>9, <1>12
<1>16. Chosen' = Chosen /\ Home' = Home /\ Directory' = Directory /\ Site' = Site /\ HasOutputs' = HasOutputs
       /\ req' = req
  BY <1>1 DEF authored, Chosen, Home, Directory, Site, HasOutputs
<1>17. settings = Home /\ logs = Absolute(Home, Logs(Chosen.executor, Directory))
  BY <1>3 DEF Home, settings, logs
<1>18. Acceptable(Chosen)' /\ Launchable(Chosen)' /\ (Managed(Chosen)' <=> Managed(Chosen))
  BY <1>2, <1>3, <1>16 DEF Acceptable, Managed, Launchable
<1>19. Row'
  <2>1. Managed(Chosen)' = Managed(job)
    BY <1>3, <1>16 DEF Managed
  <2>2. Tasks(Chosen)' = Tasks(job) /\ _encode(Chosen)' = _encode(job)
    BY <1>3, <1>16
  <2>3. DOMAIN record' = Columns /\ record' = [column \in Columns |-> record'[column]]
    BY <1>10, <1>11
  <2>4. Absolute(Home, Logs(Chosen.executor, Directory))' = logs
    BY <1>3, <1>16, <1>17
  <2>5. Chosen' = job /\ Home' = settings /\ Directory' = dir /\ HasOutputs' = HasOutputs
    BY <1>3, <1>16, <1>17
  <2> QED BY <1>13, <1>14, <1>15, <2>1, <2>2, <2>3, <2>4, <2>5 DEF Row
<1> QED BY <1>2, <1>3, <1>7, <1>9, <1>16, <1>17, <1>18, <1>19 DEF Submitted

LEMMA SameSubmitted ==
  ASSUME Submitted, UNCHANGED authored, UNCHANGED <<phase, script, bindings>>,
         phase = "submitted" => Row'
  PROVE  Submitted'
<1> USE DEF authored
<1>1. /\ Chosen' = Chosen /\ Home' = Home /\ Directory' = Directory /\ Site' = Site
      /\ HasOutputs' = HasOutputs
  BY DEF Chosen, Home, Directory, Site, HasOutputs
<1>2. Acceptable(Chosen)' = Acceptable(Chosen) /\ Launchable(Chosen)' = Launchable(Chosen)
      /\ Managed(Chosen)' = Managed(Chosen)
  BY <1>1 DEF Acceptable, Launchable, Managed
<1> QED BY <1>1, <1>2 DEF Submitted

LEMMA SameRow ==
  ASSUME Row, UNCHANGED authored, UNCHANGED record
  PROVE  Row'
<1> USE DEF authored
<1>1. /\ Chosen' = Chosen /\ Home' = Home /\ Directory' = Directory /\ HasOutputs' = HasOutputs
  BY DEF Chosen, Home, Directory, Site, HasOutputs
<1>2. Managed(Chosen)' = Managed(Chosen)
  BY <1>1 DEF Managed
<1> QED BY <1>1, <1>2 DEF Row

LEMMA NextSubmitted ==
  Fixed /\ NotYet /\ Packaged /\ Added /\ Submitted /\ [Next]_pipeline => Submitted'
<1> SUFFICES ASSUME Fixed, NotYet, Packaged, Added, Submitted, [Next]_pipeline PROVE Submitted'
  OBVIOUS
<1>1. CASE ChangeEnvironment
  BY <1>1 DEF ChangeEnvironment, Submitted, submitted
<1>2. CASE Package
  BY <1>2 DEF Package, Submitted
<1>3. CASE Add
  BY <1>3 DEF Add, Submitted
<1>4. CASE Submit
  BY <1>4, SubmitSubmitted DEF Submitted
<1>5. CASE NextAttempt \/ RunTask \/ EndTask \/ Inspect \/ InspectLocal \/ ListJobs \/ UNCHANGED pipeline
  <2>1. UNCHANGED <<authored, submitted>>
    BY <1>5 DEF NextAttempt, RunTask, EndTask, Inspect, InspectLocal, ListJobs, pipeline
  <2> QED BY <2>1, SameSubmitted, SameRow DEF submitted, Submitted
<1>6. CASE Stop
  <2>1. PICK state \in {"failed", "stopped"} : record' = [record EXCEPT !.state = state]
    BY <1>6 DEF Stop
  <2>2. UNCHANGED authored /\ UNCHANGED <<phase, script, bindings>> /\ phase = "submitted" /\ Row
    BY <1>6 DEF Stop, Submitted
  <2>3. /\ Chosen' = Chosen /\ Home' = Home /\ Directory' = Directory /\ HasOutputs' = HasOutputs
    BY <2>2 DEF authored, Chosen, Home, Directory, Site, HasOutputs
  <2>4. Managed(Chosen)' = Managed(Chosen)
    BY <2>2, <2>3 DEF authored, Managed
  <2>5. /\ DOMAIN record' = Columns /\ record' = [column \in Columns |-> record'[column]]
        /\ record'.state = state
        /\ \A column \in Columns \ {"state"} : record'[column] = record[column]
    BY <2>1, <2>2 DEF Row, Columns
  <2>6. Row'
    BY <2>2, <2>3, <2>4, <2>5 DEF Row, Columns
  <2> QED BY <2>2, <2>6, SameSubmitted
<1> QED BY <1>1, <1>2, <1>3, <1>4, <1>5, <1>6 DEF Next

\* Where a job runs is what its run is computed of.
---------------------------------------------------------------------------
(* Its tasks and attempts *)

LEMMA SameRun ==
  ASSUME UNCHANGED <<script, attempt, frozen, req>>
  PROVE  /\ Ranks' = Ranks /\ Backend' = Backend /\ IsManaged' = IsManaged
         /\ \A k, rank : RunOf(k, rank)' = RunOf(k, rank)
<1>1. /\ Payload' = Payload /\ Backend' = Backend /\ IsManaged' = IsManaged /\ Ranks' = Ranks
      /\ HasOutputs' = HasOutputs /\ Site' = Site
  BY DEF Payload, Backend, IsManaged, Ranks, HasOutputs, Site
<1>2. ASSUME NEW k PROVE HostEnv(k)' = HostEnv(k) /\ Output(k)' = Output(k)
  <2>1. HostEnv(k)' = HostEnv(k)
    BY <1>1 DEF HostEnv
  <2>2. SlurmOutput(k)' = SlurmOutput(k) /\ AttemptLog' = AttemptLog
    BY <1>1 DEF SlurmOutput, AttemptLog
  <2> QED BY <1>1, <2>1, <2>2 DEF Output
<1>3. ASSUME NEW k, NEW rank PROVE ProcessEnv(k, rank)' = ProcessEnv(k, rank)
  BY <1>1, <1>2 DEF ProcessEnv, WorkerEnv
<1> QED BY <1>1, <1>2, <1>3 DEF RunOf

LEMMA Launched ==
  ASSUME Added, Submitted, phase = "submitted"
  PROVE  /\ Payload = Chosen /\ Backend = executor.kind /\ (IsManaged <=> Managed(Chosen))
         /\ Chosen.executor = executor /\ Chosen.executable = executable
         /\ IsManaged => Chosen.kind = "job" /\ Backend = "slurm" /\ NativeTasks(script.built) = {0}
<1>1. script.built.job = Chosen /\ script.built.managed = Managed(Chosen)
  BY BuiltJob DEF Submitted, Managed
<1>2. Payload = Chosen /\ IsManaged = Managed(Chosen)
  BY <1>1 DEF Payload, IsManaged
<1>3. Chosen.executor = executor /\ Chosen.executable = executable
  BY DEF Added
<1>4. Managed(Chosen) => Chosen.kind = "job" /\ Chosen.executor.kind = "slurm"
  BY DEF Submitted, Acceptable
<1>5. Chosen.kind = "job" => NativeTasks(script.built) = {0}
  BY <1>1 DEF NativeTasks
<1> QED BY <1>2, <1>3, <1>4, <1>5 DEF Backend

LEMMA SameScheduled ==
  ASSUME Scheduled, UNCHANGED <<phase, script, attempt, frozen, req, sched, ran, status>>
  PROVE  Scheduled'
<1>1. /\ Ranks' = Ranks /\ Backend' = Backend /\ IsManaged' = IsManaged
      /\ \A k, rank : RunOf(k, rank)' = RunOf(k, rank)
  BY SameRun
<1>2. NativeTasks(script.built)' = NativeTasks(script.built)
  BY DEF NativeTasks
<1> QED BY <1>1, <1>2 DEF Scheduled

LEMMA NextScheduled ==
  Fixed /\ NotYet /\ Added /\ Submitted /\ Submitted' /\ Added' /\ Scheduled /\ [Next]_pipeline => Scheduled'
<1> SUFFICES ASSUME Fixed, NotYet, Added, Submitted, Submitted', Added', Scheduled, [Next]_pipeline
             PROVE  Scheduled'
  OBVIOUS
<1> USE DEF authored, submitted, tasks
<1>1. CASE ChangeEnvironment
  BY <1>1 DEF ChangeEnvironment, Scheduled
<1>2. CASE Package
  BY <1>2 DEF Package, Scheduled
<1>3. CASE Add
  BY <1>3 DEF Add, Scheduled
<1>4. CASE Submit
  <2>1. CASE phase' # "submitted"
    BY <2>1 DEF Scheduled
  <2>2. CASE phase' = "submitted"
    <3>1. sched' = [k \in NativeTasks(script'.built) |-> "PENDING"] /\ UNCHANGED <<attempt, ran, status>>
          /\ phase = "added"
      BY <1>4, <2>2 DEF Submit
    <3>2. ran = Nothing /\ status = "none" /\ DOMAIN ran = {}
      BY <3>1, NothingOf DEF NotYet
    <3>3. NativeTasks(script.built)' = NativeTasks(script'.built) /\ (IsManaged' => NativeTasks(script.built)' = {0})
      <4>1. script'.built.job = Chosen' /\ script'.built.managed = Managed(Chosen)'
        BY <2>2, BuiltJob DEF Submitted, Managed
      <4>2. Managed(Chosen)' => Chosen'.kind = "job"
        BY <2>2 DEF Submitted, Acceptable, Managed
      <4> QED BY <4>1, <4>2 DEF NativeTasks, IsManaged
    <3>4. /\ sched' \in [NativeTasks(script.built)' -> {"PENDING"}]
          /\ \A k \in DOMAIN sched' : sched'[k] = "PENDING"
      BY <3>1, <3>3
    <3> QED BY <3>1, <3>2, <3>3, <3>4 DEF Scheduled, States
  <2> QED BY <2>1, <2>2
<1>5. CASE NextAttempt
  <2>1. /\ phase = "submitted" /\ IsManaged
        /\ ran' = Nothing /\ sched' = [k \in {0} |-> "PENDING"]
        /\ UNCHANGED <<phase, script, status, req>> /\ attempt' = attempt + 1
    BY <1>5 DEF NextAttempt
  <2>2. NativeTasks(script.built)' = {0} /\ status = "none" /\ IsManaged'
    <3>1. NativeTasks(script.built) = {0} /\ status = "none"
      BY <2>1, Launched DEF Scheduled
    <3> QED BY <2>1, <3>1 DEF NativeTasks, IsManaged
  <2>3. /\ sched' \in [NativeTasks(script.built)' -> {"PENDING"}] /\ DOMAIN sched' = {0}
        /\ \A k \in DOMAIN sched' : sched'[k] = "PENDING"
    BY <2>1, <2>2
  <2> QED BY <2>1, <2>2, <2>3, NothingOf DEF Scheduled, States
<1>6. CASE RunTask
  <2>1. PICK k \in DOMAIN sched, rank \in Ranks :
          /\ sched[k] = "PENDING" /\ sched' = [sched EXCEPT ![k] = "RUNNING"]
          /\ ran' = Entry(k, RunOf(k, rank)) ++ ran
    BY <1>6 DEF RunTask, RunOf
  <2>2. phase = "submitted" /\ (IsManaged => attempt > 0)
        /\ UNCHANGED <<phase, script, attempt, frozen, req, status>>
    BY <1>6 DEF RunTask
  <2>3. /\ Ranks' = Ranks /\ Backend' = Backend /\ IsManaged' = IsManaged
        /\ \A n, r : RunOf(n, r)' = RunOf(n, r)
    BY <2>2, SameRun
  <2>4. NativeTasks(script.built)' = NativeTasks(script.built)
    BY <2>2 DEF NativeTasks
  <2>5. DOMAIN ran' = DOMAIN ran \cup {k} /\ ran'[k] = RunOf(k, rank)
        /\ \A n \in DOMAIN ran \ {k} : ran'[n] = ran[n]
    BY <2>1 DEF ++, Entry
  <2>6. /\ sched' \in [NativeTasks(script.built) -> States] /\ DOMAIN sched' = DOMAIN sched
        /\ sched'[k] = "RUNNING" /\ \A n \in DOMAIN sched \ {k} : sched'[n] = sched[n]
    BY <2>1, <2>2 DEF Scheduled, States
  <2>7. \A n \in DOMAIN ran' : sched'[n] # "PENDING" /\ \E r \in Ranks : ran'[n] = RunOf(n, r)
    BY <2>1, <2>2, <2>5, <2>6 DEF Scheduled
  <2> QED BY <2>1, <2>2, <2>3, <2>4, <2>5, <2>6, <2>7 DEF Scheduled
<1>7. CASE EndTask
  <2>1. PICK k \in DOMAIN sched, end \in Done :
          /\ sched[k] \in {"PENDING", "RUNNING"} /\ sched' = [sched EXCEPT ![k] = end]
          /\ end = "COMPLETED" => sched[k] = "RUNNING"
          /\ Backend # "slurm" => end \in {"COMPLETED", "FAILED"}
    BY <1>7 DEF EndTask, Done
  <2>2. phase = "submitted" /\ UNCHANGED <<phase, script, attempt, frozen, req, status, ran>>
    BY <1>7 DEF EndTask
  <2>3. /\ Ranks' = Ranks /\ Backend' = Backend /\ IsManaged' = IsManaged
        /\ \A n, r : RunOf(n, r)' = RunOf(n, r)
    BY <2>2, SameRun
  <2>4. NativeTasks(script.built)' = NativeTasks(script.built)
    BY <2>2 DEF NativeTasks
  <2>5. /\ sched' \in [NativeTasks(script.built) -> States] /\ DOMAIN sched' = DOMAIN sched
        /\ sched'[k] = end /\ \A n \in DOMAIN sched \ {k} : sched'[n] = sched[n]
    BY <2>1, <2>2 DEF Scheduled, States
  <2> QED BY <2>1, <2>2, <2>3, <2>4, <2>5 DEF Scheduled, Done
<1>8. CASE Inspect \/ InspectLocal
  <2>1. phase = "submitted" /\ ~IsManaged /\ UNCHANGED <<phase, script, attempt, frozen, req, sched, ran>>
    BY <1>8, Launched DEF Inspect, InspectLocal
  <2>2. /\ Ranks' = Ranks /\ Backend' = Backend /\ IsManaged' = IsManaged
        /\ \A n, r : RunOf(n, r)' = RunOf(n, r)
    BY <2>1, SameRun
  <2>3. NativeTasks(script.built)' = NativeTasks(script.built)
    BY <2>1 DEF NativeTasks
  <2> QED BY <2>1, <2>2, <2>3 DEF Scheduled
<1>9. CASE Stop \/ ListJobs \/ UNCHANGED pipeline
  BY <1>9, SameScheduled DEF Stop, ListJobs, pipeline
<1> QED BY <1>1, <1>2, <1>3, <1>4, <1>5, <1>6, <1>7, <1>8, <1>9 DEF Next

LEMMA NextAttempted ==
  /\ Fixed /\ NotYet /\ Added /\ Submitted /\ Scheduled /\ Attempted /\ attempt \in Nat /\ [Next]_pipeline
  => Attempted' /\ attempt' \in Nat
<1> SUFFICES ASSUME Fixed, NotYet, Added, Submitted, Scheduled, Attempted, attempt \in Nat, [Next]_pipeline
             PROVE  Attempted' /\ attempt' \in Nat
  OBVIOUS
<1> USE DEF authored, submitted, tasks
<1>1. CASE ChangeEnvironment \/ Package \/ Add
  <2>1. /\ phase # "submitted" /\ phase' # "submitted"
        /\ UNCHANGED <<attempt, current>>
    BY <1>1 DEF ChangeEnvironment, Package, Add
  <2> QED BY <2>1 DEF Attempted
<1>2. CASE Submit
  <2>1. phase = "added" /\ UNCHANGED <<attempt, current>>
    BY <1>2 DEF Submit
  <2>2. attempt = 0 /\ current = Nothing
    BY <2>1 DEF NotYet
  <2> QED BY <2>1, <2>2 DEF Attempted
<1>3. CASE NextAttempt
  <2> DEFINE files == IF attempt = 0 THEN <<AttemptDir(1), "artifacts">> ELSE current.artifact_directory
  <2>1. /\ phase = "submitted" /\ phase' = phase /\ script' = script /\ attempt' = attempt + 1
        /\ ran' = Nothing /\ sched' = [k \in {0} |-> "PENDING"] /\ IsManaged
        /\ current' = [native_id |-> 0, links_directory |-> <<AttemptDir(attempt'), "links">>,
                       log_path |-> <<AttemptDir(attempt'), "allocation.log">>,
                       artifact_directory |-> files]
    BY <1>3 DEF NextAttempt
  <2> HIDE DEF files
  <2>2. sched'[0] = "PENDING" /\ DOMAIN ran' = {} /\ attempt' > 0 /\ attempt' \in Nat
    BY <2>1, NothingOf
  <2>3. /\ DOMAIN current' = {"native_id", "links_directory", "log_path", "artifact_directory"}
        /\ current' = [column \in DOMAIN current' |-> current'[column]]
        /\ current'.links_directory = <<AttemptDir(attempt'), "links">>
    BY <2>1
  <2> QED BY <2>1, <2>2, <2>3 DEF Attempted, IsManaged
<1>4. CASE RunTask
  <2>1. PICK k \in DOMAIN sched, rank \in Ranks :
          /\ sched[k] = "PENDING" /\ sched' = [sched EXCEPT ![k] = "RUNNING"]
          /\ ran' = Entry(k, RunOf(k, rank)) ++ ran
    BY <1>4 DEF RunTask, RunOf
  <2>2. /\ phase = "submitted" /\ (IsManaged => attempt > 0)
        /\ UNCHANGED <<phase, script, attempt, frozen, req>>
        /\ current' = IF IsManaged THEN [current EXCEPT !.native_id = NativeJob, !.log_path = AttemptLog]
                      ELSE current
    BY <1>4 DEF RunTask
  <2>3. /\ IsManaged' = IsManaged /\ NativeJob' = NativeJob /\ AttemptLog' = AttemptLog
        /\ HasOutputs' = HasOutputs
    BY <2>2 DEF IsManaged, NativeJob, AttemptLog, Payload, HasOutputs
  <2>4. CASE ~IsManaged
    BY <2>2, <2>3, <2>4 DEF Attempted
  <2>5. CASE IsManaged
    <3>1. k = 0 /\ sched'[0] = "RUNNING"
      BY <2>1, <2>2, <2>5 DEF Scheduled
    <3> DEFINE native == NativeJob
               log == AttemptLog
    <3>2. DOMAIN current = {"native_id", "links_directory", "log_path", "artifact_directory"}
          /\ current.links_directory = <<AttemptDir(attempt), "links">>
      BY <2>2, <2>5 DEF Attempted
    <3> HIDE DEF native, log
    <3>3. current' = [current EXCEPT !.native_id = native, !.log_path = log]
      BY <2>2, <2>5 DEF native, log
    <3>4. /\ DOMAIN current' = DOMAIN current /\ current' = [column \in DOMAIN current' |-> current'[column]]
          /\ current'.native_id = native /\ current'.log_path = log
          /\ current'.links_directory = current.links_directory
      BY <3>2, <3>3
    <3> QED BY <2>2, <2>3, <2>5, <3>1, <3>2, <3>4 DEF Attempted, native, log
  <2> QED BY <2>4, <2>5
<1>5. CASE EndTask
  <2>1. /\ phase = "submitted" /\ UNCHANGED <<phase, script, attempt, frozen, req, ran>>
        /\ current' = current \/ (IsManaged /\ Captured)
    BY <1>5 DEF EndTask
  <2>2. /\ IsManaged' = IsManaged /\ NativeJob' = NativeJob /\ AttemptLog' = AttemptLog
        /\ HasOutputs' = HasOutputs
    BY <2>1 DEF IsManaged, NativeJob, AttemptLog, Payload, HasOutputs
  <2>3. CASE ~(IsManaged /\ attempt > 0)
    <3>1. ~IsManaged \/ attempt = 0
      BY <2>3
    <3>2. IsManaged => DOMAIN sched = {0} /\ ran = Nothing
      BY <2>1, <3>1 DEF Scheduled
    <3>3. current' = current
      <4>1. CASE ~IsManaged
        BY <2>1, <4>1
      <4>2. CASE IsManaged
        <5>1. \A n \in DOMAIN sched : sched[n] # "RUNNING"
          BY <2>1, <3>2, <4>2, NothingOf DEF Scheduled
        <5> QED BY <1>5, <5>1 DEF EndTask
      <4> QED BY <4>1, <4>2
    <3> QED BY <2>1, <2>2, <2>3, <3>3 DEF Attempted
  <2>4. CASE IsManaged /\ attempt > 0
    <3>1. /\ DOMAIN current = {"native_id", "links_directory", "log_path", "artifact_directory"}
          /\ current = [column \in DOMAIN current |-> current[column]]
          /\ current.links_directory = <<AttemptDir(attempt), "links">>
          /\ 0 \in DOMAIN ran => current.native_id = NativeJob /\ current.log_path = AttemptLog
          /\ (HasOutputs /\ sched[0] = "COMPLETED") =>
               current.artifact_directory = <<AttemptDir(attempt), "artifacts">>
      BY <2>1, <2>4 DEF Attempted
    <3>2. DOMAIN sched = {0}
      BY <2>1, <2>4 DEF Scheduled
    <3>3. PICK k \in DOMAIN sched, end \in Done :
            /\ sched[k] \in {"PENDING", "RUNNING"} /\ sched' = [sched EXCEPT ![k] = end]
            /\ (HasOutputs /\ end = "COMPLETED") => Captured
      BY <1>5, <2>4 DEF EndTask, Done
    <3>4. sched'[0] = end
      BY <3>2, <3>3
    <3> DEFINE files == <<AttemptDir(attempt), "artifacts">>
    <3>5. CASE Captured
      <4>1. current' = [current EXCEPT !.artifact_directory = files]
        BY <3>5 DEF Captured
      <4> HIDE DEF files
      <4>2. /\ DOMAIN current' = DOMAIN current
            /\ current' = [column \in DOMAIN current' |-> current'[column]]
            /\ current'.links_directory = current.links_directory
            /\ current'.native_id = current.native_id /\ current'.log_path = current.log_path
            /\ current'.artifact_directory = files
        BY <3>1, <4>1
      <4> QED BY <2>1, <2>2, <2>4, <3>1, <4>2 DEF Attempted, files
    <3>6. CASE ~Captured
      <4>1. current' = current
        BY <2>1, <3>6
      <4>2. ~(HasOutputs /\ sched'[0] = "COMPLETED")
        BY <3>3, <3>4, <3>6
      <4> QED BY <2>1, <2>2, <2>4, <3>1, <4>1, <4>2 DEF Attempted
    <3> QED BY <3>5, <3>6
  <2> QED BY <2>3, <2>4
<1>6. CASE Stop \/ Inspect \/ InspectLocal \/ ListJobs \/ UNCHANGED pipeline
  <2>1. UNCHANGED <<phase, script, attempt, current, frozen, req, ran, sched>>
    BY <1>6 DEF Stop, Inspect, InspectLocal, ListJobs, pipeline
  <2>2. /\ IsManaged' = IsManaged /\ NativeJob' = NativeJob /\ AttemptLog' = AttemptLog
        /\ HasOutputs' = HasOutputs
    BY <2>1 DEF IsManaged, NativeJob, AttemptLog, Payload, HasOutputs
  <2> QED BY <2>1, <2>2 DEF Attempted
<1> QED BY <1>1, <1>2, <1>3, <1>4, <1>5, <1>6 DEF Next

LEMMA NextIInv == IInv /\ [Next]_pipeline => IInv'
BY NextFixed, NextNotYet, NextPackaged, NextAdded, NextSubmitted, NextScheduled, NextAttempted DEF IInv

\* Phase by phase, the request, its packaging, its job, its row, its script and its
\* tasks are of one another, whatever the author, the scheduler and the environment do.
THEOREM PipelineInvariant == PipelineSpec => []IInv
<1>1. Init => IInv
  BY InitIInv
<1>2. IInv /\ [Next]_pipeline => IInv'
  BY NextIInv
<1> QED BY <1>1, <1>2, PTL DEF PipelineSpec

---------------------------------------------------------------------------
(* Where it is placed *)

LEMMA SameTarget ==
  ASSUME NEW one, NEW other, NEW config, package_target(one, config) = package_target(other, config)
  PROVE  create_artifact_store(SettingsOf(one, config), project(config))
           = create_artifact_store(SettingsOf(other, config), project(config))
<1>1. CASE one.kind = "local" /\ other.kind = "local"
  BY <1>1 DEF SettingsOf
<1>2. CASE one.kind # "local" /\ other.kind # "local"
  <2> DEFINE s == cluster_settings(config, one.cluster)
             t == cluster_settings(config, other.cluster)
  <2> HIDE DEF s, t
  <2>1. /\ SettingsOf(one, config) = s /\ SettingsOf(other, config) = t
        /\ package_target(one, config) = <<one.kind, s.server, s.user, s.root, project(config)>>
        /\ package_target(other, config) = <<other.kind, t.server, t.user, t.root, project(config)>>
    BY <1>2 DEF SettingsOf, package_target, s, t
  <2>2. s.server = t.server /\ s.user = t.user /\ s.root = t.root
    <3> DEFINE p == project(config)
    <3> HIDE DEF p
    <3>1. <<one.kind, s.server, s.user, s.root, p>> = <<other.kind, t.server, t.user, t.root, p>>
      BY <2>1 DEF p
    <3> QED BY <3>1
  <2> QED BY <2>1, <2>2 DEF create_artifact_store
<1>3. CASE ~(one.kind = "local" <=> other.kind = "local")
  <2>1. \A a, b, c, d, e, f, g, h : <<a, b, c>> # <<d, e, f, g, h>>
    OBVIOUS
  <2> QED BY <1>3, <2>1 DEF package_target
<1> QED BY <1>1, <1>2, <1>3

\* The endpoint that a record names is the one that its settings name.
LEMMA RecordedEndpoint ==
  ASSUME NEW settings
  PROVE  Endpoint(Or(settings.server, Setting(Me)),
                  IF settings.server = NoSetting THEN Setting(MyUser) ELSE settings.user)
           = EndpointOf(settings)
<1>1. CASE settings.server = NoSetting
  <2>1. Or(NoSetting, Setting(Me)) = Setting(Me) /\ Or(Setting(Me), Setting(Me)) = Setting(Me)
    BY DEF Or, NoSetting, Setting
  <2>2. ASSUME NEW user \in {NoSetting, Setting(MyUser)}
        PROVE  Endpoint(Setting(Me), user) = [hostname |-> Setting(Me), username |-> Setting(MyUser)]
    BY <2>1, SiteAssumption DEF Endpoint, hostname, Setting
  <2>3. EndpointOf(settings) = Endpoint(NoSetting, NoSetting)
    BY <1>1 DEF EndpointOf
  <2>4. Endpoint(NoSetting, NoSetting) = Endpoint(Setting(Me), NoSetting)
    BY <2>1 DEF Endpoint
  <2> QED BY <1>1, <2>1, <2>2, <2>3, <2>4
<1>2. CASE settings.server # NoSetting
  <2>1. Or(settings.server, Setting(Me)) = settings.server
    BY <1>2 DEF Or, NoSetting
  <2> QED BY <1>2, <2>1 DEF EndpointOf
<1> QED BY <1>1, <1>2

\* A job only runs where its bundle was put.
RefusedForGood ==
  (phase = "refused" /\ record.job # Nothing) =>
     \/ ~Buildable(flatten_job(unit)[1])
     \/ ~Reachable(executor, Site)
     \/ package_target(req.packaged_for, Site) # package_target(executor, Site)

LEMMA PlacedIfInvariant == IInv /\ RefusedForGood => PlacedWhereItRuns
<1> SUFFICES ASSUME IInv, RefusedForGood PROVE PlacedWhereItRuns
  OBVIOUS
<1> USE DEF IInv
<1>1. CASE phase = "submitted"
  <2>1. Payload = Chosen /\ Chosen.executor = executor /\ Chosen.executable = executable
    BY <1>1, Launched
  <2>2. /\ Launchable(Chosen) /\ Row
        /\ bindings = [i \in DOMAIN req.inputs |-> stage(declarations(req.inputs[i]), Chosen.executor, Site)]
    BY <1>1 DEF Submitted
  <2>3. /\ executable.target = package_target(req.packaged_for, Site)
        /\ bundle = create_artifact_store(SettingsOf(req.packaged_for, Site), project(Site))
    BY <1>1 DEF Packaged, Executable
  <2>4. package_target(req.packaged_for, Site) = package_target(executor, Site)
    BY <2>1, <2>2, <2>3 DEF Launchable
  <2>5. bundle = create_artifact_store(Home, project(Site))
    BY <2>1, <2>3, <2>4, SameTarget DEF Home
  <2>6. Endpoint(record.hostname, record.username) = EndpointOf(Home)
    BY <2>2, RecordedEndpoint DEF Row
  <2>7. ASSUME NEW i \in DOMAIN bindings PROVE bindings[i].endpoint = EndpointOf(Home)
    BY <2>2 DEF stage, Home
  <2>8. Home = SettingsOf(Payload.executor, Site)
    BY <2>1 DEF Home
  <2> QED BY <1>1, <2>5, <2>6, <2>7, <2>8 DEF PlacedWhereItRuns, Site
<1>2. CASE phase # "submitted"
  BY <1>2 DEF PlacedWhereItRuns, RefusedForGood, Site
<1> QED BY <1>1, <1>2

LEMMA NextRefused == IInv /\ RefusedForGood /\ [Next]_pipeline => RefusedForGood'
<1> SUFFICES ASSUME IInv, RefusedForGood, [Next]_pipeline PROVE RefusedForGood'
  OBVIOUS
<1> USE DEF authored, submitted, tasks, Site
<1>1. CASE ChangeEnvironment \/ Package \/ Add
  <2>1. record' = NewRow
    BY <1>1 DEF ChangeEnvironment, Package, Add, IInv, NotYet
  <2> QED BY <2>1 DEF RefusedForGood, NewRow
<1>2. CASE Submit
  <2> DEFINE job == flatten_job(unit)[1]
  <2>1. phase = "added" /\ UNCHANGED authored /\ record = NewRow
    BY <1>2 DEF Submit, IInv, NotYet
  <2>2. job.executor = executor /\ job.executable.target = package_target(req.packaged_for, Site)
    BY <2>1 DEF IInv, Added, Packaged, Chosen, Executable
  <2>3. \/ phase' # "refused" \/ record' = [record EXCEPT !.message = TRUE] \/ ~Launchable(job)
    BY <1>2 DEF Submit
  <2>4. CASE record' = [record EXCEPT !.message = TRUE]
    <3>1. record'.job = Nothing
      BY <2>1, <2>4 DEF NewRow
    <3> QED BY <3>1 DEF RefusedForGood
  <2>5. CASE ~Launchable(job)
    BY <2>1, <2>2, <2>5 DEF Launchable, RefusedForGood
  <2> QED BY <2>3, <2>4, <2>5 DEF RefusedForGood
<1>3. CASE NextAttempt \/ RunTask \/ EndTask \/ Stop
  BY <1>3 DEF NextAttempt, RunTask, EndTask, Stop, RefusedForGood
<1>4. CASE Inspect \/ InspectLocal \/ ListJobs \/ UNCHANGED pipeline
  BY <1>4 DEF Inspect, InspectLocal, ListJobs, pipeline, RefusedForGood
<1> QED BY <1>1, <1>2, <1>3, <1>4 DEF Next

\* A job only runs where its bundle was put and its inputs are, whatever the
\* environment has become, and one that is refused once its row names it is
\* refused for one of the reasons the client knows.
THEOREM PlacementIsRight == PipelineSpec => []PlacedWhereItRuns
<1>1. Init => RefusedForGood
  BY DEF Init, RefusedForGood
<1>2. IInv /\ RefusedForGood /\ [Next]_pipeline => RefusedForGood'
  BY NextRefused
<1>3. IInv /\ RefusedForGood => PlacedWhereItRuns
  BY PlacedIfInvariant
<1> QED BY <1>1, <1>2, <1>3, PipelineInvariant, PTL DEF PipelineSpec

---------------------------------------------------------------------------
(* Headers *)

\* An executor whose author names nothing that the client asks for every job, and
\* skips none of the lines that ask for it.
Spares(e, lines) ==
  \A line \in lines : line[1] \in ClientDirectives => \A skip \in e.skip_directives : ~InText(line, skip)
Leaves(e) ==
  /\ \A d \in e.extra_directives : d[1] \notin ClientDirectives
  /\ \A d \in e.resources : d[1] \notin ClientDirectives
  /\ e.kind = "gridengine" => \A d \in e.parallel_environments : d[1] \notin ClientDirectives
SlurmFile(n) == IF n > 0 THEN <<"%x", "%A", "%a">> ELSE <<"%x", "%j">>
SlurmSays(e, n, dir, header) ==
  /\ n > 0 => <<"array", <<"range", 1, n>> >> \in header
  /\ e.walltime # <<"none">> => <<"time", <<"time", SlurmTime(e.walltime[2])>> >> \in header
  /\ <<"output", <<"path", Logs(e, dir), SlurmFile(n)>> >> \in header
  /\ <<"job-name", <<"str", JobName>> >> \in header
  /\ \A d \in header :
       /\ d[1] \notin {"t", "h_rt"}
       /\ d[1] = "array" => n > 0 /\ d = <<"array", <<"range", 1, n>> >>
       /\ d[1] = "time" =>
            e.walltime # <<"none">> /\ d = <<"time", <<"time", SlurmTime(e.walltime[2])>> >>
       /\ d[1] = "output" => d = <<"output", <<"path", Logs(e, dir), SlurmFile(n)>> >>
       /\ d[1] = "job-name" => d = <<"job-name", <<"str", JobName>> >>
LEMMA SlurmDirectives ==
  ASSUME NEW e, NEW n, NEW dir, Leaves(e), Spares(e, slurm_lines(e, n, dir)),
         NEW header, header = slurm_header(e, n, dir)
  PROVE  SlurmSays(e, n, dir, header)
<1> DEFINE time == SlurmTime(e.walltime[2])
           path == <<"path", Logs(e, dir), SlurmFile(n)>>
           range == <<"range", 1, n>>
           name == <<"str", JobName>>
           lines == {<<"job-name", name>>}
                    \cup Opt(Names(e.resources) \cap {"ntasks", "ntasks-per-node"} = {}, "ntasks", <<"int", 1>>)
                    \cup {d \in e.resources : Truthy(d[2])}
                    \cup Opt(e.walltime # <<"none">>, "time", <<"time", time>>)
                    \cup {<<"output", path>>}
                    \cup Opt(e.exclusive, "exclusive", <<"none">>)
                    \cup Opt(Truthy(e.partition), "partition", e.partition)
                    \cup Opt(n > 0, "array", range)
<1>1. /\ header = {line \in lines : \A skip \in e.skip_directives : ~InText(line, skip)} \cup e.extra_directives
      /\ Spares(e, lines)
  BY DEF slurm_header, slurm_lines, Finish, SlurmFile
<1> HIDE DEF time, path, range, name
<1>2. /\ n > 0 => <<"array", range>> \in lines
      /\ e.walltime # <<"none">> => <<"time", <<"time", time>> >> \in lines
      /\ <<"output", path>> \in lines
      /\ <<"job-name", name>> \in lines
  BY DEF Opt
<1>3. ASSUME NEW d \in lines, d[1] \in ClientDirectives
      PROVE  \/ d = <<"job-name", name>> \/ d = <<"output", path>>
             \/ d = <<"time", <<"time", time>> >> /\ e.walltime # <<"none">>
             \/ d = <<"array", range>> /\ n > 0
  BY <1>3 DEF Opt, Leaves, ClientDirectives
<1> HIDE DEF lines
<1>4. ASSUME NEW d \in header, d[1] \in ClientDirectives PROVE d \in lines
  BY <1>1, <1>4 DEF Leaves
<1>5. \A d \in lines : d[1] \in ClientDirectives => d \in header
  BY <1>1 DEF Spares
<1>6. /\ n > 0 => <<"array", range>> \in header
      /\ e.walltime # <<"none">> => <<"time", <<"time", time>> >> \in header
      /\ <<"output", path>> \in header
      /\ <<"job-name", name>> \in header
  BY <1>2, <1>5 DEF ClientDirectives
<1>7. ASSUME NEW d \in header
      PROVE   /\ d[1] \notin {"t", "h_rt"}
              /\ d[1] = "array" => n > 0 /\ d = <<"array", range>>
              /\ d[1] = "time" => e.walltime # <<"none">> /\ d = <<"time", <<"time", time>> >>
              /\ d[1] = "output" => d = <<"output", path>>
              /\ d[1] = "job-name" => d = <<"job-name", name>>
  <2>1. d[1] \in {"t", "h_rt", "array", "time", "output", "job-name"} => d[1] \in ClientDirectives
    BY DEF ClientDirectives
  <2> QED BY <1>3, <1>4, <2>1
<1> QED BY <1>6, <1>7 DEF SlurmSays, time, path, range, name


GridSays(e, n, header) ==
  /\ n > 0 => <<"t", <<"range", 1, n>> >> \in header
  /\ e.walltime # <<"none">> => <<"h_rt", <<"time", SgeTime(e.walltime[2])>> >> \in header
  /\ \A d \in header :
       /\ d[1] \notin {"array", "time"}
       /\ d[1] = "t" => n > 0 /\ d = <<"t", <<"range", 1, n>> >>
       /\ d[1] = "h_rt" =>
            e.walltime # <<"none">> /\ d = <<"h_rt", <<"time", SgeTime(e.walltime[2])>> >>
LEMMA GridDirectives ==
  ASSUME NEW e, NEW n, NEW dir, Leaves(e), Spares(e, gridengine_lines(e, n, dir)), e.kind = "gridengine",
         NEW header, header = gridengine_header(e, n, dir)
  PROVE  GridSays(e, n, header)
<1> DEFINE time == SgeTime(e.walltime[2])
           file(end) == <<"path", Logs(e, dir),
                          IF n > 0 THEN <<"$JOB_NAME", end, "$JOB_ID", "$TASK_ID">>
                          ELSE <<"$JOB_NAME", end, "$JOB_ID">> >>
           out == file("o")
           err == file("e")
           range == <<"range", 1, n>>
           name == <<"str", JobName>>
           reserved == IF e.reserved # <<"none">> THEN e.reserved[2]
                       ELSE \/ e.parallel_environments # {}
                            \/ "gpu" \in Names(e.requirements) \cup Names(e.resources)
           lines == {<<"N", name>>}
                    \cup {d \in e.resources : Truthy(d[2])}
                    \cup {pe \in e.parallel_environments : pe[2][2] > 0}
                    \cup Opt(e.walltime # <<"none">>, "h_rt", <<"time", time>>)
                    \cup Opt(Truthy(e.queue), "q", e.queue)
                    \cup Opt(reserved, "R", <<"str", "y">>)
                    \cup {<<"o", out>>, <<"e", err>>}
                    \cup Opt(e.merge_output, "j", <<"str", "y">>)
                    \cup Opt(n > 0, "t", range)
                    \cup Opt(n > 0 /\ e.max_parallel_tasks > 0, "tc", <<"int", e.max_parallel_tasks>>)
                    \cup {<<"cwd", <<"none">> >>, <<"S", <<"str", "/bin/bash">> >>}
                    \cup Opt(Truthy(e.project), "P", e.project)
                    \cup Opt(Truthy(e.account), "A", e.account)
<1>1. /\ header = {line \in lines : \A skip \in e.skip_directives : ~InText(line, skip)} \cup e.extra_directives
      /\ Spares(e, lines)
  BY DEF gridengine_header, gridengine_lines, Finish
<1> HIDE DEF time, file, out, err, range, name, reserved
<1>2. /\ n > 0 => <<"t", range>> \in lines
      /\ e.walltime # <<"none">> => <<"h_rt", <<"time", time>> >> \in lines
  BY DEF Opt
<1>3. ASSUME NEW d \in lines, d[1] \in {"array", "time", "t", "h_rt"}
      PROVE  \/ d = <<"h_rt", <<"time", time>> >> /\ e.walltime # <<"none">>
             \/ d = <<"t", range>> /\ n > 0
  BY <1>3 DEF Opt, Leaves, ClientDirectives
<1> HIDE DEF lines
<1>4. ASSUME NEW d \in header, d[1] \in ClientDirectives PROVE d \in lines
  BY <1>1, <1>4 DEF Leaves
<1>5. \A d \in lines : d[1] \in ClientDirectives => d \in header
  BY <1>1 DEF Spares
<1>6. /\ n > 0 => <<"t", range>> \in header
      /\ e.walltime # <<"none">> => <<"h_rt", <<"time", time>> >> \in header
  BY <1>2, <1>5 DEF ClientDirectives
<1>7. ASSUME NEW d \in header
      PROVE   /\ d[1] \notin {"array", "time"}
              /\ d[1] = "t" => n > 0 /\ d = <<"t", range>>
              /\ d[1] = "h_rt" => e.walltime # <<"none">> /\ d = <<"h_rt", <<"time", time>> >>
  <2>1. d[1] \in {"t", "h_rt", "array", "time"} => d[1] \in ClientDirectives
    BY DEF ClientDirectives
  <2> QED BY <1>3, <1>4, <2>1
<1> QED BY <1>6, <1>7 DEF GridSays, time, range

LEMMA ShifterLeaves ==
  ASSUME NEW job, Leaves(job.executor), job.executor.kind = "slurm", "resources" \in DOMAIN job.executor,
         NEW used, used = WithShifter(job)
  PROVE  /\ Leaves(used) /\ used.walltime = job.executor.walltime
         /\ used.skip_directives = job.executor.skip_directives
         /\ used.log_directory = job.executor.log_directory
<1> DEFINE e == job.executor
           modules == OptionsOf(e, ShifterOptions).modules
           own == {"image"} \cup (IF modules = <<>> THEN {} ELSE {"module"})
           now == {d \in e.resources : d[1] \notin own} \cup {<<"image", <<"str", "image">> >>}
                    \cup Opt(modules # <<>>, "module", <<"str", "modules">>)
<1>1. used = IF job.executable.image_type # "shifter" THEN e ELSE [e EXCEPT !.resources = now]
  BY DEF WithShifter
<1>2. \A d \in now : d[1] \notin ClientDirectives
  BY DEF Opt, Leaves, ClientDirectives
<1> HIDE DEF now, e
<1>3. Leaves(e) /\ e.kind = "slurm" /\ "resources" \in DOMAIN e
  BY DEF e
<1>4. CASE job.executable.image_type # "shifter"
  BY <1>1, <1>3, <1>4 DEF e
<1>5. CASE job.executable.image_type = "shifter"
  <2>1. /\ used.skip_directives = e.skip_directives /\ used.extra_directives = e.extra_directives
        /\ used.kind = e.kind /\ used.walltime = e.walltime /\ used.log_directory = e.log_directory
        /\ used.resources = now
    BY <1>1, <1>3, <1>5
  <2> QED BY <1>2, <1>3, <2>1 DEF Leaves, e
<1> QED BY <1>4, <1>5


---------------------------------------------------------------------------
(* The tasks the scheduler starts *)

LEMMA Leaving == ASSUME LeftToClient, executor.kind # "local" PROVE Leaves(executor) \/ executor.kind \notin {"slurm", "gridengine"}
<1>1. ClientDirectives \cap (Names(executor.extra_directives \cup executor.resources)
                            \cup IF executor.kind = "slurm" THEN {}
                                 ELSE Names(executor.parallel_environments)) = {}
  BY DEF LeftToClient
<1>3. \A d \in executor.extra_directives \cup executor.resources : d[1] \notin ClientDirectives
  BY <1>1 DEF Names
<1>4. executor.kind = "gridengine" => \A d \in executor.parallel_environments : d[1] \notin ClientDirectives
  BY <1>1 DEF Names
<1> QED BY <1>3, <1>4 DEF Leaves

LEMMA SlurmAsked ==
  ASSUME Fixed, Packaged, phase \in {"packaged", "added", "submitted"}, executor.kind = "slurm"
  PROVE  executor = req.executor /\ IsExecutor(executor) /\ req.requirements = Nothing
<1>1. PICK env \in Environments : executor = ExecutorIn(env)
  BY DEF Packaged
<1>2. req.requirements = Nothing
  BY <1>1 DEF ExecutorIn, UclGridEngine, _myriad_executor_fn, _cs_executor_fn, GridEngine
<1> QED BY <1>1, <1>2, Requested DEF ExecutorIn, IsRequest

LEMMA Counted ==
  ASSUME Fixed, Added, phase = "submitted"
  PROVE  /\ Chosen.kind \in {"job", "array"} /\ (Chosen.kind = "array" <=> req.shape = "array")
         /\ Chosen.kind = "job" => Tasks(Chosen) = 1
         /\ Chosen.kind = "array" => /\ Tasks(Chosen) = Len(Chosen.args) /\ Len(Chosen.args) = Width
                                     /\ Width \in 1..MaxTasks
<1>1. CASE req.shape # "array"
  BY <1>1 DEF Added, Tasks
<1>2. CASE req.shape = "array"
  <2>1. Len(req.args_list) \in 1..MaxTasks /\ Len(req.env_list) \in 1..MaxTasks
    BY <1>2, Requested DEF IsRequest
  <2>2. Width \in 1..MaxTasks
    BY <2>1, TasksAssumption DEF Width, ArraySize
  <2>3. Chosen.args = [i \in 1..Width |-> from_collection(TaskOwn(req.args_list, i))] /\ Chosen.kind = "array"
    BY <1>2 DEF Added
  <2>4. Len(Chosen.args) = Width
    BY <2>2, <2>3, TasksAssumption
  <2> QED BY <1>2, <2>2, <2>3, <2>4 DEF Tasks
<1> QED BY <1>1, <1>2

LEMMA HeaderOf ==
  ASSUME Fixed, Packaged, Added, Submitted, phase = "submitted"
  PROVE  script.built.header = create_job_script_header(Chosen, IF Chosen.kind = "array" THEN Width ELSE 0, Directory)
<1>1. script.built.header
        = create_job_script_header(Chosen, IF Chosen.kind = "array" THEN Len(Chosen.args) ELSE 0, Directory)
  BY DEF Submitted, build
<1> QED BY <1>1, Counted

\* What the client asks of the scheduler is in the header of a job whose author left
\* it to it, as the client writes it.
LEMMA HeaderSays ==
  ASSUME Fixed, Packaged, Added, Submitted, phase = "submitted", LeftToClient, executor.kind # "local",
         NEW n, n = IF Chosen.kind = "array" THEN Width ELSE 0,
         NEW header, header = script.built.header, NEW used, used = WithShifter(Chosen)
  PROVE  /\ executor.kind = "slurm" =>
              /\ SlurmSays(used, n, Directory, header)
              /\ used.walltime = executor.walltime /\ used.log_directory = executor.log_directory
         /\ executor.kind = "gridengine" => GridSays(executor, n, header)
<1>1. Payload = Chosen /\ Chosen.executor = executor /\ executor.kind \in {"gridengine", "slurm"}
  BY Launched, ExecutorKind
<1>2. header = create_job_script_header(Chosen, n, Directory) /\ script.directory = Directory
  BY HeaderOf DEF Submitted
<1>3. Leaves(executor)
  BY <1>1, Leaving
<1>4. Spares(executor, header_lines(Chosen, n, Directory))
  <2>1. n = IF Chosen.kind = "array" THEN Len(Chosen.args) ELSE 0
    BY Counted
  <2>2. ClientLines = {line \in header_lines(Chosen, n, Directory) : line[1] \in ClientDirectives}
    BY <1>1, <1>2, <2>1 DEF ClientLines
  <2>3. \A skip \in executor.skip_directives : \A line \in ClientLines : ~InText(line, skip)
    BY <1>1 DEF LeftToClient
  <2> QED BY <2>2, <2>3 DEF Spares
<1>5. CASE executor.kind = "slurm"
  <2>1. "resources" \in DOMAIN executor
    BY <1>5, SlurmAsked DEF IsExecutor
  <2>2. /\ Leaves(used) /\ used.skip_directives = executor.skip_directives
        /\ used.walltime = executor.walltime /\ used.log_directory = executor.log_directory
    BY <1>1, <1>3, <1>5, <2>1, ShifterLeaves
  <2>3. /\ header = slurm_header(used, n, Directory)
        /\ header_lines(Chosen, n, Directory) = slurm_lines(used, n, Directory)
    BY <1>1, <1>2, <1>5 DEF create_job_script_header, header_lines
  <2>4. Spares(used, slurm_lines(used, n, Directory))
    BY <1>4, <2>2, <2>3 DEF Spares
  <2> QED BY <1>5, <2>2, <2>3, <2>4, SlurmDirectives
<1>6. CASE executor.kind = "gridengine"
  <2>1. /\ header = gridengine_header(executor, n, Directory)
        /\ header_lines(Chosen, n, Directory) = gridengine_lines(executor, n, Directory)
    BY <1>1, <1>2, <1>6 DEF create_job_script_header, header_lines
  <2> QED BY <1>3, <1>4, <1>6, <2>1, GridDirectives
<1> QED BY <1>1, <1>5, <1>6

LEMMA Numbered ==
  ASSUME Fixed, Packaged, Added, Submitted, phase = "submitted", LeftToClient
  PROVE  NativeTasks(script.built) = IF Chosen.kind = "array" THEN 1..Width ELSE {0}
<1>1. /\ Payload = Chosen /\ script.built.job = Chosen /\ Chosen.executor = executor
      /\ executor.kind \in {"local", "gridengine", "slurm"}
  BY Launched, ExecutorKind DEF Payload
<1>2. CASE Chosen.kind # "array"
  BY <1>1, <1>2 DEF NativeTasks
<1>3. CASE Chosen.kind = "array" /\ executor.kind = "local"
  BY <1>1, <1>3, Counted DEF NativeTasks
<1>4. CASE Chosen.kind = "array" /\ executor.kind # "local"
  <2> DEFINE header == script.built.header
             range == <<"range", 1, Width>>
  <2>1. Width > 0 /\ Width = IF Chosen.kind = "array" THEN Width ELSE 0
    BY <1>4, Counted
  <2>2. /\ executor.kind = "slurm" => SlurmSays(WithShifter(Chosen), Width, Directory, header)
        /\ executor.kind = "gridengine" => GridSays(executor, Width, header)
    BY <1>1, <1>4, <2>1, HeaderSays
  <2> HIDE DEF header
  <2>3. Ranges(header) = {range}
    <3>1. CASE executor.kind = "slurm"
      <4>1. /\ <<"array", range>> \in header
            /\ \A d \in header : d[1] # "t" /\ (d[1] = "array" => d = <<"array", range>>)
        BY <2>1, <2>2, <3>1 DEF SlurmSays
      <4> HIDE DEF range
      <4> QED BY <4>1 DEF Ranges
    <3>2. CASE executor.kind = "gridengine"
      <4>1. /\ <<"t", range>> \in header
            /\ \A d \in header : d[1] # "array" /\ (d[1] = "t" => d = <<"t", range>>)
        BY <2>1, <2>2, <3>2 DEF GridSays
      <4> HIDE DEF range
      <4> QED BY <4>1 DEF Ranges
    <3> QED BY <1>1, <1>4, <3>1, <3>2
  <2>4. NativeTasks(script.built) = UNION {r[2]..r[3] : r \in Ranges(header)}
    BY <1>1, <1>4, <2>3 DEF NativeTasks, header
  <2>5. range[2] = 1 /\ range[3] = Width
    OBVIOUS
  <2> HIDE DEF range, header
  <2> QED BY <1>4, <2>3, <2>4, <2>5
<1> QED BY <1>2, <1>3, <1>4


---------------------------------------------------------------------------
(* What get_status makes of the accounting *)

Statuses == {"failed", "stopped", "unknown", "running", "paused", "queued", "completed"}
Sums(result, S) ==
  /\ result = "completed" => S \subseteq {"completed"}
  /\ result \in {"failed", "stopped"} => result \in S
LEMMA AggregateOf ==
  ASSUME NEW S, S \subseteq Statuses, NEW result, result = aggregate(S)
  PROVE  Sums(result, S)
<1> DEFINE shown == {i \in DOMAIN Precedence : Precedence[i] \in S}
<1>1. DOMAIN Precedence = 1..7
  BY DEF Precedence
<1>2. /\ Precedence[1] = "failed" /\ Precedence[2] = "stopped" /\ Precedence[3] = "unknown"
      /\ Precedence[4] = "running" /\ Precedence[5] = "paused" /\ Precedence[6] = "queued"
      /\ Precedence[7] = "completed"
  BY DEF Precedence
<1>3. result = IF shown = {} THEN "unknown" ELSE Precedence[Min(shown)]
  BY DEF aggregate
<1>4. shown \in SUBSET Nat /\ shown \subseteq 1..7 /\ \A i \in shown : Precedence[i] \in S
  BY <1>1
<1>5. \A i \in 1..7 : Precedence[i] \in S => i \in shown
  BY <1>1
<1> HIDE DEF shown
<1>6. CASE shown = {}
  BY <1>3, <1>6 DEF Sums
<1>7. CASE shown # {}
  <2> DEFINE m == Min(shown)
  <2>1. m \in shown /\ \A k \in shown : m <= k
    BY <1>4, <1>7, MinOf
  <2>2. result = Precedence[m] /\ result \in S
    BY <1>3, <1>4, <1>7, <2>1
  <2> HIDE DEF m
  <2>3. ASSUME result = "completed" PROVE S \subseteq {"completed"}
    <3>1. m = 7
      <4>1. m \in 1..7
        BY <1>4, <2>1
      <4>2. m = 1 \/ m = 2 \/ m = 3 \/ m = 4 \/ m = 5 \/ m = 6 \/ m = 7
        BY <4>1
      <4> QED BY <1>2, <2>2, <2>3, <4>2
    <3>2. \A i \in 1..6 : Precedence[i] \notin S
      BY <1>5, <2>1, <3>1
    <3>3. /\ "failed" \notin S /\ "stopped" \notin S /\ "unknown" \notin S
          /\ "running" \notin S /\ "paused" \notin S /\ "queued" \notin S
      BY <1>2, <3>2
    <3> QED BY <3>3 DEF Statuses
  <2> QED BY <2>2, <2>3 DEF Sums
<1> QED BY <1>6, <1>7 DEF Sums

\* A row that counts is one of the job's own.
ReadFrom(rows, name, answer, id) ==
  \E i \in DOMAIN rows : /\ rows[i][2] = name /\ rows[i][1] = id
                         /\ answer[id] = <<rows[i][3], rows[i][4]>>
LEMMA AccountingOf ==
  ASSUME NEW S, NEW rows \in Seq(S), NEW name, NEW answer, answer = accounting(rows, name),
         NEW id \in DOMAIN answer
  PROVE  ReadFrom(rows, name, answer, id)
<1> DEFINE mine == {i \in DOMAIN rows : rows[i][2] = name}
           of(n) == CHOOSE i \in mine : rows[i][1] = n /\ \A j \in mine : rows[j][1] = n => j <= i
           i == of(id)
           S0 == {j \in mine : rows[j][1] = id}
<1>1. answer = [n \in {rows[j][1] : j \in mine} |-> <<rows[of(n)][3], rows[of(n)][4]>>]
  BY DEF accounting
<1>2. mine \in SUBSET (1..Len(rows)) /\ Len(rows) \in Nat /\ DOMAIN rows = 1..Len(rows)
  OBVIOUS
<1>3. id \in {rows[j][1] : j \in mine}
  BY <1>1
<1>4. S0 \in SUBSET (1..Len(rows)) /\ S0 # {}
  BY <1>2, <1>3
<1>5. \E m \in S0 : \A j \in S0 : j <= m
  BY <1>2, <1>4, MaxIn
<1>6. i \in mine /\ rows[i][1] = id
  BY <1>5
<1>7. answer[id] = <<rows[i][3], rows[i][4]>>
  BY <1>1, <1>3
<1> QED BY <1>6, <1>7 DEF ReadFrom

\* What one task's status tells of the row it was read from.
Reads(said, known, its) ==
  /\ said \in Statuses
  /\ said = "completed" => known /\ its[1] = "COMPLETED" /\ its[2] = "0:0"
  /\ said = "stopped" => known /\ its[1] = "CANCELLED"
  /\ said = "failed" => /\ known
                        /\ \/ its[1] = "COMPLETED" /\ its[2] \notin {"", "0:0"}
                           \/ its[1] \notin {"COMPLETED", "PENDING", "RUNNING", "UNKNOWN"}
LEMMA TaskStatusOf ==
  ASSUME NEW r, r.state \in {"unknown", "stopped", "failed"}, NEW answer, NEW task,
         NEW said, said = task_status(r, answer, task)
  PROVE  Reads(said, native_id(r, task) \in DOMAIN answer, answer[native_id(r, task)])
<1> DEFINE id == native_id(r, task)
           row == IF id \in DOMAIN answer THEN answer[id] ELSE <<"UNKNOWN", "">>
           state == SlurmState(row[1])
<1>1. said = CASE state = "completed" /\ row[2] = ""               -> "unknown"
               [] state = "completed" /\ row[2] \notin {"", "0:0"} -> "failed"
               [] state = "stopped" /\ r.state \in {"stopped", "failed"} -> r.state
               [] OTHER -> state
  BY DEF task_status
<1>2. id \notin DOMAIN answer => row[1] = "UNKNOWN"
  OBVIOUS
<1> HIDE DEF row, id
<1>3. /\ state \in Statuses
      /\ state = "completed" => row[1] = "COMPLETED"
      /\ state = "stopped" => row[1] = "CANCELLED"
      /\ state = "failed" => row[1] \notin {"COMPLETED", "PENDING", "RUNNING", "UNKNOWN"}
      /\ row[1] = "UNKNOWN" => state = "unknown"
  BY DEF SlurmState, Statuses
<1> HIDE DEF state
<1>4. said \in Statuses
  BY <1>1, <1>3 DEF Statuses
<1>5. id \in DOMAIN answer => row = answer[id]
  BY DEF row
<1>6. /\ said = "completed" => state = "completed" /\ row[2] = "0:0"
      /\ said = "stopped" => state = "stopped"
      /\ said = "failed" => \/ state = "completed" /\ row[2] \notin {"", "0:0"}
                            \/ state \in {"stopped", "failed"}
  <2>1. CASE state = "completed" /\ row[2] = ""
    BY <1>1, <2>1
  <2>2. CASE state = "completed" /\ row[2] # "" /\ row[2] # "0:0"
    BY <1>1, <2>2
  <2>3. CASE state = "completed" /\ row[2] = "0:0"
    <3>1. said = state
      BY <1>1, <2>3
    <3> QED BY <2>3, <3>1
  <2>4. CASE state = "stopped"
    BY <1>1, <2>4
  <2>5. CASE state \notin {"stopped", "completed"}
    <3>1. said = state
      BY <1>1, <2>5
    <3> QED BY <2>5, <3>1
  <2> QED BY <2>1, <2>2, <2>3, <2>4, <2>5
<1>7. said \in {"completed", "stopped", "failed"} => id \in DOMAIN answer
  BY <1>2, <1>3, <1>6
<1> QED BY <1>3, <1>4, <1>5, <1>6, <1>7 DEF id, Reads


\* The tasks of a record are the tasks the scheduler has.
LEMMA TasksAre ==
  ASSUME Fixed, Packaged, Added, Submitted, Scheduled, phase = "submitted", LeftToClient
  PROVE  /\ record.state \in {"unknown", "stopped", "failed"}
         /\ IF record.is_array
            THEN record.task_count \in Nat \ {0} /\ DOMAIN sched = 1..record.task_count
            ELSE record.task_count = 1 /\ DOMAIN sched = {0}
         /\ \A task \in 0..record.task_count - 1 :
              \E k \in DOMAIN sched : k = IF record.is_array THEN task + 1 ELSE 0
<1>1. /\ record.state \in {"unknown", "stopped", "failed"} /\ record.is_array = (Chosen.kind = "array")
      /\ record.task_count = Tasks(Chosen)
  BY DEF Submitted, Row
<1>2. DOMAIN sched = IF Chosen.kind = "array" THEN 1..Width ELSE {0}
  BY Numbered DEF Scheduled
<1>3. IF Chosen.kind = "array" THEN Tasks(Chosen) = Width /\ Width \in Nat \ {0} ELSE Tasks(Chosen) = 1
  BY Counted, TasksAssumption
<1>4. CASE Chosen.kind = "array"
  <2>1. record.is_array /\ record.task_count \in Nat \ {0} /\ DOMAIN sched = 1..record.task_count
    BY <1>1, <1>2, <1>3, <1>4
  <2>2. \A task \in 0..record.task_count - 1 : task + 1 \in DOMAIN sched
    BY <2>1
  <2> QED BY <1>1, <2>1, <2>2
<1>5. CASE Chosen.kind # "array"
  <2>1. ~record.is_array /\ record.task_count = 1 /\ DOMAIN sched = {0}
    BY <1>1, <1>2, <1>3, <1>5
  <2> QED BY <1>1, <2>1
<1> QED BY <1>4, <1>5

\* The keys of sacct's answer for a job are its own tasks', and what it says of
\* each was so of that task.
TrueOf(k, row) ==
  \/ row = <<sched[k], IF sched[k] = "FAILED" THEN "1:0" ELSE "0:0">>
  \/ row = <<"RUNNING", "0:0">> /\ sched[k] \in Done
  \/ row = <<"COMPLETED", "">> /\ sched[k] = "COMPLETED"
LEMMA AnswerOf ==
  ASSUME Fixed, Packaged, Added, Submitted, Scheduled, phase = "submitted", LeftToClient, Backend = "slurm",
         NEW shown \in SUBSET DOMAIN sched, NEW recycled \in {Nothing, Recycled},
         NEW row \in [shown -> UNION {Rows(k) : k \in shown}], \A k \in shown : row[k] \in Rows(k),
         NEW answer,
         answer = accounting(SetToSeq({row[k] : k \in shown}) \o recycled, record.job_name[2]),
         NEW task \in 0..record.task_count - 1, native_id(record, task) \in DOMAIN answer,
         NEW k \in DOMAIN sched, k = IF record.is_array THEN task + 1 ELSE 0
  PROVE  TrueOf(k, answer[native_id(record, task)])
<1> DEFINE id == native_id(record, task)
           name == record.job_name[2]
           mine == {row[n] : n \in shown}
           theirs == {<<native_id(record, n - 1), "other", "COMPLETED", "0:0">> : n \in 1..record.task_count}
           first == SetToSeq(mine)
           rows == first \o recycled
<1>1. name = "job"
  <2>1. Chosen.executor.kind = "slurm"
    BY Launched
  <2> QED BY <2>1 DEF Submitted, Row, Setting, JobName
<1>2. record.task_count \in Nat /\ IF record.is_array THEN DOMAIN sched = 1..record.task_count ELSE DOMAIN sched = {0}
  BY TasksAre
<1>3. IsFiniteSet(DOMAIN sched)
  <2>1. 1 \in Int /\ record.task_count \in Int
    BY <1>2
  <2>2. IsFiniteSet(1..record.task_count)
    BY <2>1, FS_Interval
  <2>3. IsFiniteSet({0})
    BY FS_Singleton
  <2> QED BY <1>2, <2>2, <2>3
<1>4. IsFiniteSet(shown)
  BY <1>3, FS_Subset
<1>5. IsFiniteSet(mine)
  <2> DEFINE f == [n \in shown |-> row[n]]
  <2>1. f \in [shown -> mine] /\ \A m \in mine : \E n \in shown : f[n] = m
    OBVIOUS
  <2>2. f \in Surjection(shown, mine)
    BY <2>1 DEF Surjection
  <2> QED BY <1>4, <2>2, FS_Surjection
<1>6. first \in Seq(mine)
  BY <1>5, SetToSeqOf
<1>7. recycled \in Seq(theirs)
  <2>1. CASE recycled = <<>>
    BY <2>1
  <2>2. CASE recycled = Recycled
    <3> DEFINE old(n) == <<native_id(record, n - 1), "other", "COMPLETED", "0:0">>
               all == 1..record.task_count
    <3>1. recycled = [n \in all |-> old(n)] /\ theirs = {old(n) : n \in all}
      BY <2>2 DEF Recycled
    <3> HIDE DEF old, theirs
    <3>2. recycled \in [all -> theirs]
      BY <3>1
    <3> QED BY <1>2, <3>2
  <2> QED BY <2>1, <2>2 DEF Nothing
<1> HIDE DEF first
<1>8. rows \in Seq(mine \cup theirs)
  <2>1. first \in Seq(mine \cup theirs) /\ recycled \in Seq(mine \cup theirs)
    BY <1>6, <1>7
  <2> HIDE DEF mine, theirs
  <2> QED BY <2>1
<1>9. answer = accounting(rows, name)
  BY DEF first
<1> HIDE DEF rows, id, name
<1>10. PICK i \in DOMAIN rows : rows[i][2] = name /\ rows[i][1] = id /\ answer[id] = <<rows[i][3], rows[i][4]>>
  <2>1. id \in DOMAIN answer
    BY DEF id
  <2> DEFINE S == mine \cup theirs
  <2> HIDE DEF S
  <2>2. rows \in Seq(S)
    BY <1>8 DEF S
  <2>3. ReadFrom(rows, name, answer, id)
    BY <1>9, <2>1, <2>2, AccountingOf
  <2> QED BY <2>3 DEF ReadFrom
<1>11. rows[i] \in mine \cup theirs
  BY <1>8
<1>12. \A r \in theirs : r[2] = "other"
  OBVIOUS
<1>13. rows[i] \in mine
  BY <1>1, <1>10, <1>11, <1>12
<1>14. PICK n \in shown : rows[i] = row[n]
  BY <1>13
<1>15. row[n] \in Rows(n)
  OBVIOUS
<1>16. /\ row[n][1] = <<JobId, n>>
       /\ TrueOf(n, <<row[n][3], row[n][4]>>)
  <2> DEFINE its == <<JobId, n>>
             made(state, code) == <<its, name, state, code>>
  <2>1. row[n] \in {made(sched[n], IF sched[n] = "FAILED" THEN "1:0" ELSE "0:0")}
                     \cup (IF sched[n] \in Done THEN {made("RUNNING", "0:0")} ELSE {})
                     \cup (IF sched[n] = "COMPLETED" THEN {made("COMPLETED", "")} ELSE {})
    BY <1>15 DEF Rows, name
  <2>2. \A state, code : made(state, code)[1] = its /\ made(state, code)[3] = state /\ made(state, code)[4] = code
    OBVIOUS
  <2> HIDE DEF its, made
  <2>3. \/ row[n] = made(sched[n], IF sched[n] = "FAILED" THEN "1:0" ELSE "0:0")
        \/ row[n] = made("RUNNING", "0:0") /\ sched[n] \in Done
        \/ row[n] = made("COMPLETED", "") /\ sched[n] = "COMPLETED"
    BY <2>1
  <2>4. PICK state, code : row[n] = made(state, code) /\ TrueOf(n, <<state, code>>)
    BY <2>3 DEF TrueOf
  <2>5. row[n][1] = its /\ row[n][3] = state /\ row[n][4] = code
    BY <2>2, <2>4
  <2> QED BY <2>4, <2>5 DEF its
<1>17. n = k
  <2>1. <<JobId, n>> = <<record.native_id, IF record.is_array THEN task + 1 ELSE 0>>
    BY <1>10, <1>14, <1>16 DEF id, native_id
  <2> QED BY <2>1
<1> QED BY <1>10, <1>14, <1>16, <1>17 DEF id


\* What get_status concludes of the states of the tasks.
Truthful(said) ==
  /\ said = "completed" => \A k \in DOMAIN sched : sched[k] = "COMPLETED"
  /\ said = "failed"    => \E k \in DOMAIN sched : sched[k] \in Done \ {"COMPLETED"}
  /\ said = "stopped"   => \E k \in DOMAIN sched : sched[k] = "CANCELLED"

LEMMA SlurmStatus ==
  ASSUME Fixed, Packaged, Added, Submitted, Scheduled, phase = "submitted", LeftToClient, Backend = "slurm",
         NEW shown \in SUBSET DOMAIN sched, NEW recycled \in {Nothing, Recycled},
         NEW row \in [shown -> UNION {Rows(k) : k \in shown}], \A k \in shown : row[k] \in Rows(k)
  PROVE  Truthful(get_status(record, SetToSeq({row[k] : k \in shown}) \o recycled))
<1> DEFINE rows == SetToSeq({row[k] : k \in shown}) \o recycled
           answer == accounting(rows, record.job_name[2])
           all == 0..record.task_count - 1
           said(task) == task_status(record, answer, task)
           S == {said(task) : task \in all}
           result == get_status(record, rows)
           own(task) == IF record.is_array THEN task + 1 ELSE 0
<1>1. result = aggregate(S)
  BY DEF get_status
<1>2. record.state \in {"unknown", "stopped", "failed"} /\ \A task \in all : own(task) \in DOMAIN sched
  BY TasksAre
<1>3. \A k \in DOMAIN sched : \E task \in all : own(task) = k
  <2>1. IF record.is_array
        THEN record.task_count \in Nat \ {0} /\ DOMAIN sched = 1..record.task_count
        ELSE record.task_count = 1 /\ DOMAIN sched = {0}
    BY TasksAre
  <2>2. CASE record.is_array
    <3> SUFFICES ASSUME NEW k \in DOMAIN sched PROVE \E task \in all : own(task) = k
      OBVIOUS
    <3>1. k \in 1..record.task_count /\ record.task_count \in Nat
      BY <2>1, <2>2
    <3>2. k - 1 \in all /\ (k - 1) + 1 = k
      BY <3>1
    <3> QED BY <2>2, <3>2
  <2>3. CASE ~record.is_array
    <3>1. 0 \in all /\ own(0) = 0
      BY <2>1, <2>3
    <3> QED BY <2>1, <2>3, <3>1
  <2> QED BY <2>2, <2>3
<1>4. ASSUME NEW task \in all, native_id(record, task) \in DOMAIN answer
      PROVE  TrueOf(own(task), answer[native_id(record, task)])
  BY <1>2, <1>4, AnswerOf
<1>5. ASSUME NEW task \in all
      PROVE  /\ said(task) \in Statuses
             /\ said(task) = "completed" => sched[own(task)] = "COMPLETED"
             /\ said(task) = "failed" => sched[own(task)] \in Done \ {"COMPLETED"}
             /\ said(task) = "stopped" => sched[own(task)] = "CANCELLED"
  <2> DEFINE id == native_id(record, task)
             its == answer[id]
             k == own(task)
  <2>1. Reads(said(task), id \in DOMAIN answer, its)
    BY <1>2, TaskStatusOf
  <2>2. sched[k] \in States
    BY <1>2 DEF Scheduled
  <2>3. id \in DOMAIN answer => TrueOf(k, its)
    BY <1>4
  <2> HIDE DEF id, its, k, said
  <2>4. ASSUME TrueOf(k, its)
        PROVE  /\ its[1] = "COMPLETED" /\ its[2] = "0:0" => sched[k] = "COMPLETED"
               /\ its[1] = "CANCELLED" => sched[k] = "CANCELLED"
               /\ its[1] = "COMPLETED" => its[2] \in {"", "0:0"}
               /\ its[1] \notin {"COMPLETED", "PENDING", "RUNNING", "UNKNOWN"} =>
                    sched[k] \in Done \ {"COMPLETED"}
    <3>1. CASE its = <<sched[k], IF sched[k] = "FAILED" THEN "1:0" ELSE "0:0">>
      <4>1. its[1] = sched[k] /\ its[2] = IF sched[k] = "FAILED" THEN "1:0" ELSE "0:0"
        BY <3>1
      <4> QED BY <2>2, <4>1 DEF States, Done
    <3>2. CASE its = <<"RUNNING", "0:0">>
      BY <3>2
    <3>3. CASE its = <<"COMPLETED", "">> /\ sched[k] = "COMPLETED"
      BY <3>3
    <3> QED BY <2>4, <3>1, <3>2, <3>3 DEF TrueOf
  <2> QED BY <2>1, <2>3, <2>4 DEF k, Reads
<1>6. S \subseteq Statuses
  BY <1>5
<1>7. Sums(result, S)
  BY <1>1, <1>6, AggregateOf
<1> HIDE DEF result, said, all, answer
<1>8. result = "completed" => \A k \in DOMAIN sched : sched[k] = "COMPLETED"
  BY <1>3, <1>5, <1>7 DEF Sums
<1>9. result \in {"failed", "stopped"} => \E task \in all : said(task) = result
  BY <1>7 DEF Sums
<1>10. result = "failed" => \E k \in DOMAIN sched : sched[k] \in Done \ {"COMPLETED"}
  BY <1>2, <1>5, <1>9
<1>11. result = "stopped" => \E k \in DOMAIN sched : sched[k] = "CANCELLED"
  BY <1>2, <1>5, <1>9
<1> QED BY <1>8, <1>10, <1>11 DEF Truthful, result

LEMMA LocalStatus ==
  ASSUME Scheduled, phase = "submitted", Backend = "local"
  PROVE  Truthful(local_status(sched))
<1> DEFINE S == {FutureState(sched[k]) : k \in DOMAIN sched}
           result == local_status(sched)
<1>1. ASSUME NEW k \in DOMAIN sched
      PROVE  /\ FutureState(sched[k]) \in Statuses /\ FutureState(sched[k]) # "stopped"
             /\ FutureState(sched[k]) = "completed" => sched[k] = "COMPLETED"
             /\ FutureState(sched[k]) = "failed" => sched[k] = "FAILED"
  <2>1. sched[k] \in {"PENDING", "RUNNING", "COMPLETED", "FAILED"}
    BY DEF Scheduled, States, Done
  <2> QED BY <2>1 DEF FutureState, Statuses
<1>2. S \subseteq Statuses /\ result = aggregate(S)
  BY <1>1 DEF local_status
<1>3. Sums(result, S)
  BY <1>2, AggregateOf
<1> HIDE DEF result
<1> QED BY <1>1, <1>3 DEF Sums, Truthful, result, Done

LEMMA NextStatus == IInv /\ StatusIsTrue /\ [Next]_pipeline => StatusIsTrue'
<1> SUFFICES ASSUME IInv, StatusIsTrue, [Next]_pipeline, phase' = "submitted", LeftToClient'
             PROVE  Truthful(status)'
  BY DEF StatusIsTrue, Truthful
<1> USE DEF authored, submitted, tasks
<1>1. CASE phase # "submitted"
  <2>1. status = "none" /\ status' = status
    BY <1>1 DEF IInv, NotYet, Next, ChangeEnvironment, Package, Add, Submit, NextAttempt, RunTask,
                EndTask, Stop, Inspect, InspectLocal, ListJobs, pipeline
  <2> QED BY <2>1 DEF Truthful
<1>2. CASE phase = "submitted"
  <2>1. executor' = executor /\ script' = script
    BY <1>2 DEF Next, ChangeEnvironment, Package, Add, Submit, NextAttempt, RunTask,
                EndTask, Stop, Inspect, InspectLocal, ListJobs, pipeline
  <2>2. LeftToClient
    BY <2>1 DEF LeftToClient, ClientLines, Payload
  <2>3. Truthful(status)
    BY <1>2, <2>2 DEF StatusIsTrue, Truthful
  <2>4. CASE Inspect
    <3>1. PICK shown \in SUBSET DOMAIN sched, recycled \in {Nothing, Recycled} :
            \E row \in [shown -> UNION {Rows(k) : k \in shown}] :
              /\ \A k \in shown : row[k] \in Rows(k)
              /\ status' = get_status(record, SetToSeq({row[k] : k \in shown}) \o recycled)
      BY <2>4 DEF Inspect
    <3>2. PICK row \in [shown -> UNION {Rows(k) : k \in shown}] :
            /\ \A k \in shown : row[k] \in Rows(k)
            /\ status' = get_status(record, SetToSeq({row[k] : k \in shown}) \o recycled)
      BY <3>1
    <3>3. Truthful(get_status(record, SetToSeq({row[k] : k \in shown}) \o recycled))
      BY <1>2, <2>2, <2>4, <3>2, SlurmStatus DEF IInv, Inspect
    <3> QED BY <2>4, <3>2, <3>3 DEF Inspect, Truthful
  <2>5. CASE InspectLocal
    <3>1. Truthful(local_status(sched))
      BY <1>2, <2>5, LocalStatus DEF IInv, InspectLocal
    <3> QED BY <2>5, <3>1 DEF InspectLocal, Truthful
  <2>6. CASE NextAttempt
    <3>1. status = "none" /\ status' = status
      BY <1>2, <2>6 DEF NextAttempt, IInv, Scheduled
    <3> QED BY <3>1 DEF Truthful
  <2>7. CASE ~Inspect /\ ~InspectLocal /\ ~NextAttempt
    <3>1. /\ status' = status /\ DOMAIN sched' = DOMAIN sched
          /\ \A k \in DOMAIN sched : sched[k] \in Done => sched'[k] = sched[k]
      <4>1. CASE RunTask
        <5>1. PICK k \in DOMAIN sched : sched[k] = "PENDING" /\ sched' = [sched EXCEPT ![k] = "RUNNING"]
          BY <4>1 DEF RunTask
        <5> QED BY <4>1, <5>1 DEF RunTask, Done
      <4>2. CASE EndTask
        <5>1. PICK k \in DOMAIN sched : \E end : sched[k] \in {"PENDING", "RUNNING"} /\ sched' = [sched EXCEPT ![k] = end]
          BY <4>2 DEF EndTask
        <5> QED BY <4>2, <5>1 DEF EndTask, Done
      <4>3. CASE Stop \/ ListJobs \/ UNCHANGED pipeline
        BY <4>3 DEF Stop, ListJobs, pipeline
      <4> QED BY <1>2, <2>7, <4>1, <4>2, <4>3 DEF Next, ChangeEnvironment, Package, Add, Submit
    <3> QED BY <2>3, <3>1 DEF Truthful, Done
  <2> QED BY <2>4, <2>5, <2>6, <2>7
<1> QED BY <1>1, <1>2

\* get_status never says more than is so of a job's tasks, whatever rows the
\* accounting has yet to show, however old they are, and whoever had the id before.
THEOREM StatusTells == PipelineSpec => []StatusIsTrue
<1>1. Init => StatusIsTrue
  BY DEF Init, StatusIsTrue
<1>2. IInv /\ StatusIsTrue /\ [Next]_pipeline => StatusIsTrue'
  BY NextStatus
<1> QED BY <1>1, <1>2, PipelineInvariant, PTL DEF PipelineSpec

---------------------------------------------------------------------------
(* Grid Engine's ids *)

\* The ids up to one in a finite set, less one, and those up to a larger one.
LEMMA PositionOf ==
  ASSUME NEW S \in SUBSET Nat, IsFiniteSet(S), NEW a \in S, NEW b \in S, a < b
  PROVE  /\ Position(S, a) \in Nat /\ Position(S, b) \in Nat
         /\ Position(S, b) - Position(S, a) <= b - a
         /\ Position(S, b) - Position(S, a) = b - a => a..b - 1 \subseteq S
<1> DEFINE low == {other \in S : other < a}
           high == {other \in S : other < b}
           between == {other \in S : a <= other /\ other < b}
<1>0. a \in Nat /\ b \in Nat /\ \A other \in S : other \in Nat
  OBVIOUS
<1>1. IsFiniteSet(low) /\ IsFiniteSet(high) /\ IsFiniteSet(between)
  BY FS_Subset
<1>2. Cardinality(low) \in Nat /\ Cardinality(high) \in Nat /\ Cardinality(between) \in Nat
  BY <1>1, FS_CardinalityType
<1>3. high = low \cup between /\ low \cap between = {}
  <2>1. ASSUME NEW other \in S PROVE other < b <=> (other < a \/ (a <= other /\ other < b))
    BY <1>0
  <2>2. ASSUME NEW other \in S PROVE ~(other < a /\ a <= other)
    BY <1>0
  <2> QED BY <2>1, <2>2
<1>4. Cardinality(high) = Cardinality(low) + Cardinality(between)
  <2> HIDE DEF low, between, high
  <2>1. Cardinality(low \cup between) = Cardinality(low) + Cardinality(between) - Cardinality(low \cap between)
    BY <1>1, FS_Union
  <2>2. Cardinality(low \cap between) = 0
    BY <1>3, FS_EmptySet
  <2> QED BY <1>2, <1>3, <2>1, <2>2
<1>5. a \in Int /\ b - 1 \in Int /\ a <= b - 1
  OBVIOUS
<1>6. IsFiniteSet(a..b - 1) /\ Cardinality(a..b - 1) = b - a
  <2> DEFINE c == b - 1
  <2>1. c \in Int /\ a \in Int /\ ~(a > c) /\ c - a + 1 = b - a
    BY <1>0, <1>5
  <2> HIDE DEF c
  <2>2. IsFiniteSet(a..c) /\ Cardinality(a..c) = c - a + 1
    BY <2>1, FS_Interval
  <2> QED BY <2>1, <2>2 DEF c
<1>7. between \in SUBSET (a..b - 1)
  <2>1. ASSUME NEW other \in S, a <= other, other < b PROVE other \in a..b - 1
    BY <1>0, <2>1
  <2> QED BY <2>1
<1>8. Cardinality(between) <= b - a /\ (Cardinality(between) = b - a => between = a..b - 1)
  BY <1>6, <1>7, FS_Subset
<1> HIDE DEF between
<1>9. between \subseteq S
  BY DEF between
<1> QED BY <1>2, <1>4, <1>8, <1>9 DEF Position

\* The runs of a finite set of ids cover exactly the set.
LEMMA RunsCover ==
  ASSUME NEW n \in Nat, NEW S \in SUBSET (0..n)
  PROVE  UNION {range[1]..range[2] : range \in merge_taskids(S)} = S
<1> DEFINE g(id) == id - Position(S, id)
<1>0. S \in SUBSET Nat /\ IsFiniteSet(S)
  <2>1. 0 \in Int /\ n \in Int
    OBVIOUS
  <2>2. IsFiniteSet(0..n)
    BY <2>1, FS_Interval
  <2>3. IsFiniteSet(S)
    BY <2>2, FS_Subset
  <2> QED BY <2>3
<1>1. ASSUME NEW id \in S PROVE Position(S, id) \in Nat
  <2>1. IsFiniteSet({other \in S : other < id})
    BY <1>0, FS_Subset
  <2> QED BY <2>1, FS_CardinalityType DEF Position
<1>2. ASSUME NEW a \in S, NEW b \in S, a < b
      PROVE  g(a) <= g(b) /\ (g(a) = g(b) => a..b - 1 \subseteq S)
  <2>1. /\ Position(S, a) \in Nat /\ Position(S, b) \in Nat
        /\ Position(S, b) - Position(S, a) <= b - a
        /\ Position(S, b) - Position(S, a) = b - a => a..b - 1 \subseteq S
    BY <1>0, <1>2, PositionOf
  <2>2. a \in Nat /\ b \in Nat
    BY <1>0
  <2> HIDE DEF Position
  <2> QED BY <2>1, <2>2
<1>3. ASSUME NEW id \in S
      PROVE  Min(Run(S, id))..Max(Run(S, id)) \subseteq S /\ id \in Min(Run(S, id))..Max(Run(S, id))
  <2> DEFINE run == Run(S, id)
             least == Min(run)
             most == Max(run)
  <2>1. run = {other \in S : g(other) = g(id)}
    BY DEF Run
  <2>2. run \in SUBSET Nat /\ id \in run /\ run \subseteq S
    BY <1>0, <2>1
  <2>3. least \in run /\ \A k \in run : least <= k
    BY <2>2, MinOf
  <2> HIDE DEF run
  <2>4. \A k \in run : k <= n
    BY <2>2
  <2>5. \E m \in run : \A k \in run : k <= m
    BY <2>2, <2>4, LargestOf
  <2>6. most \in run /\ \A k \in run : k <= most
    BY <2>2, <2>5, MaxOf
  <2> HIDE DEF least, most
  <2>7. id \in least..most /\ least \in Nat /\ most \in Nat /\ least <= most
    <3>1. id \in Nat /\ least \in Nat /\ most \in Nat
      BY <2>2, <2>3, <2>6
    <3>2. least <= id /\ id <= most
      BY <2>2, <2>3, <2>6
    <3> QED BY <3>1, <3>2
  <2>8. CASE least = most
    <3>1. least \in Nat /\ \A k \in least..most : k = least
      BY <2>7, <2>8
    <3> QED BY <2>2, <2>3, <2>7, <3>1 DEF run, least, most
  <2>9. CASE least < most
    <3>1. g(least) = g(most)
      BY <2>1, <2>3, <2>6 DEF run
    <3>2. least..most - 1 \subseteq S
      BY <1>2, <2>2, <2>3, <2>6, <2>9, <3>1 DEF run
    <3>3. most \in S /\ \A k \in least..most : k = most \/ k \in least..most - 1
      BY <2>2, <2>6, <2>7
    <3> QED BY <2>7, <3>2, <3>3 DEF run, least, most
  <2>10. least < most \/ least = most
    BY <2>7
  <2> QED BY <2>8, <2>9, <2>10
<1> DEFINE range(id) == <<Min(Run(S, id)), Max(Run(S, id))>>
<1>4. merge_taskids(S) = {range(id) : id \in S}
  BY DEF merge_taskids
<1>5. \A id \in S : range(id)[1]..range(id)[2] \subseteq S /\ id \in range(id)[1]..range(id)[2]
  BY <1>3
<1> HIDE DEF range
<1> QED BY <1>4, <1>5

\* The text of a range gives the range.
LEMMA RangePart ==
  ASSUME NEW n \in Nat, NEW W \in SUBSET (0..n), W # {}, IsRange(W), NEW job
  PROVE  /\ split_job_ids(<<job, Part(W)[1], Part(W)[2], Part(W)[3]>>) = {<<job, t>> : t \in W}
         /\ Part(W)[1] \in W /\ Part(W)[2] \in W
<1> DEFINE first == Min(W)
           last == Max(W)
           step == Max(Steps(W))
<1>2. W \in SUBSET Nat
  OBVIOUS
<1>3. first \in W /\ first \in Nat
  BY <1>2, MinOf
<1>4. last \in W /\ last \in Nat
  <2>1. \A t \in W : t <= n
    OBVIOUS
  <2>2. PICK m \in W : \A t \in W : t <= m
    BY <1>2, <2>1, LargestOf
  <2> QED BY <1>2, <2>2, MaxOf
<1>5. step \in Steps(W)
  <2>1. Steps(W) \in SUBSET (1..last) /\ Steps(W) # {}
    BY DEF Steps, IsRange
  <2> HIDE DEF last
  <2> QED BY <1>4, <2>1, MaxIn
<1>6. W = {k \in first..last : (k - first) % step = 0}
  BY <1>5 DEF Steps, Stepped
<1>7. Part(W) = <<first, last, step>>
  BY DEF Part
<1> HIDE DEF first, last, step
<1>8. Part(W)[1] = first /\ Part(W)[2] = last /\ Part(W)[3] = step
  BY <1>7
<1> DEFINE mine == {k \in first..last : (k - first) % step = 0}
<1>9. split_job_ids(<<job, first, last, step>>) = {<<job, t>> : t \in mine}
  BY DEF split_job_ids
<1>10. W = mine
  BY <1>6
<1> HIDE DEF mine
<1>11. split_job_ids(<<job, Part(W)[1], Part(W)[2], Part(W)[3]>>) = {<<job, t>> : t \in W}
  <2>1. split_job_ids(<<job, Part(W)[1], Part(W)[2], Part(W)[3]>>) = split_job_ids(<<job, first, last, step>>)
    BY <1>8
  <2> QED BY <1>9, <1>10, <2>1
<1> QED BY <1>3, <1>4, <1>8, <1>11

\* The tasks of a row of qstat are the tasks its field stands for, and it can be read
\* if they are one range.
LEMMA TaskFieldsOf ==
  ASSUME NEW n \in Nat, NEW W \in SUBSET (0..n), W # {}, NEW field \in TaskFields(W), NEW state,
         NEW row, row = <<JobId, field, state>>
  PROVE  /\ task_ids(row) = {<<JobId, t>> : t \in W}
         /\ Unreadable(field) => ~IsRange(W)
<1> DEFINE job == JobId
           all(part) == split_job_ids(<<job, part[1], part[2], part[3]>>)
<1>1. row[1] = job /\ row[2] = field
  OBVIOUS
<1> HIDE DEF job
<1>2. CASE W = {0}
  <2>1. field = <<"none">>
    BY <1>2 DEF TaskFields
  <2>2. field[1] = "none"
    BY <2>1
  <2>3. task_ids(row) = {<<job, 0>>} /\ ~Unreadable(field)
    BY <1>1, <2>2 DEF task_ids, Unreadable
  <2> QED BY <1>2, <2>3 DEF job
<1>3. CASE W # {0} /\ IsRange(W) /\ ~\E a, b \in W : W = {a, b}
  <2>1. field = <<"tasks", {Part(W)}>>
    BY <1>3 DEF TaskFields
  <2>2. field[1] = "tasks" /\ field[2] = {Part(W)}
    BY <2>1
  <2>3. all(Part(W)) = {<<job, t>> : t \in W}
    BY <1>3, RangePart
  <2>4. task_ids(row) = UNION {all(part) : part \in {Part(W)}}
    BY <1>1, <2>2 DEF task_ids
  <2>5. ~Unreadable(field)
    BY <2>2 DEF Unreadable
  <2> QED BY <2>3, <2>4, <2>5 DEF job
<1>4. CASE W # {0} /\ ~(IsRange(W) /\ ~\E a, b \in W : W = {a, b})
  <2>1. PICK label \in [W -> W] :
          /\ \A k \in W : IsRange(Together(label, k))
          /\ field = <<"tasks", {Part(Together(label, k)) : k \in W}>>
    BY <1>4 DEF TaskFields
  <2> DEFINE of(k) == Together(label, k)
             parts == {Part(of(k)) : k \in W}
  <2>2. field[1] = "tasks" /\ field[2] = parts
    BY <2>1
  <2>3. ASSUME NEW k \in W
        PROVE  /\ of(k) \in SUBSET (0..n) /\ of(k) \subseteq W /\ k \in of(k) /\ IsRange(of(k))
               /\ \A other \in of(k) : of(other) = of(k)
    BY <2>1 DEF Together
  <2> HIDE DEF of
  <2>4. ASSUME NEW k \in W
        PROVE  /\ all(Part(of(k))) = {<<job, t>> : t \in of(k)}
               /\ Part(of(k))[1] \in of(k) /\ Part(of(k))[2] \in of(k)
    <3>1. of(k) \in SUBSET (0..n) /\ of(k) # {} /\ IsRange(of(k))
      BY <2>3
    <3> QED BY <3>1, RangePart
  <2>5. task_ids(row) = UNION {all(part) : part \in parts}
    BY <1>1, <2>2 DEF task_ids
  <2> HIDE DEF all
  <2>6. task_ids(row) = {<<job, t>> : t \in W}
    <3>1. ASSUME NEW id \in task_ids(row) PROVE \E t \in W : id = <<job, t>>
      <4>1. PICK k \in W : id \in all(Part(of(k)))
        BY <2>5
      <4> QED BY <2>3, <2>4, <4>1
    <3>2. ASSUME NEW t \in W PROVE <<job, t>> \in task_ids(row)
      <4>1. <<job, t>> \in all(Part(of(t))) /\ Part(of(t)) \in parts
        BY <2>3, <2>4
      <4> QED BY <2>5, <4>1
    <3> QED BY <3>1, <3>2
  <2>7. ASSUME Unreadable(field), IsRange(W) PROVE FALSE
    <3>1. PICK part \in parts, other \in parts : part # other /\ part[1] # part[2]
      BY <2>2, <2>7 DEF Unreadable
    <3>2. PICK k \in W, j \in W : part = Part(of(k)) /\ other = Part(of(j))
      BY <3>1
    <3>3. PICK a \in W, b \in W : W = {a, b}
      BY <1>4, <2>7
    <3>4. part[1] \in of(k) /\ part[2] \in of(k)
      BY <2>4, <3>2
    <3>5. of(k) = W
      BY <2>3, <3>1, <3>3, <3>4
    <3>6. of(j) = of(k)
      BY <2>3, <3>5
    <3> QED BY <3>1, <3>2, <3>6
  <2> QED BY <2>6, <2>7 DEF job
<1> QED BY <1>2, <1>3, <1>4

\* What qstat's rows are read as.
ReadRows(rows, answer) ==
  /\ DOMAIN answer = UNION {task_ids(rows[i]) : i \in DOMAIN rows}
  /\ answer = [id \in DOMAIN answer |-> answer[id]]
  /\ \A id \in DOMAIN answer : \E i \in DOMAIN rows : id \in task_ids(rows[i]) /\ answer[id] = rows[i][3]
LEMMA ParseOf ==
  ASSUME NEW S, NEW rows \in Seq(S), NEW answer, answer = parse_qstat(rows).infos,
         \A i \in DOMAIN rows : ~Unreadable(rows[i][2])
  PROVE  ReadRows(rows, answer)
<1> DEFINE ids == UNION {task_ids(rows[i]) : i \in DOMAIN rows}
           of(id) == CHOOSE i \in DOMAIN rows :
                       id \in task_ids(rows[i]) /\ \A j \in DOMAIN rows : id \in task_ids(rows[j]) => j <= i
<1>1. answer = [id \in ids |-> rows[of(id)][3]]
  BY DEF parse_qstat, of
<1>2. ASSUME NEW id \in ids PROVE of(id) \in DOMAIN rows /\ id \in task_ids(rows[of(id)])
  <2> DEFINE mine == {j \in DOMAIN rows : id \in task_ids(rows[j])}
  <2>1. Len(rows) \in Nat /\ mine \in SUBSET (1..Len(rows)) /\ mine # {}
    OBVIOUS
  <2>2. Max(mine) \in mine /\ \A j \in mine : j <= Max(mine)
    BY <2>1, MaxIn
  <2> QED BY <2>2
<1> HIDE DEF ids, of
<1>3. DOMAIN answer = ids /\ answer = [id \in DOMAIN answer |-> answer[id]]
  BY <1>1
<1>4. \A id \in ids : answer[id] = rows[of(id)][3]
  BY <1>1
<1> QED BY <1>2, <1>3, <1>4 DEF ReadRows, ids

LEMMA GridTasks ==
  ASSUME Fixed, Packaged, Added, Submitted, Scheduled, phase = "submitted", LeftToClient, Backend = "gridengine"
  PROVE  \E n \in Nat : /\ DOMAIN sched \in SUBSET (0..n)
                        /\ \A k \in DOMAIN sched : sched[k] \in {"PENDING", "RUNNING", "COMPLETED", "FAILED"}
<1>1. IF record.is_array
      THEN record.task_count \in Nat \ {0} /\ DOMAIN sched = 1..record.task_count
      ELSE record.task_count = 1 /\ DOMAIN sched = {0}
  BY TasksAre
<1>2. \A k \in DOMAIN sched : sched[k] \in {"PENDING", "RUNNING", "COMPLETED", "FAILED"}
  BY DEF Scheduled, States, Done
<1>3. record.task_count \in Nat /\ DOMAIN sched \in SUBSET (0..record.task_count)
  BY <1>1
<1> QED BY <1>2, <1>3

LEMMA GridListed ==
  ASSUME NEW n \in Nat, DOMAIN sched \in SUBSET (0..n),
         \A k \in DOMAIN sched : sched[k] \in {"PENDING", "RUNNING", "COMPLETED", "FAILED"},
         NEW rows \in Qstats
  PROVE  TellsTheTasks(parse_qstat(rows))
<1> DEFINE waiting == InState("PENDING")
           running == InState("RUNNING")
           one(k) == <<JobId, Alone(k), "r">>
           mine == {one(k) : k \in running}
           tail == SetToSeq(mine)
<1>1. waiting \in SUBSET (0..n) /\ running \in SUBSET (0..n)
  BY DEF InState
<1>2. IsFiniteSet(running)
  <2>1. 0 \in Int /\ n \in Int
    OBVIOUS
  <2>2. IsFiniteSet(0..n)
    BY <2>1, FS_Interval
  <2> QED BY <1>1, <2>2, FS_Subset
<1>3. IsFiniteSet(mine)
  <2> DEFINE f == [k \in running |-> one(k)]
  <2> HIDE DEF one, running
  <2>1. f \in [running -> mine] /\ \A m \in mine : \E k \in running : f[k] = m
    OBVIOUS
  <2>2. f \in Surjection(running, mine)
    BY <2>1 DEF Surjection
  <2> QED BY <1>2, <2>2, FS_Surjection
<1>4. tail \in Seq(mine) /\ ToSet(tail) = mine
  BY <1>3, SetToSeqOf
<1> DEFINE Rowed(field, head) ==
             /\ waiting # {} => field \in TaskFields(waiting)
             /\ head = (IF waiting = {} THEN <<>> ELSE << <<JobId, field, "qw">> >>)
             /\ rows = head \o tail
<1>20. \E field, head : Rowed(field, head)
  <2>1. CASE waiting = {}
    <3>1. rows = tail
      BY <2>1 DEF Qstats
    <3> HIDE DEF tail, mine
    <3>2. rows = <<>> \o tail
      BY <1>4, <3>1
    <3> QED BY <2>1, <3>2
  <2>2. CASE waiting # {}
    <3>1. PICK field \in TaskFields(waiting) : rows = << <<JobId, field, "qw">> >> \o tail
      BY <2>2 DEF Qstats
    <3> QED BY <2>2, <3>1
  <2> QED BY <2>1, <2>2
<1>21. PICK field, head : Rowed(field, head)
  BY <1>20
<1> DEFINE all == <<JobId, field, "qw">>
           E == (IF waiting = {} THEN {} ELSE {all}) \cup mine
           said == parse_qstat(rows)
           answer == said.infos
<1>22. /\ waiting # {} => field \in TaskFields(waiting)
       /\ head = IF waiting = {} THEN <<>> ELSE <<all>>
       /\ rows = head \o tail
  BY <1>21
<1> HIDE DEF Rowed, waiting, running
<1>5. head \in Seq(E) /\ ToSet(head) = IF waiting = {} THEN {} ELSE {all}
  <2> HIDE DEF all, mine
  <2>1. CASE waiting = {}
    BY <1>22, <2>1 DEF ToSet
  <2>2. CASE waiting # {}
    <3>1. head = <<all>> /\ all \in E
      BY <1>22, <2>2
    <3> HIDE DEF E
    <3>2. head \in Seq(E) /\ DOMAIN head = {1} /\ head[1] = all
      BY <3>1
    <3>3. ToSet(head) = {all}
      BY <3>2 DEF ToSet
    <3> QED BY <2>2, <3>2, <3>3
  <2> QED BY <2>1, <2>2
<1> HIDE DEF tail
<1>6. rows \in Seq(E) /\ ToSet(rows) = E
  <2>1. tail \in Seq(E)
    <3>1. mine \subseteq E
      OBVIOUS
    <3> HIDE DEF mine, E
    <3> QED BY <1>4, <3>1
  <2> HIDE DEF E
  <2>2. rows \in Seq(E) /\ Len(rows) = Len(head) + Len(tail)
    BY <1>5, <1>22, <2>1
  <2>3. \A i \in 1..Len(rows) : rows[i] = IF i <= Len(head) THEN head[i] ELSE tail[i - Len(head)]
    BY <1>5, <1>22, <2>1
  <2>4. \A i \in DOMAIN head : i \in 1..Len(rows) /\ rows[i] = head[i]
    BY <1>5, <2>1, <2>2, <2>3
  <2>5. \A i \in DOMAIN tail : Len(head) + i \in 1..Len(rows) /\ rows[Len(head) + i] = tail[i]
    BY <1>5, <2>1, <2>2, <2>3
  <2>6. ToSet(head) \cup ToSet(tail) \subseteq ToSet(rows)
    <3>1. DOMAIN rows = 1..Len(rows)
      BY <2>2
    <3>2. ToSet(head) \subseteq ToSet(rows)
      BY <2>4, <3>1 DEF ToSet
    <3>3. ToSet(tail) \subseteq ToSet(rows)
      BY <2>5, <3>1 DEF ToSet
    <3> QED BY <3>2, <3>3
  <2>7. ToSet(rows) \subseteq E
    BY <2>2 DEF ToSet
  <2> QED BY <1>4, <1>5, <2>2, <2>6, <2>7 DEF E
<1> HIDE DEF one, all
<1>7. ASSUME NEW k \in running
      PROVE  task_ids(one(k)) = {<<JobId, k>>} /\ one(k)[3] = "r" /\ ~Unreadable(one(k)[2])
  <2> DEFINE number == <<k, k, 1>>
  <2>1. one(k)[1] = JobId /\ one(k)[2] = Alone(k) /\ one(k)[3] = "r" /\ k \in Nat
    BY <1>1 DEF one
  <2>2. CASE k = 0
    <3>1. Alone(k)[1] = "none"
      BY <2>2 DEF Alone
    <3> QED BY <2>1, <2>2, <3>1 DEF task_ids, Unreadable
  <2>3. CASE k # 0
    <3>1. Alone(k)[1] = "tasks" /\ Alone(k)[2] = {number}
      BY <2>3 DEF Alone
    <3>2. split_job_ids(<<JobId, number[1], number[2], number[3]>>) = {<<JobId, k>>}
      <4>1. {t \in k..k : (t - k) % 1 = 0} = {k}
        BY <2>1
      <4>2. split_job_ids(<<JobId, k, k, 1>>) = {<<JobId, t>> : t \in {t \in k..k : (t - k) % 1 = 0}}
        BY DEF split_job_ids
      <4> QED BY <4>1, <4>2
    <3> HIDE DEF number
    <3>3. task_ids(one(k)) = {<<JobId, k>>}
      BY <2>1, <3>1, <3>2 DEF task_ids
    <3> QED BY <2>1, <3>1, <3>3 DEF Unreadable
  <2> QED BY <2>2, <2>3
<1>8. ASSUME waiting # {}
      PROVE  /\ task_ids(all) = {<<JobId, t>> : t \in waiting} /\ all[3] = "qw" /\ all[2] = field
             /\ Unreadable(field) => ~IsRange(waiting)
  BY <1>1, <1>8, <1>22, TaskFieldsOf DEF all
<1>10. \A row \in E : (\E i \in DOMAIN rows : rows[i] = row)
  BY <1>6 DEF ToSet
<1>11. \A i \in DOMAIN rows : rows[i] \in E
  BY <1>6 DEF ToSet
<1>12. \A row \in E : \/ waiting # {} /\ row = all
                      \/ \E k \in running : row = one(k)
  OBVIOUS
<1>23. CASE \E i \in DOMAIN rows : Unreadable(rows[i][2])
  <2>1. said.raised
    BY <1>23 DEF parse_qstat
  <2>2. PICK i \in DOMAIN rows : Unreadable(rows[i][2])
    BY <1>23
  <2>3. waiting # {} /\ rows[i] = all
    BY <1>7, <1>11, <1>12, <2>2
  <2>4. waiting # {} /\ ~IsRange(waiting)
    BY <1>8, <2>2, <2>3
  <2> HIDE DEF said
  <2> QED BY <2>1, <2>4 DEF TellsTheTasks, said, waiting
<1>24. CASE \A i \in DOMAIN rows : ~Unreadable(rows[i][2])
  <2>9. ReadRows(rows, answer)
    BY <1>6, <1>24, ParseOf DEF said, answer
  <2>13. ASSUME NEW id \in DOMAIN answer
         PROVE  \E k \in waiting \cup running :
                  id = <<JobId, k>> /\ answer[id] = IF k \in running THEN "r" ELSE "qw"
    <3>1. PICK i \in DOMAIN rows : id \in task_ids(rows[i]) /\ answer[id] = rows[i][3]
      BY <2>9 DEF ReadRows
    <3>2. CASE waiting # {} /\ rows[i] = all
      <4>1. PICK t \in waiting : id = <<JobId, t>>
        BY <1>8, <3>1, <3>2
      <4>2. t \notin running
        BY DEF waiting, running, InState
      <4> QED BY <1>8, <3>1, <3>2, <4>1, <4>2
    <3>3. ASSUME NEW k \in running, rows[i] = one(k) PROVE id = <<JobId, k>> /\ answer[id] = "r"
      BY <1>7, <3>1, <3>3
    <3> QED BY <1>11, <1>12, <3>2, <3>3
  <2>14. ASSUME NEW k \in waiting \cup running PROVE <<JobId, k>> \in DOMAIN answer
    <3>1. CASE k \in waiting
      <4>1. PICK i \in DOMAIN rows : rows[i] = all
        BY <1>10, <3>1
      <4>2. <<JobId, k>> \in task_ids(rows[i])
        BY <1>8, <3>1, <4>1
      <4> QED BY <2>9, <4>2 DEF ReadRows
    <3>2. CASE k \in running
      <4>1. PICK i \in DOMAIN rows : rows[i] = one(k)
        BY <1>10, <3>2
      <4>2. <<JobId, k>> \in task_ids(rows[i])
        BY <1>7, <3>2, <4>1
      <4> QED BY <2>9, <4>2 DEF ReadRows
    <3> QED BY <3>1, <3>2
  <2>15. \A k : k \in waiting \cup running <=> k \in DOMAIN sched /\ sched[k] \notin Done
    BY DEF waiting, running, InState, Done
  <2>16. Unfinished = DOMAIN answer
    <3>1. ASSUME NEW id \in Unfinished PROVE id \in DOMAIN answer
      <4>1. PICK k \in DOMAIN sched : id = <<JobId, k>> /\ sched[k] \notin Done
        BY <3>1 DEF Unfinished, GridIds
      <4> QED BY <2>14, <2>15, <4>1
    <3>2. ASSUME NEW id \in DOMAIN answer PROVE id \in Unfinished
      <4>1. PICK k \in waiting \cup running : id = <<JobId, k>>
        BY <2>13
      <4>2. id[2] = k
        BY <4>1
      <4> QED BY <2>15, <4>1, <4>2 DEF Unfinished, GridIds
    <3> QED BY <3>1, <3>2
  <2>17. \A id \in DOMAIN answer : answer[id] = IF sched[id[2]] = "RUNNING" THEN "r" ELSE "qw"
    <3> SUFFICES ASSUME NEW id \in DOMAIN answer
                 PROVE  answer[id] = IF sched[id[2]] = "RUNNING" THEN "r" ELSE "qw"
      OBVIOUS
    <3>1. PICK k \in waiting \cup running : id = <<JobId, k>> /\ answer[id] = IF k \in running THEN "r" ELSE "qw"
      BY <2>13
    <3>2. id[2] = k
      BY <3>1
    <3>3. k \in running <=> sched[k] = "RUNNING"
      BY DEF waiting, running, InState
    <3> QED BY <3>1, <3>2, <3>3
  <2>18. answer = [id \in DOMAIN answer |-> answer[id]]
    BY <2>9 DEF ReadRows
  <2>19. answer = [id \in DOMAIN answer |-> IF sched[id[2]] = "RUNNING" THEN "r" ELSE "qw"]
    BY <2>17, <2>18
  <2>20. ~said.raised
    BY <1>24 DEF parse_qstat
  <2> HIDE DEF said
  <2> QED BY <2>16, <2>19, <2>20 DEF TellsTheTasks, answer, said
<1> QED BY <1>23, <1>24

\* Whatever form qstat gives its rows, what can be read of them tells exactly which
\* of a Grid Engine job's tasks wait and which run, and a single range can be read;
\* the ids that qsub answers are the tasks' own, and the ranges of the failed tasks
\* are exactly the failed tasks.
LEMMA GridAnswers ==
  ASSUME IInv, phase = "submitted", Backend = "gridengine", LeftToClient
  PROVE  /\ GridIds = split_job_ids(IF record.is_array THEN <<JobId, 1, record.task_count, 1>> ELSE <<JobId>>)
         /\ UNION {range[1]..range[2] : range \in merge_taskids(Failed)} = Failed
         /\ \A rows \in Qstats : TellsTheTasks(parse_qstat(rows))
<1>1. PICK n \in Nat : /\ DOMAIN sched \in SUBSET (0..n)
                       /\ \A k \in DOMAIN sched : sched[k] \in {"PENDING", "RUNNING", "COMPLETED", "FAILED"}
  BY GridTasks DEF IInv
<1>2. \A rows \in Qstats : TellsTheTasks(parse_qstat(rows))
  BY <1>1, GridListed
<1>3. UNION {range[1]..range[2] : range \in merge_taskids(Failed)} = Failed
  <2>1. Failed \in SUBSET (0..n)
    BY <1>1 DEF Failed, InState
  <2> QED BY <2>1, RunsCover
<1>4. IF record.is_array
      THEN record.task_count \in Nat \ {0} /\ DOMAIN sched = 1..record.task_count
      ELSE record.task_count = 1 /\ DOMAIN sched = {0}
  BY TasksAre DEF IInv
<1>5. GridIds = split_job_ids(IF record.is_array THEN <<JobId, 1, record.task_count, 1>> ELSE <<JobId>>)
  <2>1. CASE record.is_array
    <3>1. split_job_ids(<<JobId, 1, record.task_count, 1>>)
            = {<<JobId, t>> : t \in {k \in 1..record.task_count : (k - 1) % 1 = 0}}
      BY DEF split_job_ids
    <3>2. \A k \in 1..record.task_count : (k - 1) % 1 = 0
      OBVIOUS
    <3> QED BY <1>4, <2>1, <3>1, <3>2 DEF GridIds
  <2>2. CASE ~record.is_array
    <3>1. split_job_ids(<<JobId>>) = {<<JobId, 0>>}
      BY DEF split_job_ids
    <3> QED BY <1>4, <2>2, <3>1 DEF GridIds
  <2> QED BY <2>1, <2>2
<1> QED BY <1>2, <1>3, <1>5

\* A listing of a Grid Engine job that can be read tells exactly which of its tasks
\* wait and which run when it is asked, by ids that are the tasks' own, whichever
\* list of numbers and ranges qstat shows; one that cannot be read (parse_qstat
\* raises) is of waiting tasks that are not one range. A rerun of the failed tasks
\* names exactly them.
THEOREM GridAnswersTell == PipelineSpec => GridAnswersAreTrue
<1>1. IInv /\ [Next]_pipeline =>
        [(phase = "submitted" /\ Backend = "gridengine" /\ LeftToClient) =>
           /\ GridIds = split_job_ids(IF record.is_array THEN <<JobId, 1, record.task_count, 1>> ELSE <<JobId>>)
           /\ UNION {range[1]..range[2] : range \in merge_taskids(Failed)} = Failed
           /\ ListJobs => TellsTheTasks(listed')]_pipeline
  BY GridAnswers DEF ListJobs
<1> QED BY <1>1, PipelineInvariant, PTL DEF PipelineSpec, GridAnswersAreTrue

---------------------------------------------------------------------------
(* The arguments of the job that is launched *)

\* What the three layers mention for a task: the packageable's arguments, the
\* job's own and those of `add`.
First == Given(req.package_args)
Second(i) == Given(IF req.shape = "array" THEN TaskOwn(req.args_list, i) ELSE req.args)
Third == Given(req.override_args)
Layered(N, V, i) ==
  /\ First \in Seq(MentionOf(N, V)) /\ Second(i) \in Seq(MentionOf(N, V)) /\ Third \in Seq(MentionOf(N, V))
OwnArgs(job, i) == IF job.kind = "array" THEN job.args[i] ELSE job.args

NamesIn(u) == {u[i][2] : i \in DOMAIN u}
ValuesIn(u) == {u[i][2] : i \in DOMAIN u} \cup {u[i][3] : i \in DOMAIN u}
LEMMA GivenType ==
  ASSUME NEW c, IsCollection(c), NEW N, NEW V, NamesIn(Given(c)) \subseteq N,
         \A v \in ValuesIn(Given(c)) : IsValue(v) => v \in V
  PROVE  Given(c) \in Seq(MentionOf(N, V))
<1> DEFINE u == Given(c)
<1>1. CASE c[1] = "none"
  <2>1. u = <<>>
    BY <1>1 DEF Given
  <2> QED BY <2>1
<1>2. CASE c[1] # "none"
  <2> DEFINE n == Len(c[2])
  <2>1. c[1] \in {"seq", "map"} /\ n \in Nat /\ DOMAIN c[2] = 1..n
    BY <1>2 DEF IsCollection
  <2>2. /\ DOMAIN u = 1..n /\ u = [i \in 1..n |-> u[i]]
        /\ \A i \in 1..n : \/ u[i] = <<"pos", c[2][i]>> /\ IsValue(c[2][i])
                           \/ u[i] = <<"kw", c[2][i][1], c[2][i][2]>> /\ IsValue(c[2][i][2])
    <3>1. ASSUME NEW i \in 1..n PROVE IsValue(IF c[1] = "map" THEN c[2][i][2] ELSE c[2][i])
      BY <1>2, <2>1 DEF IsCollection, IsArgument, IsValue
    <3> QED BY <2>1, <3>1 DEF Given
  <2> HIDE DEF u
  <2>3. ASSUME NEW i \in 1..n PROVE u[i] \in MentionOf(N, V)
    <3>1. u[i][2] \in N /\ (IsValue(u[i][2]) => u[i][2] \in V) /\ (IsValue(u[i][3]) => u[i][3] \in V)
      BY <2>2 DEF NamesIn, ValuesIn, u
    <3>2. CASE u[i] = <<"pos", c[2][i]>> /\ IsValue(c[2][i])
      BY <3>1, <3>2 DEF MentionOf
    <3>3. CASE u[i] = <<"kw", c[2][i][1], c[2][i][2]>> /\ IsValue(c[2][i][2])
      BY <3>1, <3>3 DEF MentionOf
    <3> QED BY <2>2, <3>2, <3>3
  <2>4. u \in [1..n -> MentionOf(N, V)]
    BY <2>2, <2>3
  <2>5. u \in Seq(MentionOf(N, V))
    BY <2>1, <2>4
  <2> QED BY <2>5 DEF u
<1> QED BY <1>1, <1>2

LEMMA Counts ==
  ASSUME Fixed, Added, phase = "submitted", NEW i \in 1..Tasks(Chosen)
  PROVE  req.shape = "array" => i \in 1..Width /\ IsCollection(TaskOwn(req.args_list, i))
<1> SUFFICES ASSUME req.shape = "array" PROVE i \in 1..Width /\ IsCollection(TaskOwn(req.args_list, i))
  OBVIOUS
<1>1. i \in 1..Width
  BY Counted
<1>2. /\ Len(req.args_list) \in {1, Width} /\ Len(req.args_list) \in 1..MaxTasks
      /\ \A j \in 1..Len(req.args_list) : IsCollection(req.args_list[j])
  BY Requested DEF IsRequest, Added, Spread
<1>3. CASE Len(req.args_list) = 1
  <2>1. 1 \in 1..Len(req.args_list)
    BY <1>3
  <2> QED BY <1>1, <1>2, <1>3, <2>1 DEF TaskOwn
<1>4. CASE Len(req.args_list) # 1
  BY <1>1, <1>2, <1>4 DEF TaskOwn
<1> QED BY <1>3, <1>4

LEMMA LayersOf ==
  ASSUME Fixed, Added, phase = "submitted", NEW i \in 1..Tasks(Chosen)
  PROVE  \E N, V : Layered(N, V, i) /\ \A v \in V : IsValue(v)
<1> DEFINE N == NamesIn(First) \cup NamesIn(Second(i)) \cup NamesIn(Third)
           V == {v \in ValuesIn(First) \cup ValuesIn(Second(i)) \cup ValuesIn(Third) : IsValue(v)}
           second == IF req.shape = "array" THEN TaskOwn(req.args_list, i) ELSE req.args
<1>1. IsCollection(req.package_args)
  BY Requested DEF IsRequest
<1>2. IsCollection(second)
  BY Counts, Requested DEF IsRequest
<1>3. IsCollection(req.override_args)
  <2>1. CASE req.shape = "array"
    <3>1. req.override_args[1] = "none"
      BY <2>1 DEF Added
    <3> QED BY <3>1 DEF IsCollection
  <2>2. CASE req.shape # "array"
    BY <2>2, Requested DEF IsRequest, Added
  <2> QED BY <2>1, <2>2
<1>4. First = Given(req.package_args) /\ Second(i) = Given(second) /\ Third = Given(req.override_args)
  BY DEF First, Second, Third
<1> HIDE DEF second
<1>5. First \in Seq(MentionOf(N, V))
  BY <1>1, <1>4, GivenType
<1>6. Second(i) \in Seq(MentionOf(N, V))
  BY <1>2, <1>4, GivenType
<1>7. Third \in Seq(MentionOf(N, V))
  BY <1>3, <1>4, GivenType
<1>8. \A v \in V : IsValue(v)
  OBVIOUS
<1> HIDE DEF N, V
<1>9. Layered(N, V, i)
  BY <1>5, <1>6, <1>7 DEF Layered
<1> QED BY <1>8, <1>9

\* Merged, what was taken is taken again.
LEMMA CanonAgain ==
  ASSUME NEW N, NEW V, NEW u \in Seq(MentionOf(N, V))
  PROVE  /\ Canon(u) \in ArgsOf(N, V) /\ Mentioned(Canon(u)) \in Seq(MentionOf(N, V))
         /\ \A x \in ArgsOf(N, V) : Taken(x, Mentioned(Canon(u))) = Taken(x, u)
<1> DEFINE z == Canon(u)
<1>1. z \in ArgsOf(N, V)
  BY EmptyType, TakenType DEF Canon
<1> HIDE DEF z
<1>2. Mentioned(z) \in Seq(MentionOf(N, V))
  BY <1>1, MentionedType
<1>3. ASSUME NEW x \in ArgsOf(N, V) PROVE Taken(x, Mentioned(z)) = Taken(x, u)
  <2>1. merge_from(x, z) = Taken(x, Mentioned(z))
    BY DEF merge_from, Taken
  <2>2. merge_from(x, Canon(u)) = Taken(x, u)
    BY MergeCanon
  <2> QED BY <2>1, <2>2 DEF z
<1> QED BY <1>1, <1>2, <1>3 DEF z

LEMMA JobArgsAre ==
  ASSUME Fixed, Packaged, Added, phase = "submitted", NEW i \in 1..Tasks(Chosen), NEW N, NEW V, Layered(N, V, i)
  PROVE  /\ Chosen.executable.args = Canon(First) /\ Canon(First) \in ArgsOf(N, V)
         /\ OwnArgs(Chosen, i) = Canon(Second(i) \o Third) /\ OwnArgs(Chosen, i) \in ArgsOf(N, V)
         /\ Second(i) \o Third \in Seq(MentionOf(N, V))
<1>1. /\ First \in Seq(MentionOf(N, V)) /\ Second(i) \in Seq(MentionOf(N, V)) /\ Third \in Seq(MentionOf(N, V))
  BY DEF Layered
<1> DEFINE both == Second(i) \o Third
<1>2. both \in Seq(MentionOf(N, V))
  BY <1>1
<1>3. Chosen.executable.args = Canon(First)
  <2>1. Chosen.executable = executable
    BY DEF Added
  <2>2. executable.args = from_collection(req.package_args)
    BY DEF Packaged, Executable
  <2> QED BY <2>1, <2>2, CollectionOf DEF First
<1>4. OwnArgs(Chosen, i) = Canon(both)
  <2>1. CASE req.shape = "array"
    <3>1. /\ Chosen.kind = "array" /\ req.override_args = <<"none">>
          /\ Chosen.args = [j \in 1..Width |-> from_collection(TaskOwn(req.args_list, j))]
      BY <2>1 DEF Added
    <3>2. i \in 1..Width
      BY <2>1, Counts
    <3>3. OwnArgs(Chosen, i) = from_collection(TaskOwn(req.args_list, i))
      BY <3>1, <3>2 DEF OwnArgs
    <3>4. Third = <<>>
      <4>1. req.override_args[1] = "none"
        BY <3>1
      <4> QED BY <4>1 DEF Third, Given
    <3>5. both = Second(i)
      BY <1>1, <3>4
    <3>6. from_collection(TaskOwn(req.args_list, i)) = Canon(Second(i))
      BY <2>1, CollectionOf DEF Second
    <3> QED BY <3>3, <3>5, <3>6
  <2>2. CASE req.shape # "array"
    <3>1. Chosen.kind = "job" /\ Chosen.args = JobArgs
      BY <2>2 DEF Added
    <3>2. from_collection(req.args) = Canon(Second(i))
      BY <2>2, CollectionOf DEF Second
    <3>3. Taken(Canon(Second(i)), Third) = Canon(both)
      BY <1>1, TakenConcat DEF Canon
    <3>4. CASE req.override_args = <<"none">>
      <4>1. req.override_args[1] = "none"
        BY <3>4
      <4>2. Third = <<>>
        BY <4>1 DEF Third, Given
      <4>3. Taken(Canon(Second(i)), Third) = Canon(Second(i))
        BY <4>2, TakenNothing
      <4> QED BY <3>1, <3>2, <3>3, <3>4, <4>3 DEF JobArgs, OwnArgs
    <3>5. CASE req.override_args # <<"none">>
      <4> DEFINE z == Canon(Second(i))
                 c == <<"args", z>>
      <4>1. JobArgs = merge_args(<<c, req.override_args>>)
        BY <3>2, <3>5 DEF JobArgs
      <4>2. Given(c) = Mentioned(z)
        BY DEF Given
      <4>3. Mentioned(z) \in Seq(MentionOf(N, V)) /\ Taken(EmptyArgs, Mentioned(z)) = Taken(EmptyArgs, Second(i))
        BY <1>1, EmptyType, CanonAgain
      <4>4. merge_args(<<c, req.override_args>>) = Taken(Canon(Given(c)), Given(req.override_args))
        BY <1>1, <4>2, <4>3, MergeTwo DEF Third
      <4> QED BY <3>1, <3>3, <4>1, <4>2, <4>3, <4>4 DEF OwnArgs, Canon, Third
    <3> QED BY <3>4, <3>5
  <2> QED BY <2>1, <2>2
<1>5. Canon(First) \in ArgsOf(N, V) /\ Canon(both) \in ArgsOf(N, V)
  BY <1>1, <1>2, EmptyType, TakenType DEF Canon
<1> QED BY <1>2, <1>3, <1>4, <1>5

\* The catalog's snapshot of a submitted job gives the words and environments of
\* the job that was submitted.
LEMMA SnapshotOf == IInv => SnapshotRunsTheSame
<1> SUFFICES ASSUME IInv, phase = "submitted"
             PROVE  LET saved == _decode(record.job)
                    IN  /\ Tasks(saved) = Tasks(Payload)
                        /\ \A i \in 1..Tasks(Payload) : /\ TaskArgs(saved, i) = TaskArgs(Payload, i)
                                                        /\ TaskEnv(saved, i) = TaskEnv(Payload, i)
  BY DEF SnapshotRunsTheSame
<1> DEFINE saved == _decode(record.job)
<1>1. Payload = Chosen /\ record.job = _encode(Chosen)
  <2>1. Payload = Chosen
    BY Launched DEF IInv
  <2> QED BY <2>1 DEF IInv, Submitted, Row
<1>2. Chosen.executable = executable /\ {"args", "env_vars"} \subseteq DOMAIN executable
  BY DEF IInv, Added, Packaged, Executable
<1> DEFINE exe == [Chosen.executable EXCEPT !.args = encode_args(Chosen.executable.args)]
           exe2 == [exe EXCEPT !.args = merge_args(exe.args)]
           args == IF Chosen.kind = "array" THEN [i \in DOMAIN Chosen.args |-> encode_args(Chosen.args[i])]
                   ELSE encode_args(Chosen.args)
           args2 == IF Chosen.kind = "array" THEN [i \in DOMAIN args |-> merge_args(args[i])] ELSE merge_args(args)
<1>3. saved = [kind |-> Chosen.kind, name |-> Chosen.name, executor |-> Chosen.executor,
               env_vars |-> Chosen.env_vars, executable |-> exe2, args |-> args2]
  <2> DEFINE encoded == [kind |-> Chosen.kind, name |-> Chosen.name, executor |-> Chosen.executor,
                         env_vars |-> Chosen.env_vars, executable |-> exe, args |-> args]
  <2>1. record.job = encoded
    BY <1>1 DEF _encode, WithArgs
  <2> HIDE DEF exe, args
  <2>2. /\ encoded.kind = Chosen.kind /\ encoded.name = Chosen.name
        /\ encoded.executor = Chosen.executor /\ encoded.env_vars = Chosen.env_vars
        /\ encoded.executable = exe /\ encoded.args = args
    OBVIOUS
  <2> HIDE DEF encoded
  <2>3. saved = WithArgs(encoded, merge_args)
    BY <2>1 DEF _decode
  <2> QED BY <2>2, <2>3 DEF WithArgs
<1>4. exe2.args = merge_args(encode_args(Chosen.executable.args)) /\ exe2.env_vars = Chosen.executable.env_vars
  BY <1>2
<1> HIDE DEF exe2
<1>5. CASE Chosen.kind # "array"
  <2>1. Tasks(saved) = 1 /\ Tasks(Chosen) = 1
    BY <1>3, <1>5 DEF Tasks
  <2>2. args2 = merge_args(encode_args(Chosen.args))
    BY <1>5
  <2> HIDE DEF args2
  <2>3. ASSUME NEW i \in 1..1
        PROVE  TaskArgs(saved, i) = TaskArgs(Chosen, i) /\ TaskEnv(saved, i) = TaskEnv(Chosen, i)
    <3>1. PICK N, V : Layered(N, V, i)
      BY <2>1, LayersOf DEF IInv
    <3>2. /\ Chosen.executable.args \in ArgsOf(N, V) /\ Chosen.args \in ArgsOf(N, V)
      <4>1. /\ Chosen.executable.args = Canon(First) /\ Canon(First) \in ArgsOf(N, V)
            /\ OwnArgs(Chosen, i) \in ArgsOf(N, V)
        BY <2>1, <3>1, JobArgsAre DEF IInv
      <4> QED BY <1>5, <4>1 DEF OwnArgs
    <3>3. /\ TaskArgs(saved, i) = to_list(merge_args(<< <<"args", exe2.args>>, <<"args", args2>> >>))
          /\ TaskArgs(Chosen, i) = to_list(merge_args(<< <<"args", Chosen.executable.args>>, <<"args", Chosen.args>> >>))
      BY <1>3, <1>5 DEF TaskArgs
    <3>4. TaskEnv(saved, i) = TaskEnv(Chosen, i)
      BY <1>3, <1>4, <1>5 DEF TaskEnv
    <3> QED BY <1>4, <2>2, <3>2, <3>3, <3>4, SavedWords
  <2> QED BY <1>1, <2>1, <2>3
<1>6. CASE Chosen.kind = "array"
  <2> DEFINE n == Len(Chosen.args)
  <2>1. n \in Nat /\ DOMAIN Chosen.args = 1..n /\ Tasks(Chosen) = n
    <3>1. n = Width /\ Width \in 1..MaxTasks
      BY <1>6, Counted DEF IInv
    <3>2. Chosen.args = [j \in 1..Width |-> from_collection(TaskOwn(req.args_list, j))]
      BY <1>6 DEF IInv, Added
    <3> QED BY <1>6, <3>1, <3>2, TasksAssumption DEF Tasks
  <2>2. args2 = [i \in 1..n |-> merge_args(encode_args(Chosen.args[i]))]
    BY <1>6, <2>1
  <2>3. Len(args2) = n /\ \A i \in 1..n : args2[i] = merge_args(encode_args(Chosen.args[i]))
    BY <2>1, <2>2
  <2> HIDE DEF args2, n
  <2>4. Tasks(saved) = n
    BY <1>3, <1>6, <2>3 DEF Tasks
  <2>5. ASSUME NEW i \in 1..n
        PROVE  TaskArgs(saved, i) = TaskArgs(Chosen, i) /\ TaskEnv(saved, i) = TaskEnv(Chosen, i)
    <3>1. PICK N, V : Layered(N, V, i)
      BY <2>1, LayersOf DEF IInv
    <3>2. /\ Chosen.executable.args \in ArgsOf(N, V) /\ Chosen.args[i] \in ArgsOf(N, V)
      <4>1. /\ Chosen.executable.args = Canon(First) /\ Canon(First) \in ArgsOf(N, V)
            /\ OwnArgs(Chosen, i) \in ArgsOf(N, V)
        BY <2>1, <3>1, JobArgsAre DEF IInv
      <4> QED BY <1>6, <4>1 DEF OwnArgs
    <3>3. /\ TaskArgs(saved, i) = to_list(merge_args(<< <<"args", exe2.args>>, <<"args", args2[i]>> >>))
          /\ TaskArgs(Chosen, i) = to_list(merge_args(<< <<"args", Chosen.executable.args>>, <<"args", Chosen.args[i]>> >>))
      BY <1>3, <1>6 DEF TaskArgs
    <3>4. TaskEnv(saved, i) = TaskEnv(Chosen, i)
      BY <1>3, <1>4, <1>6 DEF TaskEnv
    <3> QED BY <1>4, <2>3, <3>2, <3>3, <3>4, SavedWords
  <2> QED BY <1>1, <2>1, <2>4, <2>5
<1> QED BY <1>5, <1>6

\* The job read back from the catalog asks for the very commands and environments
\* that were submitted.
THEOREM SnapshotIsFaithful == PipelineSpec => []SnapshotRunsTheSame
BY SnapshotOf, PipelineInvariant, PTL

---------------------------------------------------------------------------
(* Sourcing a parameter file *)

\* What a sequence of statements makes of a shell.
Ran(start, seq, host) == FoldLeft(LAMBDA state, s : Statement(state, s, host), start, seq)
\* Sourcing statements, as the folding of the community modules
\* defines it: by the subsets of the positions, the largest taken first.
SourceBySet(f, start, seq, n, host) ==
  f = [s \in SUBSET (1..n) |-> IF s = {} THEN start ELSE Statement(f[s \ {Max(s)}], seq[Max(s)], host)]

LEMMA SourceStep ==
  ASSUME NEW start, NEW seq, NEW n \in Nat, NEW f, NEW host, SourceBySet(f, start, seq, n, host)
  PROVE  \E g : SourceBySet(g, start, seq, n + 1, host)
<1> DEFINE g == [s \in SUBSET (1..n + 1) |->
                   IF n + 1 \in s THEN Statement(f[s \ {n + 1}], seq[n + 1], host) ELSE f[s]]
<1>1. ASSUME NEW s \in SUBSET (1..n + 1)
      PROVE  g[s] = IF s = {} THEN start ELSE Statement(g[s \ {Max(s)}], seq[Max(s)], host)
  <2>1. CASE n + 1 \in s
    <3>1. Max(s) = n + 1
      <4>1. s \in SUBSET Nat /\ \A k \in s : k <= n + 1
        OBVIOUS
      <4> QED BY <2>1, <4>1, MaxOf
    <3>2. s \ {n + 1} \in SUBSET (1..n + 1) /\ n + 1 \notin s \ {n + 1}
      OBVIOUS
    <3> QED BY <2>1, <3>1, <3>2
  <2>2. CASE n + 1 \notin s
    <3>1. s \in SUBSET (1..n)
      BY <2>2
    <3>2. CASE s = {}
      BY <2>2, <3>1, <3>2 DEF SourceBySet
    <3>3. CASE s # {}
      <4>1. Max(s) \in s
        BY <3>1, <3>3, MaxIn
      <4>2. f[s] = Statement(f[s \ {Max(s)}], seq[Max(s)], host)
        BY <3>1, <3>3 DEF SourceBySet
      <4>3. s \ {Max(s)} \in SUBSET (1..n + 1) /\ n + 1 \notin s \ {Max(s)}
        BY <2>2
      <4>4. g[s \ {Max(s)}] = f[s \ {Max(s)}] /\ g[s] = f[s]
        BY <2>2, <4>3
      <4> QED BY <3>3, <4>2, <4>4
    <3> QED BY <3>2, <3>3
  <2> QED BY <2>1, <2>2
<1> HIDE DEF g
<1>2. DOMAIN g = SUBSET (1..n + 1) /\ g = [s \in DOMAIN g |-> g[s]]
  BY DEF g
<1>3. SourceBySet(g, start, seq, n + 1, host)
  BY <1>1, <1>2 DEF SourceBySet
<1> QED BY <1>3

LEMMA SourceExists ==
  ASSUME NEW start, NEW seq, NEW host PROVE \A n \in Nat : \E f : SourceBySet(f, start, seq, n, host)
<1> DEFINE Bad == {n \in Nat : ~ \E f : SourceBySet(f, start, seq, n, host)}
<1> SUFFICES ASSUME Bad # {} PROVE FALSE
  OBVIOUS
<1>1. PICK n \in Bad : \A k \in Bad : n <= k
  BY SmallestOf
<1>2. CASE n = 0
  <2> DEFINE f == [s \in SUBSET (1..0) |-> start]
  <2>1. \A s \in SUBSET (1..0) : s = {}
    OBVIOUS
  <2>2. SourceBySet(f, start, seq, 0, host)
    BY <2>1 DEF SourceBySet
  <2> QED BY <1>2, <2>2
<1>3. CASE n # 0
  <2>1. n - 1 \in Nat /\ n - 1 \notin Bad
    BY <1>1, <1>3
  <2>2. PICK f : SourceBySet(f, start, seq, n - 1, host)
    BY <2>1
  <2>3. \E g : SourceBySet(g, start, seq, (n - 1) + 1, host)
    BY <2>1, <2>2, SourceStep
  <2> QED BY <1>1, <2>3
<1> QED BY <1>2, <1>3

\* The states that a shell goes through.
SourceRun(run, start, seq, host) ==
  /\ DOMAIN run = 0..Len(seq) /\ run[0] = start
  /\ \A i \in 1..Len(seq) : run[i] = Statement(run[i - 1], seq[i], host)
LEMMA SourceFold ==
  ASSUME NEW start, NEW S, NEW seq \in Seq(S), NEW host
  PROVE  \E run : /\ SourceRun(run, start, seq, host)
                  /\ Ran(start, seq, host) = run[Len(seq)]
<1> DEFINE n == Len(seq)
           f == CHOOSE f : SourceBySet(f, start, seq, n, host)
           run == [i \in 0..n |-> f[1..i]]
<1>1. n \in Nat /\ DOMAIN seq = 1..n
  OBVIOUS
<1>2. SourceBySet(f, start, seq, n, host)
  BY <1>1, SourceExists
<1>3. Ran(start, seq, host) = f[1..n]
  BY <1>1 DEF Ran, FoldLeft, MapThenFoldSet, SourceBySet
<1> HIDE DEF f
<1>4. run[0] = start
  <2>1. 1..0 = {} /\ {} \in SUBSET (1..n)
    OBVIOUS
  <2> QED BY <1>1, <1>2, <2>1 DEF SourceBySet
<1>5. ASSUME NEW i \in 1..n PROVE run[i] = Statement(run[i - 1], seq[i], host)
  <2>1. 1..i \in SUBSET (1..n) /\ 1..i # {}
    BY <1>1
  <2>2. Max(1..i) = i
    <3>1. 1..i \in SUBSET Nat /\ i \in 1..i /\ \A k \in 1..i : k <= i
      BY <1>1
    <3> QED BY <3>1, MaxOf
  <2>3. (1..i) \ {i} = 1..i - 1
    BY <1>1
  <2>4. f[1..i] = Statement(f[1..i - 1], seq[i], host)
    BY <1>2, <2>1, <2>2, <2>3 DEF SourceBySet
  <2> QED BY <1>1, <2>4
<1>6. DOMAIN run = 0..Len(seq) /\ run[n] = f[1..n]
  BY <1>1
<1> HIDE DEF run
<1>7. SourceRun(run, start, seq, host)
  BY <1>4, <1>5, <1>6 DEF SourceRun
<1> QED BY <1>3, <1>6, <1>7

\* One element more.
LEMMA SourceAppend ==
  ASSUME NEW start, NEW S, NEW seq \in Seq(S), NEW x \in S, NEW host
  PROVE  Ran(start, Append(seq, x), host) = Statement(Ran(start, seq, host), x, host)
<1> DEFINE more == Append(seq, x)
           n == Len(seq)
<1>1. /\ more \in Seq(S) /\ Len(more) = n + 1 /\ n \in Nat
      /\ more[n + 1] = x /\ \A i \in 1..n : more[i] = seq[i]
  OBVIOUS
<1>2. PICK short : SourceRun(short, start, seq, host) /\ Ran(start, seq, host) = short[n]
  BY SourceFold
<1> HIDE DEF more
<1>3. PICK long : SourceRun(long, start, more, host) /\ Ran(start, more, host) = long[n + 1]
  BY <1>1, SourceFold
<1> DEFINE Bad == {i \in 0..n : short[i] # long[i]}
<1>4. Bad = {}
  <2> SUFFICES ASSUME Bad # {} PROVE FALSE
    OBVIOUS
  <2>1. Bad \in SUBSET Nat
    OBVIOUS
  <2>2. PICK i \in Bad : \A k \in Bad : i <= k
    BY <2>1, SmallestOf
  <2>3. CASE i = 0
    BY <1>2, <1>3, <2>2, <2>3 DEF SourceRun
  <2>4. CASE i # 0
    <3>1. i \in 1..n /\ i \in 1..n + 1 /\ i - 1 \in 0..n /\ i - 1 \notin Bad
      BY <1>1, <2>2, <2>4
    <3>2. short[i - 1] = long[i - 1] /\ more[i] = seq[i]
      BY <1>1, <3>1
    <3>3. short[i] = Statement(short[i - 1], seq[i], host) /\ long[i] = Statement(long[i - 1], more[i], host)
      BY <1>1, <1>2, <1>3, <3>1 DEF SourceRun
    <3> QED BY <2>2, <3>2, <3>3
  <2> QED BY <2>3, <2>4
<1>5. short[n] = long[n]
  BY <1>1, <1>4
<1>6. long[n + 1] = Statement(long[n], x, host)
  <2>1. n + 1 \in 1..Len(more) /\ (n + 1) - 1 = n
    BY <1>1
  <2>2. long[n + 1] = Statement(long[(n + 1) - 1], more[n + 1], host)
    BY <1>3, <2>1 DEF SourceRun
  <2> QED BY <1>1, <2>1, <2>2
<1> QED BY <1>2, <1>3, <1>5, <1>6 DEF more

\* Nothing at all.
LEMMA SourceNothing == ASSUME NEW start, NEW host PROVE Ran(start, <<>>, host) = start
<1>1. <<>> \in Seq({}) /\ Len(<<>>) = 0
  OBVIOUS
<1>2. PICK run : SourceRun(run, start, <<>>, host) /\ Ran(start, <<>>, host) = run[Len(<<>>)]
  BY <1>1, SourceFold
<1> QED BY <1>1, <1>2 DEF SourceRun


IsSeq(seq) == \E S : seq \in Seq(S)
LEMMA OneAppended ==
  ASSUME NEW seq, IsSeq(seq), NEW x
  PROVE  IsSeq(seq \o <<x>>) /\ seq \o <<x>> = Append(seq, x) /\ seq \o <<>> = seq
<1>1. PICK S : seq \in Seq(S)
  BY DEF IsSeq
<1>2. seq \in Seq(S \cup {x}) /\ x \in S \cup {x}
  BY <1>1
<1>3. Append(seq, x) = seq \o <<x>> /\ Append(seq, x) \in Seq(S \cup {x})
  BY <1>2, AppendIsConcat, AppendProperties
<1>4. seq \o <<>> = seq
  BY <1>1, ConcatEmptySeq
<1> QED BY <1>3, <1>4 DEF IsSeq

LEMMA RanOne ==
  ASSUME NEW seq, IsSeq(seq), NEW x, NEW start, NEW host
  PROVE  Ran(start, seq \o <<x>>, host) = Statement(Ran(start, seq, host), x, host)
<1>1. PICK S : seq \in Seq(S)
  BY DEF IsSeq
<1>2. seq \in Seq(S \cup {x}) /\ x \in S \cup {x}
  BY <1>1
<1>3. Ran(start, Append(seq, x), host) = Statement(Ran(start, seq, host), x, host)
  BY <1>2, SourceAppend
<1> QED BY <1>3, OneAppended

\* What each statement does to a shell that has not failed.
After(exit, env, argv) == [env |-> env, argv |-> argv, exit |-> exit]
LEMMA Needing ==
  ASSUME NEW state, state.exit = 0, NEW name, name \in DOMAIN state.env, NEW host, NEW s, s = <<"need", name>>
  PROVE  Statement(state, s, host) = After(0, state.env, state.argv)
<1>1. s[1] = "need" /\ s[2] = name
  OBVIOUS
<1> QED BY <1>1 DEF Statement, After
LEMMA Exporting ==
  ASSUME NEW state, state.exit = 0, NEW name, NEW expr, NEW host, NEW s, s = <<"export", name, expr>>
  PROVE  Statement(state, s, host) = After(0, Entry(name, Evaluate(expr, state.env, host)) ++ state.env, state.argv)
<1>1. s[1] = "export" /\ s[2] = name /\ s[3] = expr
  OBVIOUS
<1> DEFINE new == Entry(name, Evaluate(expr, state.env, host)) ++ state.env
           new2 == Entry(s[2], Evaluate(s[3], state.env, host)) ++ state.env
<1>2. new2 = new
  BY <1>1
<1>3. Statement(state, s, host) = After(0, new2, state.argv)
  BY <1>1 DEF Statement, After
<1> QED BY <1>2, <1>3
LEMMA ChoosingEnv ==
  ASSUME NEW state, state.exit = 0, NEW name, NEW offset, NEW list, NEW host,
         NEW s, s = <<"env", name, offset, list>>, NEW i, Branches(state.env, name, offset, Len(list)) = {i}
  PROVE  Statement(state, s, host) = After(0, list[i] ++ state.env, state.argv)
<1>1. s[1] = "env" /\ s[2] = name /\ s[3] = offset /\ s[4] = list
  OBVIOUS
<1> DEFINE hit == Branches(state.env, s[2], s[3], Len(s[4]))
           mine == s[4][CHOOSE j \in hit : TRUE]
<1>2. hit = {i}
  BY <1>1
<1>3. mine = list[i]
  BY <1>1, <1>2
<1>4. hit # {}
  BY <1>2
<1>5. Statement(state, s, host) = After(0, mine ++ state.env, state.argv)
  <2> HIDE DEF hit
  <2>1. hit # {}
    BY <1>4
  <2> QED BY <1>1, <2>1 DEF Statement, After, hit
<1> QED BY <1>3, <1>5
LEMMA ChoosingArgs ==
  ASSUME NEW state, state.exit = 0, NEW name, NEW offset, NEW list, NEW host,
         NEW s, s = <<"args", name, offset, list>>, NEW i, Branches(state.env, name, offset, Len(list)) = {i}
  PROVE  Statement(state, s, host) = After(0, state.env, [j \in DOMAIN list[i] |-> ExpandWord(list[i][j], state.env)])
<1>1. s[1] = "args" /\ s[2] = name /\ s[3] = offset /\ s[4] = list
  OBVIOUS
<1> DEFINE hit == Branches(state.env, s[2], s[3], Len(s[4]))
           mine == s[4][CHOOSE j \in hit : TRUE]
<1>2. hit = {i}
  BY <1>1
<1>3. mine = list[i]
  BY <1>1, <1>2
<1>4. hit # {}
  BY <1>2
<1>5. Statement(state, s, host) = After(0, state.env, [j \in DOMAIN mine |-> ExpandWord(mine[j], state.env)])
  <2> HIDE DEF hit
  <2>1. hit # {}
    BY <1>4
  <2> QED BY <1>1, <2>1 DEF Statement, After, hit
<1> QED BY <1>3, <1>5

\* One state after another that has only exported more.
Adds(before, after, names) ==
  /\ after.exit = 0 /\ after.argv = before.argv
  /\ DOMAIN after.env = DOMAIN before.env \cup names
  /\ \A v \in DOMAIN before.env \ names : after.env[v] = before.env[v]
Exports(before, after, c, name, expr, host) ==
  /\ Adds(before, after, IF c THEN {name} ELSE {})
  /\ c => after.env[name] = Evaluate(expr, before.env, host)
ExportsIf(seq, p, c, name, expr, start, host) ==
  /\ IsSeq(p) /\ Ran(start, p, host).exit = 0
  /\ Exports(Ran(start, seq, host), Ran(start, p, host), c, name, expr, host)
LEMMA ExportIf ==
  ASSUME NEW seq, IsSeq(seq), NEW c \in BOOLEAN, NEW name, NEW expr, NEW start, NEW host,
         NEW p, p = seq \o (IF c THEN << <<"export", name, expr>> >> ELSE <<>>),
         Ran(start, seq, host).exit = 0
  PROVE  ExportsIf(seq, p, c, name, expr, start, host)
<1> USE DEF ExportsIf
<1> DEFINE before == Ran(start, seq, host)
           after == Ran(start, p, host)
           x == <<"export", name, expr>>
<1>1. CASE c
  <2>1. p = seq \o <<x>>
    BY <1>1
  <2>2. IsSeq(p) /\ after = Statement(before, x, host)
    <3> HIDE DEF x
    <3>1. IsSeq(seq \o <<x>>)
      BY OneAppended
    <3>2. Ran(start, seq \o <<x>>, host) = Statement(Ran(start, seq, host), x, host)
      BY RanOne
    <3> QED BY <2>1, <3>1, <3>2
  <2> DEFINE value == Evaluate(expr, before.env, host)
             env == Entry(name, value) ++ before.env
  <2>3. Statement(before, x, host) = After(0, env, before.argv)
    BY Exporting
  <2>4. /\ DOMAIN env = DOMAIN before.env \cup {name} /\ env[name] = value
        /\ \A v \in DOMAIN before.env \ {name} : env[v] = before.env[v]
    BY DEF ++, Entry
  <2> HIDE DEF env, value, before, after
  <2>5. after.exit = 0 /\ after.argv = before.argv /\ after.env = env
    BY <2>2, <2>3 DEF After
  <2> QED BY <1>1, <2>2, <2>4, <2>5 DEF Exports, Adds, before, after, value
<1>2. CASE ~c
  <2>1. p = seq
    BY <1>2, OneAppended
  <2> QED BY <1>2, <2>1 DEF Exports, Adds
<1> QED BY <1>1, <1>2

\* What follows the author's own settings.
Told(managed, continuation, inputs, outputs) ==
  {"EXEX_LINKS_FILE"} \cup (IF managed THEN {"EXEX_ATTEMPT_DIR"} ELSE {})
  \cup (IF continuation THEN {"EXEX_PAUSE_REQUEST", "EXEX_PAUSE_READY"} ELSE {})
  \cup (IF inputs \/ continuation THEN {"EXEX_INPUT_DIR"} ELSE {})
  \cup (IF outputs THEN {"EXEX_OUTPUT_DIR"} ELSE {})
LinkEnv(before, managed, host) ==
  IF managed THEN Entry("EXEX_ATTEMPT_DIR", host["EXEX_ATTEMPT_DIR"]) ++ before.env ELSE before.env
Installs(before, after, job, managed, continuation, dir, inputs, outputs, host) ==
  /\ Adds(before, after, Told(managed, continuation, inputs, outputs))
  /\ managed => after.env["EXEX_ATTEMPT_DIR"] = host["EXEX_ATTEMPT_DIR"]
  /\ outputs => after.env["EXEX_OUTPUT_DIR"] = "outputs"
  /\ \E env : /\ after.env["EXEX_LINKS_FILE"] = Evaluate(link_path(job, managed, dir), env, host)
              /\ managed => env["EXEX_ATTEMPT_DIR"] = host["EXEX_ATTEMPT_DIR"]
              /\ ~managed => env = before.env
LEMMA Installed ==
  ASSUME NEW job, NEW managed \in BOOLEAN, NEW continuation \in BOOLEAN, NEW dir, NEW inputs \in BOOLEAN,
         NEW outputs \in BOOLEAN, NEW start, NEW host, IsSeq(create_job_args_script(job)),
         Ran(start, create_job_args_script(job), host).exit = 0
  PROVE  Installs(Ran(start, create_job_args_script(job), host),
                  Ran(start, create_install_commands(job, managed, continuation, dir, inputs, outputs), host),
                  job, managed, continuation, dir, inputs, outputs, host)
<1> DEFINE e1 == <<"host", "EXEX_ATTEMPT_DIR">>
           e2 == link_path(job, managed, dir)
           e5 == <<"literal", "inputs">>
           e6 == <<"literal", "outputs">>
           p0 == create_job_args_script(job)
           p1 == p0 \o (IF managed THEN << <<"export", "EXEX_ATTEMPT_DIR", e1>> >> ELSE <<>>)
           p2 == p1 \o << <<"export", "EXEX_LINKS_FILE", e2>> >>
           p3 == p2 \o (IF continuation THEN << <<"export", "EXEX_PAUSE_REQUEST", e2>> >> ELSE <<>>)
           p4 == p3 \o (IF continuation THEN << <<"export", "EXEX_PAUSE_READY", e2>> >> ELSE <<>>)
           p5 == p4 \o (IF inputs \/ continuation THEN << <<"export", "EXEX_INPUT_DIR", e5>> >> ELSE <<>>)
           p6 == p5 \o (IF outputs THEN << <<"export", "EXEX_OUTPUT_DIR", e6>> >> ELSE <<>>)
           R(p) == Ran(start, p, host)
<1>1. IsSeq(p1) /\ R(p1).exit = 0 /\ Exports(R(p0), R(p1), managed, "EXEX_ATTEMPT_DIR", e1, host)
  <2>1. p1 = p0 \o (IF managed THEN << <<"export", "EXEX_ATTEMPT_DIR", e1>> >> ELSE <<>>)
    OBVIOUS
  <2> HIDE DEF p1, p0, e1
  <2>2. ExportsIf(p0, p1, managed, "EXEX_ATTEMPT_DIR", e1, start, host)
    <3>1. IsSeq(p0) /\ Ran(start, p0, host).exit = 0
      BY DEF p0
    <3> QED BY <2>1, <3>1, ExportIf
  <2> QED BY <2>2 DEF ExportsIf
<1> HIDE DEF p1
<1>2. IsSeq(p2) /\ R(p2).exit = 0 /\ Exports(R(p1), R(p2), TRUE, "EXEX_LINKS_FILE", e2, host)
  <2>1. p2 = p1 \o (IF TRUE THEN << <<"export", "EXEX_LINKS_FILE", e2>> >> ELSE <<>>)
    OBVIOUS
  <2> HIDE DEF p2, p1, e2
  <2>2. ExportsIf(p1, p2, TRUE, "EXEX_LINKS_FILE", e2, start, host)
    BY <2>1, <1>1, ExportIf
  <2> QED BY <2>2 DEF ExportsIf
<1> HIDE DEF p2
<1>3. IsSeq(p3) /\ R(p3).exit = 0 /\ Exports(R(p2), R(p3), continuation, "EXEX_PAUSE_REQUEST", e2, host)
  <2>1. p3 = p2 \o (IF continuation THEN << <<"export", "EXEX_PAUSE_REQUEST", e2>> >> ELSE <<>>)
    OBVIOUS
  <2> HIDE DEF p3, p2, e2
  <2>2. ExportsIf(p2, p3, continuation, "EXEX_PAUSE_REQUEST", e2, start, host)
    BY <2>1, <1>2, ExportIf
  <2> QED BY <2>2 DEF ExportsIf
<1> HIDE DEF p3
<1>4. IsSeq(p4) /\ R(p4).exit = 0 /\ Exports(R(p3), R(p4), continuation, "EXEX_PAUSE_READY", e2, host)
  <2>1. p4 = p3 \o (IF continuation THEN << <<"export", "EXEX_PAUSE_READY", e2>> >> ELSE <<>>)
    OBVIOUS
  <2> HIDE DEF p4, p3, e2
  <2>2. ExportsIf(p3, p4, continuation, "EXEX_PAUSE_READY", e2, start, host)
    BY <2>1, <1>3, ExportIf
  <2> QED BY <2>2 DEF ExportsIf
<1> HIDE DEF p4
<1>5. IsSeq(p5) /\ R(p5).exit = 0 /\ Exports(R(p4), R(p5), inputs \/ continuation, "EXEX_INPUT_DIR", e5, host)
  <2>1. p5 = p4 \o (IF inputs \/ continuation THEN << <<"export", "EXEX_INPUT_DIR", e5>> >> ELSE <<>>)
    OBVIOUS
  <2> HIDE DEF p5, p4, e5
  <2>2. ExportsIf(p4, p5, inputs \/ continuation, "EXEX_INPUT_DIR", e5, start, host)
    BY <2>1, <1>4, ExportIf
  <2> QED BY <2>2 DEF ExportsIf
<1> HIDE DEF p5
<1>6. IsSeq(p6) /\ R(p6).exit = 0 /\ Exports(R(p5), R(p6), outputs, "EXEX_OUTPUT_DIR", e6, host)
  <2>1. p6 = p5 \o (IF outputs THEN << <<"export", "EXEX_OUTPUT_DIR", e6>> >> ELSE <<>>)
    OBVIOUS
  <2> HIDE DEF p6, p5, e6
  <2>2. ExportsIf(p5, p6, outputs, "EXEX_OUTPUT_DIR", e6, start, host)
    BY <2>1, <1>5, ExportIf
  <2> QED BY <2>2 DEF ExportsIf
<1> HIDE DEF p6
<1>7. R(p6) = Ran(start, create_install_commands(job, managed, continuation, dir, inputs, outputs), host)
  <2>1. p4 = p2 \o (IF continuation THEN << <<"export", "EXEX_PAUSE_REQUEST", e2>>, <<"export", "EXEX_PAUSE_READY", e2>> >>
                    ELSE <<>>)
    <3> DEFINE a == <<"export", "EXEX_PAUSE_REQUEST", e2>>
               b == <<"export", "EXEX_PAUSE_READY", e2>>
    <3>1. CASE continuation
      <4>1. p4 = (p2 \o <<a>>) \o <<b>>
        BY <3>1 DEF p3, p4
      <4>2. PICK S : p2 \in Seq(S)
        BY <1>2 DEF IsSeq
      <4> HIDE DEF a, b
      <4> DEFINE T == S \cup {a, b}
      <4>3. p2 \in Seq(T) /\ <<a>> \in Seq(T) /\ <<b>> \in Seq(T)
        BY <4>2
      <4> HIDE DEF T
      <4>4. (p2 \o <<a>>) \o <<b>> = p2 \o (<<a>> \o <<b>>)
        BY <4>3, ConcatAssociative
      <4>5. <<a>> \o <<b>> = <<a, b>>
        <5>1. Append(<<a>>, b) = <<a>> \o <<b>>
          BY <4>3, AppendIsConcat DEF T
        <5>2. Append(<<a>>, b) = <<a, b>>
          <6>1. <<a>> \in Seq(T) /\ b \in T /\ <<a, b>> \in Seq(T)
            BY <4>3 DEF T
          <6>2. Len(Append(<<a>>, b)) = 2 /\ Append(<<a>>, b) \in Seq(T)
            BY <6>1
          <6>3. Append(<<a>>, b)[1] = a /\ Append(<<a>>, b)[2] = b
            BY <6>1
          <6> DEFINE two == <<a, b>>
          <6>4. two \in Seq(T) /\ Len(two) = 2 /\ two[1] = a /\ two[2] = b
            BY <6>1
          <6> HIDE DEF two
          <6> DEFINE made == Append(<<a>>, b)
          <6>5. made \in Seq(T) /\ Len(made) = 2 /\ made[1] = a /\ made[2] = b
            BY <6>2, <6>3
          <6> HIDE DEF made
          <6>6. \A i \in 1..2 : made[i] = two[i]
            BY <6>4, <6>5
          <6>7. made = two
            BY <6>4, <6>5, <6>6, SeqEqual
          <6> QED BY <6>7 DEF two, made
        <5> QED BY <5>1, <5>2
      <4> QED BY <3>1, <4>1, <4>4, <4>5 DEF a, b
    <3>2. CASE ~continuation
      <4>1. p4 = (p2 \o <<>>) \o <<>>
        BY <3>2 DEF p3, p4
      <4> QED BY <1>2, <3>2, <4>1, OneAppended
    <3> QED BY <3>1, <3>2
  <2> HIDE DEF p4
  <2> QED BY <2>1 DEF p6, p5, p2, p1, e1, e5, create_install_commands
<1> HIDE DEF R, p0
<1>8. Adds(R(p0), R(p6), Told(managed, continuation, inputs, outputs))
  BY <1>1, <1>2, <1>3, <1>4, <1>5, <1>6 DEF Exports, Adds, Told
<1>9. managed => R(p6).env["EXEX_ATTEMPT_DIR"] = host["EXEX_ATTEMPT_DIR"]
  <2> SUFFICES ASSUME managed PROVE R(p6).env["EXEX_ATTEMPT_DIR"] = host["EXEX_ATTEMPT_DIR"]
    OBVIOUS
  <2>1. R(p1).env["EXEX_ATTEMPT_DIR"] = host["EXEX_ATTEMPT_DIR"] /\ "EXEX_ATTEMPT_DIR" \in DOMAIN R(p1).env
    BY <1>1 DEF Exports, Adds, Evaluate, e1
  <2> QED BY <2>1, <1>2, <1>3, <1>4, <1>5, <1>6 DEF Exports, Adds
<1>10. outputs => R(p6).env["EXEX_OUTPUT_DIR"] = "outputs"
  BY <1>6 DEF Exports, Evaluate
<1>11. /\ R(p6).env["EXEX_LINKS_FILE"] = Evaluate(e2, R(p1).env, host)
       /\ managed => R(p1).env["EXEX_ATTEMPT_DIR"] = host["EXEX_ATTEMPT_DIR"]
       /\ ~managed => R(p1).env = R(p0).env
  <2> HIDE DEF e2
  <2>1. R(p2).env["EXEX_LINKS_FILE"] = Evaluate(e2, R(p1).env, host) /\ "EXEX_LINKS_FILE" \in DOMAIN R(p2).env
    BY <1>2 DEF Exports, Adds
  <2>2. R(p6).env["EXEX_LINKS_FILE"] = R(p2).env["EXEX_LINKS_FILE"]
    BY <2>1, <1>3, <1>4, <1>5, <1>6 DEF Exports, Adds
  <2>3. managed => R(p1).env["EXEX_ATTEMPT_DIR"] = host["EXEX_ATTEMPT_DIR"]
    BY <1>1 DEF Exports, Adds, Evaluate, e1
  <2>4. ~managed => R(p1).env = R(p0).env
    <3>1. ~managed => p1 = p0
      BY OneAppended DEF p1, p0
    <3> QED BY <3>1
  <2> QED BY <2>1, <2>2, <2>3, <2>4
<1> QED BY <1>7, <1>8, <1>9, <1>10, <1>11 DEF Installs, R, p0


\* The one branch that a task's index takes.
LEMMA OneBranch ==
  ASSUME NEW env, NEW name \in DOMAIN env, NEW offset \in {0, 1}, NEW n \in 0..MaxTasks + 1, NEW i \in 1..n,
         env[name] = Decimal(offset + i - 1)
  PROVE  Branches(env, name, offset, n) = {i}
<1>0. MaxTasks \in Nat
  BY TasksAssumption
<1>1. ASSUME NEW j \in 1..n, Decimal(offset + i - 1) = Decimal(offset + j - 1) PROVE j = i
  <2> DEFINE a == offset + i - 1
             b == offset + j - 1
  <2>1. a \in 0..MaxTasks + 1 /\ b \in 0..MaxTasks + 1
    BY <1>0
  <2>2. Decimal(a) = Decimal(b)
    BY <1>1
  <2> HIDE DEF a, b
  <2>3. a = b
    BY <2>1, <2>2, DecimalAssumption
  <2> QED BY <2>3 DEF a, b
<1>2. Branches(env, name, offset, n) = {j \in 1..n : Decimal(offset + i - 1) = Decimal(offset + j - 1)}
  BY DEF Branches
<1> QED BY <1>1, <1>2

\* A function over another that adds nothing.
LEMMA OverNothing ==
  ASSUME NEW f, DOMAIN f = {}, NEW g, g = [v \in DOMAIN g |-> g[v]] PROVE f ++ g = g
BY DEF ++
LEMMA IsOver ==
  ASSUME NEW f, NEW g, NEW h, h = f ++ g
  PROVE  /\ DOMAIN h = DOMAIN f \cup DOMAIN g /\ h = [v \in DOMAIN h |-> h[v]]
         /\ (\A v \in DOMAIN f : h[v] = f[v]) /\ \A v \in DOMAIN g \ DOMAIN f : h[v] = g[v]
BY DEF ++

\* The environment and the words that a task's shell has before what is exported
\* after the author's own settings.
Base(job, env) == IF job.kind = "array" THEN env ELSE Entry("EXEX_TASK_ID", Decimal(0)) ++ env
Starts(job, i, env, P) ==
  /\ P.exit = 0 /\ P.env = TaskEnv(job, i) ++ Base(job, env)
  /\ P.argv = [j \in DOMAIN TaskArgs(job, i) |-> ExpandWord(TaskArgs(job, i)[j], P.env)]
LEMMA JobArgsRun ==
  ASSUME NEW job, NEW start, NEW host, start.exit = 0, start.env = [v \in DOMAIN start.env |-> start.env[v]],
         Tasks(job) \in 1..MaxTasks + 1, NEW i \in 1..Tasks(job),
         IndexName(job) \notin DOMAIN TaskEnv(job, i),
         IF job.kind = "array" THEN IndexName(job) \in DOMAIN start.env /\ start.env[IndexName(job)] = Decimal(i)
         ELSE i = 1
  PROVE  /\ IsSeq(create_job_args_script(job))
         /\ Starts(job, i, start.env, Ran(start, create_job_args_script(job), host))
<1> DEFINE name == IndexName(job)
           offset == IndexOffset(job)
           n == Tasks(job)
           base == Base(job, start.env)
           s0 == IF job.kind = "array" THEN <<"need", name>>
                 ELSE <<"export", "EXEX_TASK_ID", <<"literal", Decimal(0)>> >>
           envs == [j \in 1..n |-> TaskEnv(job, j)]
           lists == [j \in 1..n |-> TaskArgs(job, j)]
           p0 == <<s0>>
           none == \A j \in DOMAIN envs : DOMAIN envs[j] = {}
           p1 == p0 \o (IF none THEN <<>> ELSE << <<"env", name, offset, envs>> >>)
           p2 == p1 \o << <<"args", name, offset, lists>> >>
           R(p) == Ran(start, p, host)
           own == TaskEnv(job, i)
<1>1. create_job_args_script(job) = p2
  BY DEF create_job_args_script, create_env_vars, create_args
<1>2. IsSeq(p0) /\ R(p0) = Statement(start, s0, host)
  <2> HIDE DEF s0
  <2> DEFINE e == <<>>
  <2>1. e \in Seq({}) /\ Append(e, s0) = <<s0>>
    OBVIOUS
  <2> HIDE DEF e
  <2>2. IsSeq(e) /\ Ran(start, e, host) = start
    BY <2>1, SourceNothing DEF IsSeq, e
  <2>3. e \o <<s0>> = Append(e, s0) /\ IsSeq(e \o <<s0>>)
    BY <2>2, OneAppended
  <2>4. Ran(start, e \o <<s0>>, host) = Statement(Ran(start, e, host), s0, host)
    BY <2>2, RanOne
  <2> QED BY <2>1, <2>2, <2>3, <2>4
<1>3. /\ R(p0).exit = 0 /\ R(p0).env = base /\ base = [v \in DOMAIN base |-> base[v]]
      /\ name \in DOMAIN base /\ base[name] = Decimal(offset + i - 1) /\ offset \in {0, 1}
  <2>1. CASE job.kind = "array"
    <3>1. base = start.env /\ offset = 1
      BY <2>1 DEF Base, IndexOffset, ARRAY_TASK_OFFSET
    <3>2. s0 = <<"need", name>>
      BY <2>1
    <3>3. name \in DOMAIN start.env /\ start.env[name] = Decimal(i)
      BY <2>1
    <3>4. Statement(start, s0, host) = After(0, start.env, start.argv)
      BY <3>2, <3>3, Needing
    <3>5. 1 + i - 1 = i
      OBVIOUS
    <3> HIDE DEF base, s0, name, offset
    <3> QED BY <1>2, <3>1, <3>3, <3>4, <3>5 DEF After
  <2>2. CASE job.kind # "array"
    <3> DEFINE zero == Decimal(0)
               expr == <<"literal", zero>>
               added == Entry("EXEX_TASK_ID", zero)
    <3>1. base = added ++ start.env /\ offset = 0 /\ name = "EXEX_TASK_ID" /\ i = 1
      BY <2>2 DEF Base, IndexOffset, IndexName
    <3>2. s0 = <<"export", "EXEX_TASK_ID", expr>>
      BY <2>2
    <3>3. Evaluate(expr, start.env, host) = zero
      BY DEF Evaluate
    <3>4. Statement(start, s0, host) = After(0, Entry("EXEX_TASK_ID", Evaluate(expr, start.env, host)) ++ start.env, start.argv)
      BY <3>2, Exporting
    <3>5. DOMAIN added = {"EXEX_TASK_ID"} /\ added["EXEX_TASK_ID"] = zero
      BY DEF Entry
    <3> HIDE DEF base, s0, name, offset, expr
    <3>6. Statement(start, s0, host) = After(0, base, start.argv)
      BY <3>1, <3>3, <3>4
    <3> HIDE DEF added
    <3>7. "EXEX_TASK_ID" \in DOMAIN base /\ base["EXEX_TASK_ID"] = zero /\ base = [v \in DOMAIN base |-> base[v]]
      BY <3>1, <3>5 DEF ++
    <3> QED BY <1>2, <3>1, <3>6, <3>7 DEF After
  <2> QED BY <2>1, <2>2
<1> HIDE DEF base, s0
<1>4. Len(envs) = n /\ envs[i] = own /\ Len(lists) = n /\ lists[i] = TaskArgs(job, i) /\ i \in DOMAIN envs
      /\ n \in 0..MaxTasks + 1 /\ i \in 1..n
  BY TasksAssumption
<1> HIDE DEF envs, lists, n, name, offset
<1>5. IsSeq(p1) /\ R(p1).exit = 0 /\ R(p1).env = own ++ base
  <2>1. CASE none
    <3>1. p1 = p0
      BY <1>2, <2>1, OneAppended
    <3>2. DOMAIN own = {}
      BY <1>4, <2>1
    <3>3. own ++ base = base
      BY <1>3, <3>2, OverNothing
    <3> QED BY <1>2, <1>3, <3>1, <3>3
  <2>2. CASE ~none
    <3> DEFINE s == <<"env", name, offset, envs>>
    <3>1. p1 = p0 \o <<s>>
      BY <2>2
    <3>2. Branches(base, name, offset, n) = {i}
      BY <1>3, <1>4, OneBranch
    <3>3. Statement(R(p0), s, host) = After(0, envs[i] ++ R(p0).env, R(p0).argv)
      BY <1>3, <1>4, <3>2, ChoosingEnv
    <3> HIDE DEF s, p0, p1
    <3>4. IsSeq(p0 \o <<s>>)
      BY <1>2, OneAppended
    <3>5. R(p0 \o <<s>>) = Statement(R(p0), s, host)
      BY <1>2, RanOne
    <3> QED BY <1>3, <1>4, <3>1, <3>3, <3>4, <3>5 DEF After
  <2> QED BY <2>1, <2>2
<1>6. /\ name \in DOMAIN (own ++ base) /\ (own ++ base)[name] = Decimal(offset + i - 1)
  <2>1. name \notin DOMAIN own
    BY DEF name
  <2> QED BY <1>3, <2>1 DEF ++
<1> HIDE DEF p0, p1
<1>7. IsSeq(p2) /\ R(p2) = After(0, own ++ base, [j \in DOMAIN lists[i] |-> ExpandWord(lists[i][j], own ++ base)])
  <2> DEFINE s == <<"args", name, offset, lists>>
             env == own ++ base
  <2>1. Branches(env, name, offset, n) = {i}
    BY <1>3, <1>4, <1>6, OneBranch
  <2> HIDE DEF env
  <2>2. Statement(R(p1), s, host) = After(0, R(p1).env, [j \in DOMAIN lists[i] |-> ExpandWord(lists[i][j], R(p1).env)])
    BY <1>4, <1>5, <2>1, ChoosingArgs DEF env
  <2> HIDE DEF s
  <2>3. IsSeq(p1 \o <<s>>)
    BY <1>5, OneAppended
  <2>4. R(p1 \o <<s>>) = Statement(R(p1), s, host)
    BY <1>5, RanOne
  <2> QED BY <1>5, <2>2, <2>3, <2>4 DEF env, s
<1> HIDE DEF own, p2
<1>8. Starts(job, i, start.env, R(p2))
  BY <1>4, <1>7 DEF Starts, After, own, base
<1> QED BY <1>1, <1>7, <1>8

---------------------------------------------------------------------------
(* What a task's shell starts with *)

IsArray == Chosen.kind = "array"
Index(k) == IF IsArray THEN k ELSE 1
Known(k) == IF IsArray THEN k \in 1..Width ELSE k = 0
LEMMA KnownIs ==
  ASSUME IInv, phase = "submitted", LeftToClient, NEW k \in DOMAIN ran
  PROVE  /\ Known(k) /\ Index(k) \in 1..Tasks(Chosen) /\ Tasks(Chosen) \in 1..MaxTasks + 1
         /\ \E rank \in Ranks : ran[k] = RunOf(k, rank)
<1>1. k \in NativeTasks(script.built) /\ \E rank \in Ranks : ran[k] = RunOf(k, rank)
  BY DEF IInv, Scheduled
<1>2. NativeTasks(script.built) = IF Chosen.kind = "array" THEN 1..Width ELSE {0}
  BY Numbered DEF IInv
<1>3. /\ Chosen.kind \in {"job", "array"} /\ (Chosen.kind = "array" <=> req.shape = "array")
      /\ Chosen.kind = "job" => Tasks(Chosen) = 1
      /\ Chosen.kind = "array" => /\ Tasks(Chosen) = Len(Chosen.args) /\ Len(Chosen.args) = Width
                                  /\ Width \in 1..MaxTasks
  BY Counted DEF IInv
<1>4. MaxTasks \in Nat
  BY TasksAssumption
<1>6. Known(k)
  BY <1>1, <1>2 DEF Known, IsArray
<1>7. Index(k) \in 1..Tasks(Chosen)
  BY <1>1, <1>2, <1>3 DEF Index, IsArray
<1>8. Tasks(Chosen) \in 1..MaxTasks + 1
  BY <1>3, <1>4
<1> QED BY <1>1, <1>6, <1>7, <1>8

\* What a job script's environment holds, and its worker's.
Holds(env, k, rank) ==
  /\ env = [v \in DOMAIN env |-> env[v]]
  /\ DOMAIN env \subseteq {"CUDA_VISIBLE_DEVICES", "SLURM_PROCID", "EXEX_ATTEMPT_DIR", ARRAY_TASK_ID(Backend)}
  /\ Backend = "slurm" => "SLURM_PROCID" \in DOMAIN env /\ env["SLURM_PROCID"] = Decimal(rank)
  /\ k # 0 => ARRAY_TASK_ID(Backend) \in DOMAIN env /\ env[ARRAY_TASK_ID(Backend)] = Decimal(k)
  /\ IsManaged => "EXEX_ATTEMPT_DIR" \in DOMAIN env /\ env["EXEX_ATTEMPT_DIR"] = AttemptDir(attempt)
LEMMA EntryIs == ASSUME NEW n, NEW v, NEW e, e = Entry(n, v) PROVE DOMAIN e = {n} /\ e[n] = v
BY DEF Entry
LEMMA HostHolds ==
  ASSUME Backend \in {"local", "gridengine", "slurm"}, NEW k PROVE Holds(HostEnv(k), k, 0)
<1> DEFINE name == ARRAY_TASK_ID(Backend)
           a == Entry("CUDA_VISIBLE_DEVICES", "0")
           b == IF Backend = "slurm" THEN Entry("SLURM_PROCID", Decimal(0)) ELSE Nothing
           c == IF k = 0 THEN Nothing ELSE Entry(name, Decimal(k))
           d == IF IsManaged THEN Entry("EXEX_ATTEMPT_DIR", AttemptDir(attempt)) ELSE Nothing
           ab == a ++ b
           abc == ab ++ c
           all == abc ++ d
<1>1. DOMAIN a = {"CUDA_VISIBLE_DEVICES"}
  BY EntryIs
<1>2. IF Backend = "slurm" THEN DOMAIN b = {"SLURM_PROCID"} /\ b["SLURM_PROCID"] = Decimal(0) ELSE DOMAIN b = {}
  BY EntryIs, NothingOf
<1>3. IF k = 0 THEN DOMAIN c = {} ELSE DOMAIN c = {name} /\ c[name] = Decimal(k)
  BY EntryIs, NothingOf
<1>4. IF IsManaged THEN DOMAIN d = {"EXEX_ATTEMPT_DIR"} /\ d["EXEX_ATTEMPT_DIR"] = AttemptDir(attempt) ELSE DOMAIN d = {}
  BY EntryIs, NothingOf
<1>5. name \in {"SLURM_ARRAY_TASK_ID", "SGE_TASK_ID", "LOCAL_TASK_ID"}
  BY DEF ARRAY_TASK_ID
<1>6. HostEnv(k) = all
  BY DEF HostEnv
<1> HIDE DEF name, a, b, c, d
<1>7. DOMAIN ab = DOMAIN a \cup DOMAIN b /\ (\A v \in DOMAIN b \ DOMAIN a : ab[v] = b[v])
  BY DEF ++
<1> HIDE DEF ab
<1>8. /\ DOMAIN abc = DOMAIN ab \cup DOMAIN c /\ (\A v \in DOMAIN ab : abc[v] = ab[v])
      /\ (\A v \in DOMAIN c \ DOMAIN ab : abc[v] = c[v])
  BY DEF ++
<1> HIDE DEF abc
<1>9. /\ DOMAIN all = DOMAIN abc \cup DOMAIN d /\ (\A v \in DOMAIN abc : all[v] = abc[v])
      /\ (\A v \in DOMAIN d \ DOMAIN abc : all[v] = d[v]) /\ all = [v \in DOMAIN all |-> all[v]]
  BY DEF ++
<1> HIDE DEF all
<1>10. Holds(all, k, 0)
  <2>1. DOMAIN all \subseteq {"CUDA_VISIBLE_DEVICES", "SLURM_PROCID", "EXEX_ATTEMPT_DIR", name}
    BY <1>1, <1>2, <1>3, <1>4, <1>7, <1>8, <1>9
  <2>2. Backend = "slurm" => "SLURM_PROCID" \in DOMAIN all /\ all["SLURM_PROCID"] = Decimal(0)
    BY <1>1, <1>2, <1>7, <1>8, <1>9
  <2>3. k # 0 => name \in DOMAIN all /\ all[name] = Decimal(k)
    BY <1>1, <1>2, <1>3, <1>5, <1>7, <1>8, <1>9
  <2>4. IsManaged => "EXEX_ATTEMPT_DIR" \in DOMAIN all /\ all["EXEX_ATTEMPT_DIR"] = AttemptDir(attempt)
    BY <1>1, <1>2, <1>3, <1>4, <1>5, <1>7, <1>8, <1>9
  <2> QED BY <1>9, <2>1, <2>2, <2>3, <2>4 DEF Holds, name
<1> QED BY <1>6, <1>10

LEMMA ProcessHolds ==
  ASSUME Backend \in {"local", "gridengine", "slurm"}, NEW k, NEW rank \in Ranks
  PROVE  Holds(ProcessEnv(k, rank), k, rank)
<1> DEFINE host == HostEnv(k)
           mine == ProcessEnv(k, rank)
<1>1. Holds(host, k, 0)
  BY HostHolds
<1>2. ARRAY_TASK_ID(Backend) \in {"SLURM_ARRAY_TASK_ID", "SGE_TASK_ID", "LOCAL_TASK_ID"}
  BY DEF ARRAY_TASK_ID
<1> HIDE DEF host
<1>3. CASE Ranks = {0}
  BY <1>1, <1>3 DEF ProcessEnv, host
<1>4. CASE Ranks # {0}
  <2> DEFINE own == Entry("SLURM_PROCID", Decimal(rank))
  <2>1. Backend = "slurm"
    BY <1>4 DEF Ranks
  <2>2. mine = own ++ host
    BY <1>4 DEF ProcessEnv, WorkerEnv, host
  <2>3. DOMAIN own = {"SLURM_PROCID"} /\ own["SLURM_PROCID"] = Decimal(rank)
    BY EntryIs
  <2> HIDE DEF own, mine
  <2>4. /\ DOMAIN mine = DOMAIN own \cup DOMAIN host /\ mine = [v \in DOMAIN mine |-> mine[v]]
        /\ (\A v \in DOMAIN own : mine[v] = own[v]) /\ \A v \in DOMAIN host \ DOMAIN own : mine[v] = host[v]
    BY <2>2 DEF ++
  <2>5. Holds(mine, k, rank)
    BY <1>1, <1>2, <2>1, <2>3, <2>4 DEF Holds
  <2> QED BY <2>5 DEF mine
<1> QED BY <1>3, <1>4

\* The command that the script ends in, and the directories it is given.
Bindable(bind) == IsSeq(bind) /\ \A i \in DOMAIN bind : Len(bind[i][1]) = 1
LEMMA BindsOf ==
  ASSUME IInv, phase = "submitted",
         NEW default \in {SingularityOptions, DockerOptions, ShifterOptions}
  PROVE  Bindable(OptionsOf(executor, default).bind)
<1>1. CASE executor.container_options = <<>>
  <2>1. OptionsOf(executor, default).bind = <<>>
    BY <1>1 DEF OptionsOf, SingularityOptions, DockerOptions, ShifterOptions
  <2> QED BY <2>1 DEF Bindable, IsSeq
<1>2. CASE executor.container_options # <<>>
  <2>1. PICK env \in Environments : executor = ExecutorIn(env)
    BY DEF IInv, Packaged
  <2>2. req.requirements = Nothing
    BY <1>2, <2>1 DEF ExecutorIn, UclGridEngine, _myriad_executor_fn, _cs_executor_fn, GridEngine
  <2>3. IsExecutor(executor)
    BY <2>1, <2>2, Requested DEF ExecutorIn, IsRequest, IInv
  <2> DEFINE bind == executor.container_options[1].bind
  <2>4. bind \in Seq(ToSet(bind)) /\ \A i \in DOMAIN bind : Len(bind[i][1]) = 1
    BY <1>2, <2>3 DEF IsExecutor
  <2>5. OptionsOf(executor, default).bind = bind
    BY <1>2 DEF OptionsOf
  <2> HIDE DEF bind
  <2> QED BY <2>4, <2>5 DEF Bindable, IsSeq
<1> QED BY <1>1, <1>2

ByWorkers == Backend = "slurm" /\ Payload.executor.srun_options
Commands(command, type, links) ==
  /\ \/ command.env.file = "none" /\ command.env.pattern = {} /\ command.inherits
     \/ /\ command.env.pattern = JOB_ENV_PATTERN(Backend)
        /\ command.env.file = IF ByWorkers THEN "worker" ELSE "script"
  /\ type \in Containerised => \E bind : IsSeq(bind) /\ command.binds = bind \o << <<Links, links>> >>
  /\ type \notin Containerised => Bindable(command.binds)
LEMMA CommandOf ==
  ASSUME IInv, phase = "submitted"
  PROVE  Commands(script.built.command, Chosen.executable.image_type, link_directory(Chosen, IsManaged, Directory))
<1> DEFINE type == Chosen.executable.image_type
           links == link_directory(Chosen, IsManaged, Directory)
           env0 == create_environment_command(Chosen)
           env == IF Chosen.executor.kind = "slurm" /\ Chosen.executor.srun_options
                  THEN [env0 EXCEPT !.file = "worker"] ELSE env0
           command == script.built.command
           gpu == is_gpu_requested(Chosen.executor)
           O(default) == OptionsOf(Chosen.executor, default)
<1>1. /\ Payload = Chosen /\ Backend = executor.kind /\ Chosen.executor = executor
      /\ (IsManaged <=> Managed(Chosen))
  BY Launched DEF IInv
<1>2. command = create_entrypoint_commands(Chosen, links, env)
  <2>1. /\ script.built = build(Chosen, Directory, req.continuation, req.inputs # <<>>, HasOutputs)
    BY DEF IInv, Submitted
  <2>2. IsManaged = Managed(Chosen)
    BY <2>1 DEF IsManaged, build, Managed
  <2>3. command = slurm_entrypoint_commands(Chosen, link_directory(Chosen, Managed(Chosen), Directory))
    BY <2>1 DEF build, Managed
  <2> QED BY <2>2, <2>3 DEF slurm_entrypoint_commands
<1>3. env.pattern = JOB_ENV_PATTERN(Backend) /\ env.file = IF ByWorkers THEN "worker" ELSE "script"
  BY <1>1 DEF create_environment_command, ByWorkers
<1> HIDE DEF env, links, gpu
<1>4. CASE type = "singularity"
  <2>1. command = singularity_command(O(SingularityOptions), links, gpu, env)
    BY <1>2, <1>4 DEF create_entrypoint_commands, gpu
  <2>2. command.env = env /\ command.binds = O(SingularityOptions).bind \o << <<Links, links>> >>
    BY <2>1 DEF singularity_command
  <2>3. Bindable(O(SingularityOptions).bind)
    BY <1>1, BindsOf
  <2> QED BY <1>3, <1>4, <2>2, <2>3 DEF Commands, Containerised, Bindable, links
<1>5. CASE type = "docker"
  <2>1. command = docker_command(O(DockerOptions), links, gpu, env)
    BY <1>2, <1>5 DEF create_entrypoint_commands, gpu
  <2>2. command.env = env /\ command.binds = O(DockerOptions).bind \o << <<Links, links>> >>
    BY <2>1 DEF docker_command
  <2>3. Bindable(O(DockerOptions).bind)
    BY <1>1, BindsOf
  <2> QED BY <1>3, <1>5, <2>2, <2>3 DEF Commands, Containerised, Bindable, links
<1>6. CASE type = "shifter"
  <2>1. command = shifter_command(O(ShifterOptions), env)
    BY <1>2, <1>6 DEF create_entrypoint_commands
  <2>2. command.env = env /\ command.binds = O(ShifterOptions).bind
    BY <2>1 DEF shifter_command
  <2>3. Bindable(O(ShifterOptions).bind)
    BY <1>1, BindsOf
  <2> QED BY <1>3, <1>6, <2>2, <2>3 DEF Commands, Containerised, links
<1>7. CASE type \notin {"singularity", "docker", "shifter"}
  <2>1. command = [env |-> [file |-> "none", pattern |-> {}], inherits |-> TRUE, binds |-> <<>>, gpu |-> FALSE]
    BY <1>2, <1>7 DEF create_entrypoint_commands
  <2>2. command.env.file = "none" /\ command.env.pattern = {} /\ command.inherits /\ command.binds = <<>>
    BY <2>1
  <2>3. Bindable(<<>>)
    BY DEF Bindable, IsSeq
  <2> QED BY <1>7, <2>2, <2>3 DEF Commands, Containerised
<1> QED BY <1>4, <1>5, <1>6, <1>7

\* What the shell of the payload starts with.
Sees(env, k, rank) ==
  /\ env = [v \in DOMAIN env |-> env[v]] /\ "EXEX_TASK_ID" \notin DOMAIN env
  /\ Backend = "slurm" => "SLURM_PROCID" \in DOMAIN env /\ env["SLURM_PROCID"] = Decimal(rank)
  /\ k # 0 => ARRAY_TASK_ID(Backend) \in DOMAIN env /\ env[ARRAY_TASK_ID(Backend)] = Decimal(k)
LEMMA VisibleIs ==
  ASSUME Backend \in {"local", "gridengine", "slurm"}, NEW k, NEW rank \in Ranks,
         NEW command, NEW type, NEW links, Commands(command, type, links)
  PROVE  Sees(Visible(command, HostEnv(k), ProcessEnv(k, rank)), k, rank)
<1> DEFINE host == HostEnv(k)
           mine == ProcessEnv(k, rank)
           name == ARRAY_TASK_ID(Backend)
           written == IF command.env.file = "worker" THEN mine ELSE host
           shown == [v \in DOMAIN written \cap command.env.pattern |-> written[v]]
           kept == IF command.inherits THEN mine ELSE <<>>
           env == shown ++ kept
<1>1. Holds(host, k, 0) /\ Holds(mine, k, rank)
  BY HostHolds, ProcessHolds
<1>2. env = Visible(command, host, mine)
  BY DEF Visible
<1>3. name \in {"SLURM_ARRAY_TASK_ID", "SGE_TASK_ID", "LOCAL_TASK_ID"}
  BY DEF ARRAY_TASK_ID
<1>4. DOMAIN kept = {} \/ (command.inherits /\ kept = mine)
  BY NothingOf DEF Nothing
<1>5. DOMAIN shown = DOMAIN written \cap command.env.pattern /\ \A v \in DOMAIN shown : shown[v] = written[v]
  OBVIOUS
<1>6. /\ DOMAIN env = DOMAIN shown \cup DOMAIN kept /\ env = [v \in DOMAIN env |-> env[v]]
      /\ (\A v \in DOMAIN shown : env[v] = shown[v]) /\ \A v \in DOMAIN kept \ DOMAIN shown : env[v] = kept[v]
  BY DEF ++
<1>7. written = mine \/ written = host
  OBVIOUS
<1>8. "EXEX_TASK_ID" \notin DOMAIN env
  <2> HIDE DEF host, mine, written, shown, kept, env, name
  <2>1. "EXEX_TASK_ID" \notin DOMAIN host /\ "EXEX_TASK_ID" \notin DOMAIN mine
    BY <1>1, <1>3 DEF Holds, name
  <2> QED BY <1>4, <1>5, <1>6, <1>7, <2>1
<1>9. CASE command.env.file = "none" /\ command.env.pattern = {} /\ command.inherits
  <2>1. DOMAIN shown = {} /\ kept = mine
    BY <1>9
  <2> HIDE DEF host, mine, written, shown, kept, env, name
  <2>2. DOMAIN env = DOMAIN mine /\ \A v \in DOMAIN mine : env[v] = mine[v]
    BY <1>6, <2>1
  <2>3. Sees(env, k, rank)
    BY <1>1, <1>6, <1>8, <2>2 DEF Sees, Holds
  <2> QED BY <1>2, <2>3 DEF host, mine
<1>10. CASE /\ command.env.pattern = JOB_ENV_PATTERN(Backend)
            /\ command.env.file = IF ByWorkers THEN "worker" ELSE "script"
  <2>1. Holds(written, k, rank)
    <3>1. CASE ByWorkers
      BY <1>1, <1>10, <3>1
    <3>2. CASE ~ByWorkers
      <4>1. written = host /\ rank = 0
        BY <1>10, <3>2 DEF ByWorkers, Ranks
      <4> HIDE DEF written, host
      <4> QED BY <1>1, <4>1
    <3> QED BY <3>1, <3>2
  <2>2. name \in command.env.pattern /\ (Backend = "slurm" => "SLURM_PROCID" \in command.env.pattern)
    BY <1>10 DEF JOB_ENV_PATTERN
  <2> HIDE DEF host, mine, written, shown, kept, env
  <2>3. Backend = "slurm" => "SLURM_PROCID" \in DOMAIN env /\ env["SLURM_PROCID"] = Decimal(rank)
    BY <1>5, <1>6, <2>1, <2>2 DEF Holds
  <2>4. k # 0 => name \in DOMAIN env /\ env[name] = Decimal(k)
    <3> SUFFICES ASSUME k # 0 PROVE name \in DOMAIN env /\ env[name] = Decimal(k)
      OBVIOUS
    <3>1. name \in DOMAIN written /\ written[name] = Decimal(k)
      BY <2>1 DEF Holds
    <3> HIDE DEF name
    <3> QED BY <1>5, <1>6, <2>2, <3>1
  <2>5. Sees(env, k, rank)
    BY <1>6, <1>8, <2>3, <2>4 DEF Sees
  <2> QED BY <1>2, <2>5 DEF host, mine
<1> QED BY <1>9, <1>10 DEF Commands

\* The last of three layers that has a name decides.
Layers(a, b, c) == [n \in DOMAIN a \cup DOMAIN b \cup DOMAIN c |->
                      IF n \in DOMAIN c THEN c[n] ELSE IF n \in DOMAIN b THEN b[n] ELSE a[n]]
LEMMA DecidedIs ==
  ASSUME NEW a, NEW b, NEW c, NEW l, l = <<a, b, c>>
  PROVE  [n \in EnvNames(l) |-> Decided(l, n)] = Layers(a, b, c)
<1>1. DOMAIN l = 1..3 /\ Len(l) = 3 /\ l[1] = a /\ l[2] = b /\ l[3] = c
  OBVIOUS
<1>2. EnvNames(l) = DOMAIN a \cup DOMAIN b \cup DOMAIN c
  <2>1. EnvNames(l) = UNION {DOMAIN l[i] : i \in 1..3}
    BY <1>1 DEF EnvNames
  <2>2. 1..3 = {1, 2, 3}
    OBVIOUS
  <2> QED BY <1>1, <2>1, <2>2
<1>3. ASSUME NEW n \in EnvNames(l)
      PROVE  Decided(l, n) = IF n \in DOMAIN c THEN c[n] ELSE IF n \in DOMAIN b THEN b[n] ELSE a[n]
  <2> DEFINE IsLast(i) == n \in DOMAIN l[i] /\ \A j \in i + 1..Len(l) : n \notin DOMAIN l[j]
             i == CHOOSE i \in DOMAIN l : IsLast(i)
  <2>1. Decided(l, n) = l[i][n]
    BY DEF Decided
  <2>2. \E m \in 1..3 : IsLast(m)
    <3>1. CASE n \in DOMAIN c
      <4>1. IsLast(3)
        BY <1>1, <3>1
      <4> QED BY <4>1
    <3>2. CASE n \notin DOMAIN c /\ n \in DOMAIN b
      <4>1. IsLast(2)
        BY <1>1, <3>2
      <4> QED BY <4>1
    <3>3. CASE n \notin DOMAIN c /\ n \notin DOMAIN b
      <4>1. IsLast(1)
        <5>1. \A j \in 1 + 1..3 : j = 2 \/ j = 3
          OBVIOUS
        <5> QED BY <1>1, <1>2, <3>3, <5>1
      <4> QED BY <4>1
    <3> QED BY <3>1, <3>2, <3>3
  <2>3. i \in 1..3 /\ IsLast(i)
    BY <1>1, <2>2
  <2> HIDE DEF i
  <2>4. CASE n \in DOMAIN c
    <3>1. i = 3
      <4>1. i \in {1, 2} => 3 \in i + 1..3
        OBVIOUS
      <4> QED BY <1>1, <2>3, <2>4, <4>1
    <3> QED BY <1>1, <2>1, <2>4, <3>1
  <2>5. CASE n \notin DOMAIN c /\ n \in DOMAIN b
    <3>1. i = 2
      <4>1. i = 1 => 2 \in i + 1..3
        OBVIOUS
      <4> QED BY <1>1, <2>3, <2>5, <4>1
    <3> QED BY <1>1, <2>1, <2>5, <3>1
  <2>6. CASE n \notin DOMAIN c /\ n \notin DOMAIN b
    <3>1. i = 1
      BY <1>1, <2>3, <2>6
    <3> QED BY <1>1, <2>1, <2>6, <3>1
  <2> QED BY <2>4, <2>5, <2>6
<1> DEFINE f == [n \in EnvNames(l) |-> Decided(l, n)]
           g == Layers(a, b, c)
<1>4. DOMAIN f = EnvNames(l) /\ DOMAIN g = EnvNames(l)
  BY <1>2 DEF Layers
<1>5. \A n \in EnvNames(l) : f[n] = g[n]
  BY <1>2, <1>3 DEF Layers
<1>6. f = [n \in EnvNames(l) |-> f[n]] /\ g = [n \in EnvNames(l) |-> g[n]]
  BY <1>2 DEF Layers
<1> HIDE DEF f, g
<1>7. f = g
  BY <1>5, <1>6
<1> QED BY <1>7 DEF f, g

LEMMA LayersAre ==
  ASSUME NEW a, NEW b, NEW c
  PROVE  /\ (c ++ b) ++ a = Layers(a, b, c)
         /\ DOMAIN c = {} => b ++ a = Layers(a, b, c)
<1>1. (c ++ b) ++ a = Layers(a, b, c)
  BY DEF ++, Layers
<1>2. DOMAIN c = {} => b ++ a = Layers(a, b, c)
  BY DEF ++, Layers
<1> QED BY <1>1, <1>2

\* The environment asked for is the one the task's branch sets.
LEMMA TaskEnvIs ==
  ASSUME IInv, phase = "submitted", NEW k, Known(k)
  PROVE  TaskEnv(Chosen, Index(k)) = [name \in EnvNames(EnvLayers(k)) |-> Decided(EnvLayers(k), name)]
<1> DEFINE own == IF req.shape = "array" THEN TaskOwn(req.env_list, k) ELSE req.env_vars
           asked == [name \in EnvNames(EnvLayers(k)) |-> Decided(EnvLayers(k), name)]
<1>1. IsArray <=> req.shape = "array"
  BY Counted DEF IInv, IsArray
<1>2. asked = Layers(req.package_env, own, req.override_env)
  <2>1. EnvLayers(k) = <<req.package_env, own, req.override_env>>
    BY DEF EnvLayers
  <2> HIDE DEF own
  <2> QED BY <2>1, DecidedIs
<1>3. Chosen.executable.env_vars = req.package_env
  BY DEF IInv, Added, Packaged, Executable
<1> HIDE DEF asked
<1>4. CASE req.shape = "array"
  <2>1. Index(k) = k /\ k \in 1..Width /\ Chosen.kind = "array"
    BY <1>1, <1>4 DEF Index, Known, IsArray
  <2>2. Chosen.env_vars = [i \in 1..Width |-> TaskOwn(req.env_list, i)] /\ req.override_env = Nothing
    BY <1>4 DEF IInv, Added
  <2>3. TaskEnv(Chosen, k) = own ++ req.package_env
    BY <1>3, <1>4, <2>1, <2>2 DEF TaskEnv
  <2> HIDE DEF own
  <2> QED BY <1>2, <2>1, <2>2, <2>3, LayersAre, NothingOf DEF asked
<1>5. CASE req.shape # "array"
  <2>1. Chosen.kind = "job" /\ Chosen.env_vars = JobEnv
    BY <1>5 DEF IInv, Added
  <2>2. TaskEnv(Chosen, Index(k)) = JobEnv ++ req.package_env
    BY <1>3, <2>1 DEF TaskEnv
  <2>3. own = req.env_vars
    BY <1>5
  <2> HIDE DEF own
  <2>4. CASE req.override_env = Nothing
    <3>1. JobEnv = req.env_vars
      BY <2>4 DEF JobEnv
    <3> QED BY <1>2, <2>2, <2>3, <2>4, <3>1, LayersAre, NothingOf DEF asked
  <2>5. CASE req.override_env # Nothing
    <3>1. JobEnv = req.override_env ++ req.env_vars
      BY <2>5 DEF JobEnv
    <3> QED BY <1>2, <2>2, <2>3, <3>1, LayersAre DEF asked
  <2> QED BY <2>4, <2>5
<1> QED BY <1>4, <1>5

LEMMA OverUnder ==
  ASSUME NEW f, NEW g, NEW h, DOMAIN g \cap DOMAIN h = {}
  PROVE  /\ (f ++ g) ++ h = f ++ (h ++ g)
         /\ DOMAIN h = {} => (f ++ g) ++ h = f ++ g
<1> DEFINE l == (f ++ g) ++ h
           r == f ++ (h ++ g)
           D == DOMAIN f \cup DOMAIN g \cup DOMAIN h
<1>1. l = [n \in D |-> IF n \in DOMAIN f THEN f[n] ELSE IF n \in DOMAIN g THEN g[n] ELSE h[n]]
  BY DEF ++
<1>2. r = [n \in D |-> IF n \in DOMAIN f THEN f[n] ELSE IF n \in DOMAIN h THEN h[n] ELSE g[n]]
  BY DEF ++
<1>3. l = r
  BY <1>1, <1>2
<1>4. DOMAIN h = {} => l = f ++ g
  BY DEF ++
<1> QED BY <1>3, <1>4

\* What a started task's shell went through.
HasInputs == req.inputs # <<>>
Runs(k, rank, base, before, after) ==
  /\ rank \in Ranks /\ ran[k] = RunOf(k, rank)
  /\ Source(script.built, HostEnv(k), ProcessEnv(k, rank)) = after
  /\ Sees(base, k, rank) /\ Starts(Chosen, Index(k), base, before)
  /\ Installs(before, after, Chosen, IsManaged, req.continuation, Directory, HasInputs, HasOutputs, HostEnv(k))
  /\ AskedEnv(k) = before.env
LEMMA RunIs ==
  ASSUME IInv, NEW k \in Started
  PROVE  /\ phase = "submitted" /\ LeftToClient /\ k \in DOMAIN ran /\ Known(k)
         /\ Index(k) \in 1..Tasks(Chosen) /\ Backend \in {"local", "gridengine", "slurm"}
         /\ Payload = Chosen /\ IndexName(Chosen) \notin EnvNames(EnvLayers(k))
         /\ \E rank, base, before, after : Runs(k, rank, base, before, after)
<1>1. phase = "submitted" /\ k \in DOMAIN ran /\ Sound(k)
  BY DEF Started
<1>2. LeftToClient /\ IndexName(Payload) \notin EnvNames(EnvLayers(k))
  BY <1>1 DEF Sound
<1>3. /\ Payload = Chosen /\ Backend = executor.kind /\ Chosen.executor = executor
      /\ (IsManaged <=> Managed(Chosen)) /\ executor.kind \in {"local", "gridengine", "slurm"}
  BY <1>1, Launched, ExecutorKind DEF IInv
<1>4. /\ Known(k) /\ Index(k) \in 1..Tasks(Chosen) /\ Tasks(Chosen) \in 1..MaxTasks + 1
      /\ \E rank \in Ranks : ran[k] = RunOf(k, rank)
  BY <1>1, <1>2, KnownIs
<1>5. PICK rank \in Ranks : ran[k] = RunOf(k, rank)
  BY <1>4
<1>6. ran[k].rank = rank
  BY <1>5 DEF RunOf
<1> DEFINE host == HostEnv(k)
           mine == ProcessEnv(k, rank)
           command == script.built.command
           base == Visible(command, host, mine)
           start == [env |-> base, argv |-> <<>>, exit |-> 0]
           own == create_job_args_script(Chosen)
           param == create_install_commands(Chosen, IsManaged, req.continuation, Directory, HasInputs, HasOutputs)
           before == Ran(start, own, host)
           after == Ran(start, param, host)
           i == Index(k)
<1>7. Sees(base, k, rank)
  <2>1. Commands(command, Chosen.executable.image_type, link_directory(Chosen, IsManaged, Directory))
    BY <1>1, CommandOf
  <2> QED BY <1>3, <2>1, VisibleIs
<1>8. script.built.param = param
  <2>1. script.built = build(Chosen, Directory, req.continuation, HasInputs, HasOutputs)
    BY <1>1 DEF IInv, Submitted, HasInputs
  <2>2. IsManaged = Managed(Chosen)
    BY <2>1 DEF IsManaged, build, Managed
  <2> QED BY <2>1, <2>2 DEF build, Managed
<1>9. Source(script.built, host, mine) = after
  <2>1. Source(script.built, host, mine) = Ran(start, script.built.param, host)
    BY DEF Source, Ran
  <2> QED BY <1>8, <2>1
<1>10. TaskEnv(Chosen, i) = [name \in EnvNames(EnvLayers(k)) |-> Decided(EnvLayers(k), name)]
  BY <1>1, <1>4, TaskEnvIs
<1>11. start.exit = 0 /\ start.env = base
  OBVIOUS
<1> HIDE DEF start, base, own, param, before, after, i, host, mine
<1>12. start.env = [v \in DOMAIN start.env |-> start.env[v]]
  BY <1>7, <1>11 DEF Sees
<1>13. IF Chosen.kind = "array" THEN IndexName(Chosen) \in DOMAIN start.env /\ start.env[IndexName(Chosen)] = Decimal(i)
       ELSE i = 1
  <2>1. CASE Chosen.kind = "array"
    <3>1. k # 0 /\ i = k /\ IndexName(Chosen) = ARRAY_TASK_ID(Backend)
      BY <1>3, <1>4, <2>1 DEF Known, IsArray, Index, IndexName, i
    <3> QED BY <1>7, <1>11, <2>1, <3>1 DEF Sees
  <2>2. CASE Chosen.kind # "array"
    BY <2>2 DEF Index, IsArray, i
  <2> QED BY <2>1, <2>2
<1>14. IsSeq(own) /\ Starts(Chosen, i, base, before)
  <2>1. IndexName(Chosen) \notin DOMAIN TaskEnv(Chosen, i)
    BY <1>2, <1>3, <1>10
  <2>2. i \in 1..Tasks(Chosen)
    BY <1>4 DEF i
  <2>3. IsSeq(create_job_args_script(Chosen)) /\ Starts(Chosen, i, start.env, Ran(start, create_job_args_script(Chosen), host))
    BY <1>4, <1>11, <1>12, <1>13, <2>1, <2>2, JobArgsRun
  <2> QED BY <1>11, <2>3 DEF own, before
<1>15. Installs(before, after, Chosen, IsManaged, req.continuation, Directory, HasInputs, HasOutputs, host)
  <2>1. before.exit = 0
    BY <1>14 DEF Starts
  <2>2. IsManaged \in BOOLEAN /\ req.continuation \in BOOLEAN /\ HasInputs \in BOOLEAN /\ HasOutputs \in BOOLEAN
    <3>1. script.built = build(Chosen, Directory, req.continuation, HasInputs, HasOutputs)
      BY <1>1 DEF IInv, Submitted, HasInputs
    <3>2. IsManaged = Managed(Chosen) /\ req.continuation \in BOOLEAN
      BY <3>1, Requested DEF IsManaged, build, Managed, IInv, IsRequest
    <3>3. Managed(Chosen) \in BOOLEAN
      BY <3>2 DEF Managed
    <3> QED BY <3>2, <3>3 DEF HasInputs, HasOutputs
  <2>3. IsSeq(create_job_args_script(Chosen)) /\ Ran(start, create_job_args_script(Chosen), host).exit = 0
    BY <1>14, <2>1 DEF own, before
  <2> QED BY <2>2, <2>3, Installed DEF before, after, own, param
<1>16. AskedEnv(k) = before.env
  <2>1. before.env = TaskEnv(Chosen, i) ++ Base(Chosen, base)
    BY <1>14 DEF Starts
  <2> DEFINE index == IF req.shape = "array" THEN Nothing ELSE Entry("EXEX_TASK_ID", Decimal(0))
             f == TaskEnv(Chosen, i)
  <2>2. AskedEnv(k) = (f ++ base) ++ index
    BY <1>6, <1>10 DEF AskedEnv, base, host, mine
  <2>3. Chosen.kind = "array" <=> req.shape = "array"
    BY <1>1, Counted DEF IInv
  <2>4. DOMAIN base \cap DOMAIN index = {}
    <3>1. DOMAIN index \subseteq {"EXEX_TASK_ID"}
      BY NothingOf, EntryOf
    <3> QED BY <1>7, <3>1 DEF Sees
  <2>5. CASE req.shape = "array"
    <3>1. DOMAIN index = {}
      BY <2>5, NothingOf
    <3>2. Base(Chosen, base) = base
      BY <2>3, <2>5 DEF Base
    <3> HIDE DEF index, f
    <3> QED BY <2>1, <2>2, <2>4, <3>1, <3>2, OverUnder DEF f
  <2>6. CASE req.shape # "array"
    <3>1. Base(Chosen, base) = index ++ base
      BY <2>3, <2>6 DEF Base
    <3> HIDE DEF index, f
    <3> QED BY <2>1, <2>2, <2>4, <3>1, OverUnder DEF f
  <2> QED BY <2>5, <2>6
<1>17. Runs(k, rank, base, before, after)
  BY <1>5, <1>7, <1>9, <1>14, <1>15, <1>16 DEF Runs, i, host, mine
<1> QED BY <1>1, <1>2, <1>3, <1>4, <1>17

\* The author's settings reach the payload, and what the runner tells it after them.
LEMMA EnvIs == IInv => EnvLayering
<1> SUFFICES ASSUME IInv, NEW k \in Started
             PROVE  /\ \A name \in EnvNames(EnvLayers(k)) \ Reserved : ran[k].env[name] = AskedEnv(k)[name]
                    /\ IsManaged => ran[k].env["EXEX_ATTEMPT_DIR"] = HostEnv(k)["EXEX_ATTEMPT_DIR"]
                    /\ HasOutputs => ran[k].env["EXEX_OUTPUT_DIR"] = "outputs"
  BY DEF EnvLayering
<1>1. PICK rank, base, before, after : Runs(k, rank, base, before, after)
  BY RunIs
<1>2. ran[k].env = after.env
  BY <1>1 DEF Runs, RunOf
<1>3. Installs(before, after, Chosen, IsManaged, req.continuation, Directory, HasInputs, HasOutputs, HostEnv(k))
  BY <1>1 DEF Runs
<1>4. /\ IsManaged => after.env["EXEX_ATTEMPT_DIR"] = HostEnv(k)["EXEX_ATTEMPT_DIR"]
      /\ HasOutputs => after.env["EXEX_OUTPUT_DIR"] = "outputs"
      /\ Adds(before, after, Told(IsManaged, req.continuation, HasInputs, HasOutputs))
  BY <1>3 DEF Installs
<1>5. Told(IsManaged, req.continuation, HasInputs, HasOutputs) = Reserved
  BY DEF Told, Reserved, HasInputs
<1>6. ASSUME NEW name \in EnvNames(EnvLayers(k)) \ Reserved PROVE ran[k].env[name] = AskedEnv(k)[name]
  <2>1. AskedEnv(k) = before.env
    BY <1>1 DEF Runs
  <2>2. name \in DOMAIN before.env
    <3>1. TaskEnv(Chosen, Index(k)) = [v \in EnvNames(EnvLayers(k)) |-> Decided(EnvLayers(k), v)]
      BY RunIs, TaskEnvIs
    <3>2. before.env = TaskEnv(Chosen, Index(k)) ++ Base(Chosen, base)
      BY <1>1 DEF Runs, Starts
    <3>3. name \in DOMAIN TaskEnv(Chosen, Index(k))
      BY <3>1
    <3> QED BY <3>2, <3>3 DEF ++
  <2> QED BY <1>2, <1>4, <1>5, <2>1, <2>2 DEF Adds
<1> QED BY <1>2, <1>4, <1>6

\* Every task that the job's own index selects has each variable that the executable,
\* the job (or its task) and the override mention, with the value of the last of them
\* that does, over what its host or container lets it see, but for the variables by
\* which the runner tells the payload its own directories, which stay the runner's.
THEOREM EnvironmentIsLayered == PipelineSpec => []EnvLayering
BY EnvIs, PipelineInvariant, PTL

\* What the three layers mention for a task, one after another.
Said(k) == First \o (Second(k) \o Third)
LEMMA SaidIs ==
  ASSUME IInv, phase = "submitted", NEW k, Known(k), NEW N, NEW V, Layered(N, V, Index(k))
  PROVE  /\ Mentions(ArgLayers(k)[1]) \o Mentions(ArgLayers(k)[2]) \o Mentions(ArgLayers(k)[3]) = Said(k)
         /\ Said(k) \in Seq(MentionOf(N, V))
         /\ First \in Seq(MentionOf(N, V)) /\ Second(k) \o Third \in Seq(MentionOf(N, V))
         /\ Second(Index(k)) = Second(k)
<1>1. req.shape = "array" <=> IsArray
  BY Counted DEF IInv, IsArray
<1>2. Second(Index(k)) = Second(k)
  BY <1>1 DEF Second, Index
<1>3. First \in Seq(MentionOf(N, V)) /\ Second(k) \in Seq(MentionOf(N, V)) /\ Third \in Seq(MentionOf(N, V))
  BY <1>2 DEF Layered
<1> DEFINE second == IF req.shape = "array" THEN TaskOwn(req.args_list, k) ELSE req.args
<1>4. ArgLayers(k)[1] = req.package_args /\ ArgLayers(k)[2] = second /\ ArgLayers(k)[3] = req.override_args
  BY DEF ArgLayers
<1>5. /\ req.package_args[1] \in {"none", "seq", "map"}
      /\ second[1] \in {"none", "seq", "map"}
      /\ req.override_args[1] \in {"none", "seq", "map"}
  <2>1. IsCollection(req.package_args)
    BY Requested DEF IInv, IsRequest
  <2>2. IsCollection(second)
    <3>1. CASE req.shape = "array"
      <4>1. IsArray /\ k \in 1..Width /\ Tasks(Chosen) = Width
        BY <1>1, <3>1, Counted DEF IInv, IsArray, Known
      <4>2. IsCollection(TaskOwn(req.args_list, k))
        BY <3>1, <4>1, Counts DEF IInv
      <4> QED BY <3>1, <4>2
    <3>2. CASE req.shape # "array"
      BY <3>2, Requested DEF IInv, IsRequest
    <3> QED BY <3>1, <3>2
  <2>3. req.override_args[1] = "none" \/ IsCollection(req.override_args)
    BY Requested DEF IInv, IsRequest, Added
  <2> QED BY <2>1, <2>2, <2>3 DEF IsCollection
<1>6. Mentions(req.package_args) = First
  BY <1>5 DEF First, Given, Mentions
<1>7. Mentions(second) = Second(k)
  BY <1>5 DEF Second, Given, Mentions
<1>8. Mentions(req.override_args) = Third
  BY <1>5 DEF Third, Given, Mentions
<1>9. (First \o Second(k)) \o Third = Said(k)
  BY <1>3, ConcatAssociative DEF Said
<1>10. Second(k) \o Third \in Seq(MentionOf(N, V)) /\ Said(k) \in Seq(MentionOf(N, V))
  <2> DEFINE T == MentionOf(N, V)
  <2> HIDE DEF T
  <2>1. \A u, v \in Seq(T) : u \o v \in Seq(T)
    OBVIOUS
  <2> QED BY <1>3, <2>1 DEF Said, T
<1> HIDE DEF second
<1> QED BY <1>2, <1>3, <1>4, <1>6, <1>7, <1>8, <1>9, <1>10

\* A task's words are those of all that is said for it.
LEMMA TaskWords ==
  ASSUME IInv, phase = "submitted", NEW k, Known(k), Index(k) \in 1..Tasks(Chosen)
  PROVE  TaskArgs(Chosen, Index(k)) = FlattenSeq([i \in DOMAIN Said(k) |-> Words(Said(k), i)])
<1> DEFINE n == Index(k)
           both == Second(k) \o Third
           a == Canon(First)
           b == Canon(both)
<1>1. PICK N, V : Layered(N, V, n) /\ \A v \in V : IsValue(v)
  BY LayersOf DEF IInv
<1>2. /\ First \in Seq(MentionOf(N, V)) /\ both \in Seq(MentionOf(N, V)) /\ Said(k) \in Seq(MentionOf(N, V))
      /\ Second(n) = Second(k) /\ Said(k) = First \o both
  BY <1>1, SaidIs DEF Said
<1>3. Chosen.executable.args = a /\ OwnArgs(Chosen, n) = b /\ a \in ArgsOf(N, V) /\ b \in ArgsOf(N, V)
  <2>1. /\ Chosen.executable.args = Canon(First) /\ Canon(First) \in ArgsOf(N, V)
        /\ OwnArgs(Chosen, n) = Canon(Second(n) \o Third) /\ OwnArgs(Chosen, n) \in ArgsOf(N, V)
    BY <1>1, JobArgsAre DEF IInv
  <2> QED BY <1>2, <2>1
<1> HIDE DEF n, both
<1> DEFINE c == <<"args", a>>
           d == <<"args", b>>
<1>4. TaskArgs(Chosen, n) = to_list(merge_args(<<c, d>>))
  BY <1>3 DEF TaskArgs, OwnArgs
<1>5. Given(c) = Mentioned(a) /\ Given(d) = Mentioned(b)
  BY DEF Given
<1>6. /\ Mentioned(a) \in Seq(MentionOf(N, V)) /\ Mentioned(b) \in Seq(MentionOf(N, V))
      /\ Taken(EmptyArgs, Mentioned(a)) = Taken(EmptyArgs, First)
      /\ Taken(a, Mentioned(b)) = Taken(a, both)
  BY <1>2, <1>3, EmptyType, CanonAgain
<1> HIDE DEF c, d
<1>7. merge_args(<<c, d>>) = Taken(Canon(Given(c)), Given(d))
  BY <1>5, <1>6, MergeTwo
<1>8. merge_args(<<c, d>>) = Canon(Said(k))
  <2>1. Canon(Given(c)) = a
    BY <1>5, <1>6 DEF Canon
  <2>2. Taken(Taken(EmptyArgs, First), both) = Taken(EmptyArgs, First \o both)
    BY <1>2, TakenConcat
  <2> QED BY <1>2, <1>5, <1>6, <1>7, <2>1, <2>2 DEF Canon
<1>9. to_list(Canon(Said(k))) = FlattenSeq([i \in DOMAIN Said(k) |-> Words(Said(k), i)])
  BY <1>1, <1>2, WordsOf
<1> QED BY <1>4, <1>8, <1>9 DEF n

LEMMA ArgvIs == IInv => ArgvLayering
<1> SUFFICES ASSUME IInv, NEW k \in Started PROVE ran[k].argv = AskedArgv(k)
  BY DEF ArgvLayering
<1>1. PICK rank, base, before, after : Runs(k, rank, base, before, after)
  BY RunIs
<1>2. phase = "submitted" /\ Known(k) /\ Index(k) \in 1..Tasks(Chosen)
  BY RunIs
<1> DEFINE words == TaskArgs(Chosen, Index(k))
           said == Said(k)
<1>3. ran[k].argv = [i \in DOMAIN words |-> ExpandWord(words[i], AskedEnv(k))]
  <2>1. ran[k].argv = after.argv /\ AskedEnv(k) = before.env
    BY <1>1 DEF Runs, RunOf
  <2>2. after.argv = before.argv
    BY <1>1 DEF Runs, Installs, Adds
  <2>3. before.argv = [i \in DOMAIN words |-> ExpandWord(words[i], before.env)]
    BY <1>1 DEF Runs, Starts
  <2> QED BY <2>1, <2>2, <2>3
<1>4. words = FlattenSeq([i \in DOMAIN said |-> Words(said, i)])
  BY <1>2, TaskWords
<1>5. Mentions(ArgLayers(k)[1]) \o Mentions(ArgLayers(k)[2]) \o Mentions(ArgLayers(k)[3]) = said
  <2>1. PICK N, V : Layered(N, V, Index(k))
    BY <1>2, LayersOf DEF IInv
  <2> QED BY <1>2, <2>1, SaidIs
<1> HIDE DEF said
<1> DEFINE all == FlattenSeq([i \in DOMAIN said |-> Words(said, i)])
<1>6. AskedArgv(k) = [i \in DOMAIN all |-> ExpandWord(all[i], AskedEnv(k))]
  BY <1>5 DEF AskedArgv, Words, LastOf, Same
<1> QED BY <1>3, <1>4, <1>6

\* Its words are those of the three layers in their order, a keyword that is repeated
\* keeping its first place and taking its last value, each value in the words it is
\* exported as, expanded once in the task's own environment: for any number of tasks,
\* of arguments and of mentions of one keyword.
THEOREM ArgumentsAreLayered == PipelineSpec => []ArgvLayering
BY ArgvIs, PipelineInvariant, PTL

---------------------------------------------------------------------------
(* Where a task's links, logs and artifacts are *)

Zero(k) == IF IsArray THEN k - 1 ELSE 0
\* $(($name - 1)) in a task's shell, and in its job script.
LEMMA NumberIs ==
  ASSUME NEW env, NEW name \in DOMAIN env, NEW k \in 1..MaxTasks, env[name] = Decimal(k)
  PROVE  TaskNumber(env, name, 1) = k - 1
<1>0. MaxTasks \in Nat
  BY TasksAssumption
<1>1. \A n \in 0..MaxTasks : 1 + n \in 0..MaxTasks + 1 /\ k \in 0..MaxTasks + 1
  BY <1>0
<1>2. \A n \in 0..MaxTasks : Decimal(k) = Decimal(1 + n) => k = 1 + n
  BY <1>1, DecimalAssumption
<1>3. k - 1 \in 0..MaxTasks /\ 1 + (k - 1) = k
  BY <1>0
<1>4. TaskNumber(env, name, 1) = CHOOSE n \in 0..MaxTasks : Decimal(k) = Decimal(1 + n)
  BY DEF TaskNumber
<1> DEFINE n == TaskNumber(env, name, 1)
<1>5. n \in 0..MaxTasks /\ Decimal(k) = Decimal(1 + n)
  BY <1>3, <1>4
<1>6. k = 1 + n /\ n \in 0..MaxTasks
  BY <1>2, <1>5
<1> HIDE DEF n
<1>7. n = k - 1
  BY <1>0, <1>6
<1> QED BY <1>7 DEF n

\* What a directory of a task's own comes to, in any environment that knows it.
Knows(env, k) ==
  /\ IsArray => IndexName(Chosen) \in DOMAIN env /\ env[IndexName(Chosen)] = Decimal(k)
  /\ IsManaged => env["EXEX_ATTEMPT_DIR"] = AttemptDir(attempt)
Place(kind, k) == IF IsManaged THEN <<AttemptDir(attempt), kind, 0>> ELSE <<Directory, kind, Zero(k)>>
LEMMA PlaceOf ==
  ASSUME IInv, phase = "submitted", NEW k, Known(k), NEW env, Knows(env, k), NEW host
  PROVE  /\ Evaluate(link_directory(Chosen, IsManaged, Directory), env, host) = Place("links", k)
         /\ Evaluate(artifact_destination(Chosen, IsManaged, Directory), env, host) = Place("artifacts", k)
<1>1. IsArray => k \in 1..MaxTasks
  <2>1. Width \in 1..MaxTasks \/ ~IsArray
    BY Counted DEF IInv, IsArray
  <2> QED BY <2>1, TasksAssumption DEF Known
<1>2. CASE IsManaged
  BY <1>2 DEF link_directory, artifact_destination, Evaluate, Place, Knows
<1>3. CASE ~IsManaged /\ IsArray
  <2> DEFINE name == IndexName(Chosen)
             offset == IndexOffset(Chosen)
  <2>1. offset = 1
    BY <1>3 DEF IndexOffset, ARRAY_TASK_OFFSET, IsArray
  <2>2. TaskNumber(env, name, offset) = k - 1
    BY <1>1, <1>3, <2>1, NumberIs DEF Knows
  <2> HIDE DEF name, offset
  <2>3. /\ link_directory(Chosen, IsManaged, Directory) = <<"task", Directory, "links", name, offset>>
        /\ artifact_destination(Chosen, IsManaged, Directory) = <<"task", Directory, "artifacts", name, offset>>
    BY <1>3 DEF link_directory, artifact_destination, IsArray, name, offset
  <2> QED BY <1>3, <2>2, <2>3 DEF Evaluate, Place, Zero
<1>4. CASE ~IsManaged /\ ~IsArray
  BY <1>4 DEF link_directory, artifact_destination, IsArray, Evaluate, Place, Zero
<1> QED BY <1>2, <1>3, <1>4

LEMMA HostKnows ==
  ASSUME IInv, phase = "submitted", Backend \in {"local", "gridengine", "slurm"}, NEW k, Known(k)
  PROVE  Knows(HostEnv(k), k)
<1>1. Holds(HostEnv(k), k, 0)
  BY HostHolds
<1>2. Payload = Chosen /\ (Width \in Int \/ ~IsArray)
  BY Launched, Counted DEF IInv, IsArray
<1>3. IsArray => k # 0 /\ IndexName(Chosen) = ARRAY_TASK_ID(Backend)
  <2>1. Payload = Chosen
    BY Launched DEF IInv
  <2> QED BY <1>2, <2>1 DEF Known, IndexName, Backend, IsArray
<1> QED BY <1>1, <1>3 DEF Holds, Knows

\* The last directory mounted at the container's own is the task's.
LEMMA Mounted ==
  ASSUME NEW bind, IsSeq(bind), NEW links, NEW binds, binds = bind \o << <<Links, links>> >>, NEW inside,
         inside = {i \in DOMAIN binds : binds[i][1] = Links}
  PROVE  inside # {} /\ binds[CHOOSE i \in inside : \A j \in inside : j <= i][2] = links
<1> DEFINE one == <<Links, links>>
           n == Len(bind)
           last == CHOOSE i \in inside : \A j \in inside : j <= i
<1>1. PICK S : bind \in Seq(S)
  BY DEF IsSeq
<1>2. one[1] = Links /\ one[2] = links
  OBVIOUS
<1> HIDE DEF one
<1>3. n \in Nat /\ DOMAIN binds = 1..n + 1 /\ binds[n + 1] = one
  <2>1. bind \in Seq(S \cup {one})
    BY <1>1
  <2>2. binds = Append(bind, one)
    BY <2>1, AppendIsConcat DEF one
  <2> QED BY <2>1, <2>2, AppendProperties
<1>4. n + 1 \in inside /\ \A j \in inside : j <= n + 1
  BY <1>2, <1>3
<1>5. last \in inside /\ n + 1 <= last /\ last <= n + 1 /\ last \in 1..n + 1
  BY <1>3, <1>4
<1>6. last = n + 1
  BY <1>3, <1>5
<1> QED BY <1>2, <1>3, <1>4, <1>6

\* A task's links land in its own directory, in a container or out of it.
LEMMA LinksAre ==
  ASSUME IInv, NEW k \in Started, NEW rank, NEW base, NEW before, NEW after, Runs(k, rank, base, before, after)
  PROVE  LinksLand(script.built, HostEnv(k), ProcessEnv(k, rank)) = Place("links", k)
<1> DEFINE host == HostEnv(k)
           command == script.built.command
           binds == command.binds
           links == link_directory(Chosen, IsManaged, Directory)
           path == after.env["EXEX_LINKS_FILE"]
           inside == {i \in DOMAIN binds : binds[i][1] = path}
           found == binds[CHOOSE i \in inside : \A j \in inside : j <= i][2]
           type == Chosen.executable.image_type
<1>1. /\ phase = "submitted" /\ Known(k) /\ Index(k) \in 1..Tasks(Chosen)
      /\ Backend \in {"local", "gridengine", "slurm"} /\ Payload = Chosen
      /\ IndexName(Chosen) \notin EnvNames(EnvLayers(k))
  BY RunIs
<1>2. LinksLand(script.built, host, ProcessEnv(k, rank)) = IF inside = {} THEN path ELSE Evaluate(found, host, host)
  <2>1. Source(script.built, host, ProcessEnv(k, rank)) = after
    BY DEF Runs
  <2> QED BY <2>1 DEF LinksLand
<1>3. Commands(command, type, links)
  BY <1>1, CommandOf
<1>4. Knows(host, k)
  BY <1>1, HostKnows
<1>5. PICK env : /\ path = Evaluate(link_path(Chosen, IsManaged, Directory), env, host)
                 /\ IsManaged => env["EXEX_ATTEMPT_DIR"] = host["EXEX_ATTEMPT_DIR"]
                 /\ ~IsManaged => env = before.env
  <2>1. Installs(before, after, Chosen, IsManaged, req.continuation, Directory, HasInputs, HasOutputs, host)
    BY DEF Runs
  <2> QED BY <2>1 DEF Installs
<1> HIDE DEF path
<1>6. CASE type \in Containerised
  <2>1. path = Links
    <3>1. link_path(Chosen, IsManaged, Directory) = <<"literal", Links>>
      BY <1>6 DEF link_path, Links
    <3> QED BY <1>5, <3>1 DEF Evaluate
  <2>2. PICK bind : IsSeq(bind) /\ binds = bind \o << <<Links, links>> >>
    BY <1>3, <1>6 DEF Commands
  <2> HIDE DEF links, binds
  <2>3. inside # {} /\ found = links
    <3>1. inside = {i \in DOMAIN binds : binds[i][1] = Links}
      BY <2>1
    <3> HIDE DEF inside
    <3> QED BY <2>2, <3>1, Mounted
  <2>4. Evaluate(links, host, host) = Place("links", k)
    BY <1>1, <1>4, PlaceOf DEF links
  <2> QED BY <1>2, <2>3, <2>4
<1>7. CASE type \notin Containerised
  <2>1. Knows(env, k)
    <3>1. CASE IsManaged
      <4>1. ~IsArray
        BY <1>1, <3>1, Launched DEF IInv, IsArray
      <4> QED BY <1>4, <1>5, <3>1, <4>1 DEF Knows
    <3>2. CASE ~IsManaged
      <4>1. IsArray => IndexName(Chosen) \in DOMAIN base /\ base[IndexName(Chosen)] = Decimal(k)
        <5>1. Sees(base, k, rank)
          BY DEF Runs
        <5>2. IsArray => k # 0 /\ IndexName(Chosen) = ARRAY_TASK_ID(Backend)
          BY <1>1 DEF Known, IndexName, Backend, IsArray
        <5> QED BY <5>1, <5>2 DEF Sees
      <4>2. before.env = TaskEnv(Chosen, Index(k)) ++ Base(Chosen, base)
        BY DEF Runs, Starts
      <4>3. IndexName(Chosen) \notin DOMAIN TaskEnv(Chosen, Index(k))
        BY <1>1, TaskEnvIs
      <4>4. IsArray => Base(Chosen, base) = base
        BY DEF Base, IsArray
      <4>5. IsArray => IndexName(Chosen) \in DOMAIN before.env /\ before.env[IndexName(Chosen)] = Decimal(k)
        BY <4>1, <4>2, <4>3, <4>4 DEF ++
      <4> QED BY <1>5, <3>2, <4>5 DEF Knows
    <3> QED BY <3>1, <3>2
  <2>2. path = Place("links", k)
    <3>1. link_path(Chosen, IsManaged, Directory) = links
      BY <1>7 DEF link_path
    <3> QED BY <1>1, <1>5, <2>1, <3>1, PlaceOf
  <2>3. Len(path) = 3
    BY <2>2 DEF Place
  <2>4. inside = {}
    <3>1. \A i \in DOMAIN binds : Len(binds[i][1]) = 1
      BY <1>3, <1>7 DEF Commands, Bindable
    <3> QED BY <2>3, <3>1
  <2> QED BY <1>2, <2>2, <2>4
<1> QED BY <1>6, <1>7

LEMMA Triple == ASSUME NEW a, NEW b, NEW c PROVE Append(<<a, b>>, c) = <<a, b, c>>
<1> DEFINE S == {a, b, c}
           two == <<a, b>>
           made == Append(two, c)
           three == <<a, b, c>>
<1>1. two \in Seq(S) /\ Len(two) = 2 /\ two[1] = a /\ two[2] = b /\ c \in S
  OBVIOUS
<1>2. three \in Seq(S) /\ Len(three) = 3 /\ three[1] = a /\ three[2] = b /\ three[3] = c
  OBVIOUS
<1> HIDE DEF S, two, three
<1>3. made \in Seq(S) /\ Len(made) = 3 /\ made[1] = a /\ made[2] = b /\ made[3] = c
  BY <1>1
<1> HIDE DEF made
<1>4. \A i \in 1..3 : made[i] = three[i]
  BY <1>2, <1>3
<1>5. made = three
  BY <1>2, <1>3, <1>4, SeqEqual
<1> QED BY <1>5 DEF made, two, three

LEMMA Quadruple == ASSUME NEW a, NEW b, NEW c, NEW d PROVE <<a, b>> \o <<c, d>> = <<a, b, c, d>>
<1> DEFINE S == {a, b, c, d}
           u == <<a, b>>
           v == <<c, d>>
           made == u \o v
           four == <<a, b, c, d>>
<1>1. u \in Seq(S) /\ Len(u) = 2 /\ u[1] = a /\ u[2] = b
  OBVIOUS
<1>2. v \in Seq(S) /\ Len(v) = 2 /\ v[1] = c /\ v[2] = d
  OBVIOUS
<1>3. four \in Seq(S) /\ Len(four) = 4 /\ four[1] = a /\ four[2] = b /\ four[3] = c /\ four[4] = d
  OBVIOUS
<1> HIDE DEF S, u, v, four
<1>4. made \in Seq(S) /\ Len(made) = 4 /\ made[1] = a /\ made[2] = b /\ made[3] = c /\ made[4] = d
  <2>1. /\ made \in Seq(S) /\ Len(made) = Len(u) + Len(v)
        /\ \A i \in 1..Len(u) + Len(v) : made[i] = IF i <= Len(u) THEN u[i] ELSE v[i - Len(u)]
    BY <1>1, <1>2, ConcatProperties
  <2> HIDE DEF made
  <2>2. made[1] = u[1] /\ made[2] = u[2] /\ made[3] = v[1] /\ made[4] = v[2]
    BY <1>1, <1>2, <2>1
  <2> QED BY <1>1, <1>2, <2>1, <2>2
<1> HIDE DEF made
<1>5. \A i \in 1..4 : made[i] = four[i]
  BY <1>3, <1>4
<1>6. made = four
  BY <1>3, <1>4, <1>5, SeqEqual
<1> QED BY <1>6 DEF made, u, v, four

\* The row that the author reads of a task that has started: the catalog's, with
\* the columns of the current attempt over it.
Now == execution_record(record, current)
Columned(k) ==
  /\ record.is_array = IsArray /\ Now.is_array = IsArray
  /\ Now.links_directory = IF IsManaged THEN <<AttemptDir(attempt), "links">> ELSE <<Directory, "links">>
  /\ Now.log_path = IF IsManaged THEN AttemptLog ELSE NoSetting
  /\ Now.native_id = IF IsManaged THEN NativeJob ELSE record.native_id
  /\ Now.backend = record.backend /\ Now.log_directory = record.log_directory /\ Now.job_name = record.job_name
  /\ (HasOutputs /\ (IsManaged => sched[k] = "COMPLETED")) =>
       Now.artifact_directory = IF IsManaged THEN <<AttemptDir(attempt), "artifacts">> ELSE <<Directory, "artifacts">>
LEMMA NowIs == ASSUME IInv, NEW k \in Started PROVE Columned(k)
<1>1. phase = "submitted" /\ k \in DOMAIN ran /\ Known(k)
  BY RunIs
<1>2. /\ Row /\ (IsManaged <=> Managed(Chosen)) /\ (IsManaged => Chosen.kind = "job")
  BY <1>1, Launched DEF IInv, Submitted
<1>3. /\ record.is_array = IsArray /\ record.links_directory = <<Directory, "links">>
      /\ record.log_path = NoSetting /\ (HasOutputs => record.artifact_directory = <<Directory, "artifacts">>)
      /\ record.execution_directory = IF IsManaged THEN Setting(Directory) ELSE NoSetting
      /\ {"is_array", "backend", "log_directory", "job_name"} \subseteq DOMAIN record
  BY <1>2 DEF Row, IsArray, Columns
<1>4. CASE ~IsManaged
  <2>1. Now = record
    BY <1>3, <1>4 DEF Now, execution_record
  <2> QED BY <1>3, <1>4, <2>1 DEF Columned
<1>5. CASE IsManaged
  <2>1. Now = current ++ record
    <3>1. Setting(Directory) # NoSetting
      BY DEF Setting, NoSetting
    <3> QED BY <1>3, <1>5, <3>1 DEF Now, execution_record
  <2>2. k = 0
    BY <1>1, <1>2, <1>5 DEF Known, IsArray
  <2>3. attempt > 0
    <3>1. ran # Nothing
      BY <1>1, NothingOf
    <3> QED BY <1>1, <1>5, <3>1 DEF IInv, Scheduled
  <2>4. /\ DOMAIN current = {"native_id", "links_directory", "log_path", "artifact_directory"}
        /\ current.links_directory = <<AttemptDir(attempt), "links">>
        /\ current.native_id = NativeJob /\ current.log_path = AttemptLog
        /\ (HasOutputs /\ sched[0] = "COMPLETED") =>
             current.artifact_directory = <<AttemptDir(attempt), "artifacts">>
    BY <1>1, <1>5, <2>2, <2>3 DEF IInv, Attempted
  <2>5. /\ \A v \in DOMAIN current : Now[v] = current[v]
        /\ \A v \in DOMAIN record \ DOMAIN current : Now[v] = record[v]
    BY <2>1 DEF ++
  <2>6. /\ Now.is_array = record.is_array /\ Now.backend = record.backend
        /\ Now.log_directory = record.log_directory /\ Now.job_name = record.job_name
    BY <1>3, <2>4, <2>5
  <2>7. /\ Now.links_directory = current.links_directory /\ Now.native_id = current.native_id
        /\ Now.log_path = current.log_path /\ Now.artifact_directory = current.artifact_directory
    BY <2>4, <2>5
  <2> QED BY <1>3, <1>5, <2>2, <2>4, <2>6, <2>7 DEF Columned
<1> QED BY <1>4, <1>5

\* The file that Slurm writes a task's output to is the one that is read.
LEMMA SlurmLog ==
  ASSUME IInv, NEW k \in Started, Backend = "slurm", ~IsManaged
  PROVE  SlurmOutput(k) = <<record.log_directory[2], record.job_name[2], JobId, k>>
<1>1. phase = "submitted" /\ Known(k) /\ LeftToClient /\ Payload = Chosen
  BY RunIs
<1>2. Chosen.executor = executor /\ executor.kind = "slurm"
  BY <1>1, Launched DEF IInv
<1> DEFINE header == script.built.header
           used == WithShifter(Chosen)
           n == IF IsArray THEN Width ELSE 0
           logs == Logs(executor, Directory)
           path == <<"path", logs, SlurmFile(n)>>
           out == <<"output", path>>
           name == <<"str", JobName>>
           named == <<"job-name", name>>
<1>3. SlurmSays(used, n, Directory, header) /\ used.log_directory = executor.log_directory
  BY <1>1, <1>2, HeaderSays DEF IInv, IsArray
<1> HIDE DEF header, used, n
<1>7. Logs(used, Directory) = logs
  BY <1>3 DEF Logs
<1> HIDE DEF logs
<1>8. /\ out \in header /\ \A d \in header : d[1] = "output" => d = out
      /\ named \in header /\ \A d \in header : d[1] = "job-name" => d = named
  BY <1>3, <1>7 DEF SlurmSays
<1>9. out[1] = "output" /\ out[2] = path /\ named[1] = "job-name" /\ named[2] = name
  OBVIOUS
<1>10. path[2] = logs /\ path[3] = SlurmFile(n) /\ name[2] = JobName
  OBVIOUS
<1> HIDE DEF out, path, named, name
<1>11. \A default : Directive(header, "output", default) = path /\ Directive(header, "job-name", default) = name
  <2>1. "output" \in Names(header) /\ "job-name" \in Names(header)
    BY <1>8, <1>9 DEF Names
  <2> QED BY <1>8, <1>9, <2>1 DEF Directive
<1>12. (IF Last(SlurmFile(n)) = "%a" THEN k ELSE 0) = k
  <2>1. CASE IsArray
    <3>1. n > 0
      BY <1>1, <2>1, Counted, TasksAssumption DEF IInv, n, IsArray
    <3>2. SlurmFile(n) = <<"%x", "%A", "%a">>
      BY <3>1 DEF SlurmFile
    <3> QED BY <3>2 DEF Last
  <2>2. CASE ~IsArray
    <3>1. SlurmFile(n) = <<"%x", "%j">> /\ k = 0
      BY <1>1, <2>2 DEF SlurmFile, n, Known
    <3> QED BY <3>1
  <2> QED BY <2>1, <2>2
<1>13. record.log_directory = Setting(Absolute(Home, logs)) /\ record.job_name = Setting(JobName)
  BY <1>1, <1>2 DEF IInv, Submitted, Row, logs
<1>14. SlurmOutput(k) = <<Absolute(Home, logs), JobName, JobId, k>>
  BY <1>1, <1>10, <1>11, <1>12 DEF SlurmOutput, header, Home
<1> QED BY <1>13, <1>14 DEF Setting

LEMMA OwnIs == IInv => TaskReadsItsOwn
<1> SUFFICES ASSUME IInv, NEW k \in Started
             PROVE  LET task == IF record.is_array THEN k - 1 ELSE 0
                        now  == execution_record(record, current)
                    IN  /\ ran[k].exit = 0 /\ KnownTask(record, task)
                        /\ Backend # "local" =>
                             native_id(now, task) = <<IF IsManaged THEN NativeJob ELSE JobId, k>>
                        /\ ran[k].links = get_links(record, current, task)
                        /\ HasLogs(record) => ran[k].log = get_logs(record, current, task)
                        /\ (HasOutputs /\ (IsManaged => sched[k] = "COMPLETED")) =>
                             ran[k].artifacts = artifacts(record, current, task)
                        /\ (Backend = "slurm" /\ "SLURM_PROCID" \notin EnvNames(EnvLayers(k))) =>
                             ran[k].env["SLURM_PROCID"] = Decimal(ran[k].rank)
  BY DEF TaskReadsItsOwn
<1> DEFINE task == Zero(k)
<1>1. PICK rank, base, before, after : Runs(k, rank, base, before, after)
  BY RunIs
<1>2. /\ phase = "submitted" /\ Known(k) /\ Index(k) \in 1..Tasks(Chosen) /\ Payload = Chosen
      /\ Backend \in {"local", "gridengine", "slurm"} /\ Columned(k)
  BY RunIs, NowIs
<1>3. (IF record.is_array THEN k - 1 ELSE 0) = task
  BY <1>2 DEF Columned, Zero
<1>4. Row /\ (IsManaged <=> Managed(Chosen)) /\ (IsManaged => ~IsArray /\ Backend = "slurm")
      /\ script.directory = Directory /\ Chosen.executor.kind = Backend
      /\ (Backend = "slurm" /\ ~IsManaged => Chosen.executor.mode # "salloc")
  <2>1. Row /\ script.directory = Directory /\ Chosen.executor.kind = Backend
    BY <1>2 DEF IInv, Submitted, Backend
  <2>2. (IsManaged <=> Managed(Chosen)) /\ (IsManaged => ~IsArray /\ Backend = "slurm")
    BY <1>2, Launched DEF IInv, IsArray
  <2> QED BY <2>1, <2>2 DEF Managed
<1>5. (IsArray => k \in Int /\ Width \in Int) /\ (~IsArray => k = 0)
  BY <1>2, Counted, TasksAssumption DEF Known, IInv, IsArray
<1>6. after.exit = 0 /\ ran[k].exit = 0 /\ ran[k].env = after.env /\ ran[k].rank = rank
      /\ ran[k].log = Output(k)
      /\ ran[k].links = LinksLand(script.built, HostEnv(k), ProcessEnv(k, rank))
      /\ (HasOutputs => ran[k].artifacts = ArtifactsLand(script.built, HostEnv(k)))
  <2>1. after.exit = 0
    BY <1>1 DEF Runs, Installs, Adds
  <2>2. Source(script.built, HostEnv(k), ProcessEnv(k, rank)) = after /\ ran[k] = RunOf(k, rank)
    BY <1>1 DEF Runs
  <2> QED BY <2>1, <2>2 DEF RunOf
<1>7. KnownTask(record, task)
  <2>1. record.task_count = Tasks(Chosen)
    BY <1>4 DEF Row
  <2>2. CASE IsArray
    <3>1. Tasks(Chosen) = Width /\ k \in 1..Width /\ Width \in Nat
      BY <1>2, <2>2, Counted, TasksAssumption DEF IInv, IsArray, Known
    <3> QED BY <2>1, <2>2, <3>1 DEF KnownTask, Zero
  <2>3. CASE ~IsArray
    <3>1. Tasks(Chosen) = 1
      BY <1>2, <2>3, Counted DEF IInv, IsArray
    <3> QED BY <2>1, <2>3, <3>1 DEF KnownTask, Zero
  <2> QED BY <2>2, <2>3
<1>8. (IF IsArray THEN task + 1 ELSE 0) = k
  BY <1>2, <1>5 DEF Zero, Known
<1>9. Backend # "local" => native_id(Now, task) = <<IF IsManaged THEN NativeJob ELSE JobId, k>>
  <2>1. Backend # "local" /\ ~IsManaged => record.native_id = JobId
    BY <1>2, <1>4 DEF Row
  <2> HIDE DEF task
  <2> QED BY <1>2, <1>8, <2>1 DEF Columned, native_id
<1>10. Place("links", k) = Append(Now.links_directory, task)
  <2>1. CASE IsManaged
    <3>1. task = 0
      BY <1>4, <2>1 DEF Zero
    <3> QED BY <1>2, <2>1, <3>1, Triple DEF Place, Columned
  <2>2. CASE ~IsManaged
    BY <1>2, <2>2, Triple DEF Place, Columned
  <2> QED BY <2>1, <2>2
<1>11. ran[k].links = get_links(record, current, task)
  <2>1. ran[k].links = Place("links", k)
    BY <1>1, <1>6, LinksAre
  <2> QED BY <1>10, <2>1 DEF get_links, Now
<1>12. HasLogs(record) => ran[k].log = get_logs(record, current, task)
  <2> SUFFICES ASSUME HasLogs(record) PROVE Output(k) = get_logs(record, current, task)
    BY <1>6
  <2>1. Backend \in {"local", "slurm"} /\ Now.backend = Backend
    BY <1>2, <1>4 DEF HasLogs, Row, Columned
  <2>2. CASE IsManaged
    <3>1. Output(k) = AttemptLog
      BY <1>4, <2>2 DEF Output
    <3>2. Now.log_path = AttemptLog
      BY <1>2, <2>2 DEF Columned
    <3>3. AttemptLog # NoSetting
      BY DEF AttemptLog, NoSetting
    <3> QED BY <3>1, <3>2, <3>3 DEF get_logs, Now
  <2>3. CASE ~IsManaged /\ Backend = "local"
    <3>1. Now.log_path = NoSetting /\ Now.log_directory[2] = Directory
      BY <1>2, <1>4, <2>3 DEF Columned, Row, Setting
    <3>2. get_logs(record, current, task) = <<Directory, "task", task>>
      BY <2>1, <2>3, <3>1 DEF get_logs, Now
    <3>3. (IF k = 0 THEN 0 ELSE k - ARRAY_TASK_OFFSET) = task
      <4>1. IsArray => k # 0
        BY <1>2, <1>5 DEF Known
      <4> QED BY <1>2, <4>1 DEF Known, Zero, ARRAY_TASK_OFFSET
    <3> HIDE DEF task
    <3>4. Output(k) = <<Directory, "task", task>>
      BY <1>4, <2>3, <3>3 DEF Output
    <3> QED BY <3>2, <3>4
  <2>4. CASE ~IsManaged /\ Backend = "slurm"
    <3>1. Output(k) = SlurmOutput(k)
      BY <2>4 DEF Output
    <3>2. Now.log_path = NoSetting /\ Now.log_directory = record.log_directory /\ Now.job_name = record.job_name
      BY <1>2, <2>4 DEF Columned
    <3>3. native_id(Now, task) = <<JobId, k>>
      BY <1>9, <2>4
    <3> HIDE DEF task
    <3>4. get_logs(record, current, task) = <<record.log_directory[2], record.job_name[2]>> \o <<JobId, k>>
      BY <2>1, <2>4, <3>2, <3>3 DEF get_logs, Now
    <3> QED BY <2>4, <3>1, <3>4, SlurmLog, Quadruple
  <2> QED BY <2>1, <2>2, <2>3, <2>4
<1>13. (HasOutputs /\ (IsManaged => sched[k] = "COMPLETED")) => ran[k].artifacts = artifacts(record, current, task)
  <2> SUFFICES ASSUME HasOutputs, IsManaged => sched[k] = "COMPLETED"
               PROVE  ran[k].artifacts = artifacts(record, current, task)
    OBVIOUS
  <2>1. script.built.artifact_dir = artifact_destination(Chosen, IsManaged, Directory)
    <3>1. script.built = build(Chosen, Directory, req.continuation, HasInputs, HasOutputs)
      BY <1>2 DEF IInv, Submitted, HasInputs
    <3>2. IsManaged = Managed(Chosen)
      BY <3>1 DEF IsManaged, build, Managed
    <3> QED BY <3>1, <3>2 DEF build, Managed
  <2>2. ran[k].artifacts = Place("artifacts", k)
    <3>1. Knows(HostEnv(k), k)
      BY <1>2, HostKnows
    <3>2. Evaluate(artifact_destination(Chosen, IsManaged, Directory), HostEnv(k), HostEnv(k)) = Place("artifacts", k)
      BY <1>2, <3>1, PlaceOf
    <3> QED BY <1>6, <2>1, <3>2 DEF ArtifactsLand
  <2> DEFINE root == Now.artifact_directory
  <2>3. root = IF IsManaged THEN <<AttemptDir(attempt), "artifacts">> ELSE <<Directory, "artifacts">>
    BY <1>2 DEF Columned
  <2>4. root # NoSetting
    BY <2>3 DEF NoSetting
  <2>5. Place("artifacts", k) = Append(root, task)
    <3>1. CASE IsManaged
      <4>1. task = 0
        BY <1>4, <3>1 DEF Zero
      <4> HIDE DEF root
      <4> QED BY <2>3, <3>1, <4>1, Triple DEF Place
    <3>2. CASE ~IsManaged
      <4> HIDE DEF root
      <4> QED BY <2>3, <3>2, Triple DEF Place
    <3> QED BY <3>1, <3>2
  <2> QED BY <2>2, <2>4, <2>5 DEF artifacts, Now
<1>14. (Backend = "slurm" /\ "SLURM_PROCID" \notin EnvNames(EnvLayers(k))) =>
          ran[k].env["SLURM_PROCID"] = Decimal(ran[k].rank)
  <2> SUFFICES ASSUME Backend = "slurm", "SLURM_PROCID" \notin EnvNames(EnvLayers(k))
               PROVE  after.env["SLURM_PROCID"] = Decimal(rank)
    BY <1>6
  <2>1. "SLURM_PROCID" \in DOMAIN base /\ base["SLURM_PROCID"] = Decimal(rank)
    BY <1>1 DEF Runs, Sees
  <2>2. "SLURM_PROCID" \in DOMAIN Base(Chosen, base) /\ Base(Chosen, base)["SLURM_PROCID"] = base["SLURM_PROCID"]
    <3>1. CASE Chosen.kind = "array"
      BY <2>1, <3>1 DEF Base
    <3>2. CASE Chosen.kind # "array"
      <4> DEFINE own == Entry("EXEX_TASK_ID", Decimal(0))
      <4>1. DOMAIN own = {"EXEX_TASK_ID"}
        BY EntryOf
      <4>2. Base(Chosen, base) = own ++ base
        BY <3>2 DEF Base
      <4> HIDE DEF own
      <4>3. "SLURM_PROCID" \notin DOMAIN own
        BY <4>1
      <4>4. "SLURM_PROCID" \in DOMAIN (own ++ base) /\ (own ++ base)["SLURM_PROCID"] = base["SLURM_PROCID"]
        BY <2>1, <4>3 DEF ++
      <4> QED BY <4>2, <4>4
    <3> QED BY <3>1, <3>2
  <2>3. "SLURM_PROCID" \notin DOMAIN TaskEnv(Chosen, Index(k))
    BY <1>2, TaskEnvIs
  <2>4. before.env = TaskEnv(Chosen, Index(k)) ++ Base(Chosen, base)
    BY <1>1 DEF Runs, Starts
  <2>5. "SLURM_PROCID" \in DOMAIN before.env /\ before.env["SLURM_PROCID"] = Decimal(rank)
    BY <2>1, <2>2, <2>3, <2>4 DEF ++
  <2>6. Adds(before, after, Told(IsManaged, req.continuation, HasInputs, HasOutputs))
    BY <1>1 DEF Runs, Installs
  <2>7. "SLURM_PROCID" \notin Told(IsManaged, req.continuation, HasInputs, HasOutputs)
    BY DEF Told
  <2> QED BY <2>5, <2>6, <2>7 DEF Adds
<1> HIDE DEF task
<1> QED BY <1>3, <1>6, <1>7, <1>9, <1>11, <1>12, <1>13, <1>14 DEF Now

\* Every task that ran reads and writes where the author later looks for it: native id,
\* links, log and artifacts, whichever backend, array index or attempt it has.
THEOREM TasksFindTheirOwn == PipelineSpec => []TaskReadsItsOwn
BY OwnIs, PipelineInvariant, PTL

---------------------------------------------------------------------------
(* What the scheduler is asked for *)

LEMMA SlurmSeconds == ASSUME NEW n \in Nat PROVE Seconds(SlurmTime(n)) = n
<1> DEFINE days == n \div 86400
           rest == n % 86400
           h == rest \div 3600
           left == rest % 3600
           m == left \div 60
           s == rest % 60
           hms == <<h, m, s>>
<1>1. days \in Nat /\ rest \in Nat /\ n = 86400 * days + rest
  OBVIOUS
<1>2. SlurmTime(n) = IF days > 0 THEN <<days>> \o hms ELSE hms
  BY DEF SlurmTime
<1> HIDE DEF days, rest
<1>3. h \in Nat /\ left \in Nat /\ rest = 3600 * h + left
  BY <1>1
<1>4. m \in Nat /\ s \in Nat /\ left = 60 * m + s
  BY <1>1, <1>3
<1> HIDE DEF h, left, m, s
<1>5. CASE days > 0
  <2>1. <<days>> \o hms = <<days, h, m, s>>
    <3> DEFINE S == {days, h, m, s}
               u == <<days>>
               made == u \o hms
               four == <<days, h, m, s>>
    <3>1. u \in Seq(S) /\ Len(u) = 1 /\ u[1] = days
      OBVIOUS
    <3>2. hms \in Seq(S) /\ Len(hms) = 3 /\ hms[1] = h /\ hms[2] = m /\ hms[3] = s
      OBVIOUS
    <3>3. four \in Seq(S) /\ Len(four) = 4 /\ four[1] = days /\ four[2] = h /\ four[3] = m /\ four[4] = s
      OBVIOUS
    <3> HIDE DEF S, u, hms, four
    <3>4. /\ made \in Seq(S) /\ Len(made) = Len(u) + Len(hms)
          /\ \A i \in 1..Len(u) + Len(hms) : made[i] = IF i <= Len(u) THEN u[i] ELSE hms[i - Len(u)]
      BY <3>1, <3>2, ConcatProperties
    <3> HIDE DEF made
    <3>5. Len(made) = 4 /\ made[1] = u[1] /\ made[2] = hms[1] /\ made[3] = hms[2] /\ made[4] = hms[3]
      BY <3>1, <3>2, <3>4
    <3>6. \A i \in 1..4 : made[i] = four[i]
      BY <3>1, <3>2, <3>3, <3>5
    <3>7. made = four
      BY <3>3, <3>4, <3>5, <3>6, SeqEqual
    <3> QED BY <3>7 DEF made, u, hms, four
  <2>2. SlurmTime(n) = <<days, h, m, s>>
    BY <1>2, <1>5, <2>1
  <2>3. Seconds(SlurmTime(n)) = 86400 * days + 3600 * h + 60 * m + s
    BY <2>2 DEF Seconds
  <2> QED BY <1>1, <1>3, <1>4, <2>3
<1>6. CASE ~(days > 0)
  <2>1. Seconds(SlurmTime(n)) = 3600 * h + 60 * m + s
    BY <1>2, <1>6 DEF Seconds
  <2> QED BY <1>1, <1>3, <1>4, <1>6, <2>1
<1> QED BY <1>5, <1>6

LEMMA SgeSeconds == ASSUME NEW n \in Nat PROVE Seconds(SgeTime(n)) = n
<1> DEFINE h == n \div 3600
           left == n % 3600
           m == left \div 60
           s == n % 60
<1>1. h \in Nat /\ left \in Nat /\ n = 3600 * h + left
  OBVIOUS
<1>2. m \in Nat /\ s \in Nat /\ left = 60 * m + s
  BY <1>1
<1>3. SgeTime(n) = <<h, m, s>>
  BY DEF SgeTime
<1> HIDE DEF h, left, m, s
<1>4. Seconds(SgeTime(n)) = 3600 * h + 60 * m + s
  BY <1>3 DEF Seconds
<1> QED BY <1>1, <1>2, <1>4

\* The driver of a managed job asks what the header of its script says.
Attached == IsManaged /\ Payload.executor.mode = "salloc"
Asked ==
  IF Attached THEN script.driver.salloc
  ELSE IF IsManaged THEN script.driver.header ELSE script.built.header
GpuNames == GpuOptions \cup {"gres"}
LEMMA AskedIs ==
  ASSUME IInv, phase = "submitted", Backend = "slurm"
  PROVE  /\ \A d : d[1] \in {"time", "h_rt"} \cup GpuNames => (d \in Asked <=> d \in script.built.header)
         /\ \A d \in script.built.header : Attached /\ d[1] \in GpuNames => d \in script.driver.step
<1> DEFINE header == script.built.header
<1>1. /\ Payload = Chosen /\ (IsManaged <=> Managed(Chosen)) /\ Chosen.executor = executor
      /\ executor.kind = "slurm" /\ (IsManaged => Chosen.kind = "job")
  BY Launched DEF IInv
<1>2. executor.mode \in {"sbatch", "salloc"}
  BY <1>1, SlurmAsked DEF IInv, IsExecutor
<1>3. CASE ~IsManaged
  BY <1>3 DEF Asked, Attached
<1>4. CASE IsManaged
  <2> DEFINE logs == Absolute(Home, Logs(Chosen.executor, Directory))
  <2>1. header = create_job_script_header(Chosen, 0, Directory)
    BY <1>1, <1>4, HeaderOf DEF IInv
  <2>2. script.driver = managed_script(Chosen, req.pause_before, Directory, logs)
    BY <1>1, <1>4 DEF IInv, Submitted
  <2> HIDE DEF header, logs
  <2>3. script.driver.salloc = salloc_options(header) /\ script.driver.step = step_options(header)
    BY <2>1, <2>2 DEF managed_script
  <2>4. executor.mode = "sbatch" =>
          script.driver.header = header \cup {<<"requeue", <<"none">> >>, <<"signal", <<"B:USR1", req.pause_before>> >>,
                                              <<"open-mode", <<"str", "append">> >>}
    BY <1>1, <2>1, <2>2 DEF managed_script
  <2>5. \A d : d[1] \in {"time", "h_rt"} \cup GpuNames => (d \in salloc_options(header) <=> d \in header)
    BY DEF salloc_options, GpuNames, GpuOptions
  <2>6. \A d : d[1] \in GpuNames => (d \in step_options(header) <=> d \in header)
    BY DEF step_options, GpuNames
  <2>7. ASSUME NEW d, d[1] \in {"time", "h_rt"} \cup GpuNames
        PROVE  d \notin {<<"requeue", <<"none">> >>, <<"signal", <<"B:USR1", req.pause_before>> >>,
                         <<"open-mode", <<"str", "append">> >>}
    BY <2>7 DEF GpuNames, GpuOptions
  <2>8. CASE executor.mode = "salloc"
    <3>1. Attached /\ Asked = salloc_options(header)
      BY <1>1, <1>4, <2>3, <2>8 DEF Attached, Asked
    <3> QED BY <2>3, <2>5, <2>6, <3>1 DEF header
  <2>9. CASE executor.mode = "sbatch"
    <3>1. ~Attached /\ Asked = script.driver.header
      BY <1>1, <1>4, <2>9 DEF Attached, Asked
    <3> QED BY <2>4, <2>7, <2>9, <3>1 DEF header
  <2> QED BY <1>2, <2>8, <2>9
<1> QED BY <1>3, <1>4

\* The walltime is asked for once, and to the second.
TimesIn(asked) == {Seconds(t) : t \in {d[2][2] : d \in {d \in asked : d[1] \in {"time", "h_rt"}}}}
LEMMA TimesOf ==
  ASSUME NEW asked, NEW name \in {"time", "h_rt"}, NEW t, NEW limited \in BOOLEAN,
         limited => <<name, <<"time", t>> >> \in asked,
         \A d \in asked : d[1] \in {"time", "h_rt"} => limited /\ d = <<name, <<"time", t>> >>
  PROVE  TimesIn(asked) = IF limited THEN {Seconds(t)} ELSE {}
<1> DEFINE value == <<"time", t>>
           it == <<name, value>>
           these == {d \in asked : d[1] \in {"time", "h_rt"}}
           times == {d[2][2] : d \in these}
<1>1. it[1] = name /\ it[2] = value /\ value[2] = t
  OBVIOUS
<1>2. (limited => it \in asked) /\ \A d \in asked : d[1] \in {"time", "h_rt"} => limited /\ d = it
  OBVIOUS
<1> HIDE DEF it, value
<1>3. these = IF limited THEN {it} ELSE {}
  BY <1>1, <1>2
<1> HIDE DEF these
<1>4. times = IF limited THEN {t} ELSE {}
  BY <1>1, <1>3
<1> HIDE DEF times
<1>5. {Seconds(u) : u \in times} = IF limited THEN {Seconds(t)} ELSE {}
  BY <1>4
<1> QED BY <1>5 DEF TimesIn, times, these

Wanted ==
  IF req.requirements = Nothing THEN req.executor.walltime ELSE _convert_time(req.requirements.walltime)
LEMMA WalltimeIs ==
  ASSUME IInv, phase = "submitted", Backend # "local"
  PROVE  /\ executor.walltime = Wanted
         /\ Wanted = <<"none">> \/ (Wanted # <<"none">> /\ Wanted[2] \in Nat)
<1>1. PICK env \in Environments : executor = ExecutorIn(env)
  BY DEF IInv, Packaged
<1>2. executor.kind # "local"
  BY Launched DEF IInv
<1>3. IsRequest(req)
  BY Requested DEF IInv
<1>4. CASE req.requirements = Nothing
  <2>1. executor = req.executor /\ IsExecutor(executor)
    BY <1>1, <1>3, <1>4 DEF ExecutorIn, IsRequest
  <2>2. executor.walltime = <<"none">> \/ (executor.walltime[1] = "seconds" /\ executor.walltime[2] \in Nat)
    BY <1>2, <2>1 DEF IsExecutor
  <2>3. executor.walltime[1] = "seconds" => executor.walltime # <<"none">>
    OBVIOUS
  <2> QED BY <1>4, <2>1, <2>2, <2>3 DEF Wanted
<1>5. CASE req.requirements # Nothing
  <2> DEFINE w == req.requirements.walltime
             asked == _convert_time(w)
  <2>1. \/ w = <<"none">>
        \/ w[1] = "int" /\ w[2] \in Nat
        \/ w[1] = "timedelta" /\ w[2] \in Nat /\ w[3] \in Nat
    BY <1>3, <1>5 DEF IsRequest, IsRequirements, Nothing
  <2>2. executor.walltime = asked
    BY <1>1, <1>5 DEF ExecutorIn, UclGridEngine, _myriad_executor_fn, _cs_executor_fn, GridEngine
  <2> HIDE DEF w
  <2>3. CASE w = <<"none">>
    <3>1. asked = <<"none">>
      BY <2>3 DEF _convert_time
    <3> QED BY <1>5, <2>2, <3>1 DEF Wanted, w
  <2>4. CASE w[1] = "int" /\ w[2] \in Nat
    <3>1. asked = <<"seconds", w[2]>>
      BY <2>4 DEF _convert_time
    <3>2. asked # <<"none">> /\ asked[2] \in Nat
      BY <2>4, <3>1
    <3> QED BY <1>5, <2>2, <3>2 DEF Wanted, w
  <2>5. CASE w[1] = "timedelta" /\ w[2] \in Nat /\ w[3] \in Nat
    <3>1. asked = <<"seconds", 86400 * w[2] + w[3]>>
      BY <2>5 DEF _convert_time
    <3>2. asked # <<"none">> /\ asked[2] \in Nat
      BY <2>5, <3>1
    <3> QED BY <1>5, <2>2, <3>2 DEF Wanted, w
  <2> QED BY <2>1, <2>3, <2>4, <2>5
<1> QED BY <1>4, <1>5

LEMMA TimesAre ==
  ASSUME IInv, phase = "submitted", Backend # "local", LeftToClient
  PROVE  TimesIn(Asked) = IF Wanted = <<"none">> THEN {} ELSE {Wanted[2]}
<1> DEFINE limited == executor.walltime # <<"none">>
           n == executor.walltime[2]
           m == IF Chosen.kind = "array" THEN Width ELSE 0
           header == script.built.header
<1>1. /\ Payload = Chosen /\ Chosen.executor = executor /\ Backend = executor.kind
      /\ executor.kind \in {"slurm", "gridengine"} /\ (IsManaged => Backend = "slurm")
  BY Launched, ExecutorKind DEF IInv
<1>3. /\ executor.kind = "slurm" => /\ SlurmSays(WithShifter(Chosen), m, Directory, header)
                                   /\ WithShifter(Chosen).walltime = executor.walltime
      /\ executor.kind = "gridengine" => GridSays(executor, m, header)
  BY <1>1, HeaderSays DEF IInv
<1>4. executor.walltime = Wanted /\ (limited => n \in Nat)
  BY WalltimeIs
<1> HIDE DEF m, header
<1>5. CASE executor.kind = "slurm"
  <2> DEFINE used == WithShifter(Chosen)
             t == SlurmTime(n)
             it == <<"time", <<"time", t>> >>
  <2>2. SlurmSays(used, m, Directory, header) /\ used.walltime = executor.walltime
    BY <1>3, <1>5
  <2> HIDE DEF used
  <2>5. /\ limited => it \in header
        /\ \A d \in header : d[1] \in {"time", "h_rt"} => limited /\ d = it
    BY <2>2 DEF SlurmSays
  <2>6. it[1] = "time"
    OBVIOUS
  <2>7. \A d : d[1] \in {"time", "h_rt"} => (d \in Asked <=> d \in header)
    BY <1>1, <1>5, AskedIs DEF header
  <2>8. /\ limited => it \in Asked
        /\ \A d \in Asked : d[1] \in {"time", "h_rt"} => limited /\ d = it
    BY <2>5, <2>6, <2>7
  <2> HIDE DEF limited, t
  <2>9. TimesIn(Asked) = IF limited THEN {Seconds(t)} ELSE {}
    <3>1. limited \in BOOLEAN
      BY DEF limited
    <3> QED BY <2>8, <3>1, TimesOf
  <2> QED BY <1>4, <2>9, SlurmSeconds DEF limited, t
<1>6. CASE executor.kind = "gridengine"
  <2> DEFINE t == SgeTime(n)
             it == <<"h_rt", <<"time", t>> >>
  <2>2. GridSays(executor, m, header)
    BY <1>3, <1>6
  <2>3. Asked = header
    BY <1>1, <1>6 DEF Asked, Attached, header
  <2>4. /\ limited => it \in Asked
        /\ \A d \in Asked : d[1] \in {"time", "h_rt"} => limited /\ d = it
    BY <2>2, <2>3 DEF GridSays
  <2> HIDE DEF limited, t
  <2>5. TimesIn(Asked) = IF limited THEN {Seconds(t)} ELSE {}
    <3>1. limited \in BOOLEAN
      BY DEF limited
    <3> QED BY <2>4, <3>1, TimesOf
  <2> QED BY <1>4, <2>5, SgeSeconds DEF limited, t
<1> QED BY <1>1, <1>5, <1>6

\* A container that is told to use GPUs has some.
LEMMA GpuAsked ==
  ASSUME IInv, phase = "submitted", Backend = "slurm", executor.skip_directives = {}, script.built.command.gpu
  PROVE  AsksGpu(Asked) /\ (Attached => AsksGpu(script.driver.step))
<1> DEFINE header == script.built.header
           m == IF Chosen.kind = "array" THEN Width ELSE 0
           links == link_directory(Chosen, Managed(Chosen), Directory)
           env == create_environment_command(Chosen)
           type == Chosen.executable.image_type
           wants == is_gpu_requested(Chosen.executor)
<1>1. Chosen.executor = executor /\ executor.kind = "slurm"
  BY Launched DEF IInv
<1>2. IsExecutor(executor)
  BY <1>1, SlurmAsked DEF IInv
<1>3. type \in Containerised /\ wants
  <2>1. script.built.command = slurm_entrypoint_commands(Chosen, links)
    BY DEF IInv, Submitted, build, Managed
  <2>2. PICK given : slurm_entrypoint_commands(Chosen, links) = create_entrypoint_commands(Chosen, links, given)
    BY DEF slurm_entrypoint_commands
  <2> HIDE DEF links, type, wants
  <2>3. create_entrypoint_commands(Chosen, links, given).gpu
    BY <2>1, <2>2
  <2>4. type \notin Containerised => ~create_entrypoint_commands(Chosen, links, given).gpu
    BY DEF create_entrypoint_commands, shifter_command, Containerised, type
  <2>5. type = "singularity" => create_entrypoint_commands(Chosen, links, given).gpu = wants
    BY DEF create_entrypoint_commands, singularity_command, type, wants
  <2>6. type = "docker" => create_entrypoint_commands(Chosen, links, given).gpu = wants
    BY DEF create_entrypoint_commands, docker_command, type, wants
  <2> QED BY <2>3, <2>4, <2>5, <2>6 DEF Containerised
<1>4. header = slurm_header(executor, m, Directory)
  <2>1. WithShifter(Chosen) = executor
    BY <1>1, <1>3 DEF WithShifter, Containerised
  <2> QED BY <1>1, <2>1, HeaderOf DEF create_job_script_header, IInv
<1> HIDE DEF header, m, type, wants
<1>5. \A d \in executor.resources : Truthy(d[2]) => d \in header
  BY <1>4 DEF slurm_header, slurm_lines, Finish
<1>6. PICK d \in executor.resources :
        \/ d[1] \in GpuOptions /\ Truthy(d[2]) /\ Text(d[2]) # "0"
        \/ d[1] = "gres" /\ NamesGpu(d[2][2])
  BY <1>1, <1>3 DEF is_gpu_requested, wants
<1>7. d[1] = "gres" => Truthy(d[2])
  <2>1. d[1] = "gres" => d[2][1] = "gres"
    BY <1>1, <1>2, <1>6 DEF IsExecutor
  <2>2. /\ <<"none">>[1] = "none" /\ <<"int", 0>>[1] = "int" /\ <<"str", "">>[1] = "str"
        /\ <<"bool", FALSE>>[1] = "bool"
    OBVIOUS
  <2> QED BY <2>1, <2>2 DEF Truthy
<1>8. d \in header /\ d[1] \in GpuNames
  BY <1>5, <1>6, <1>7 DEF GpuNames
<1>9. d \in Asked /\ (Attached => d \in script.driver.step)
  BY <1>8, AskedIs DEF header
<1> QED BY <1>6, <1>9 DEF AsksGpu

---------------------------------------------------------------------------
(* Requirements *)

Type(i) == ResourceType[req.requirements.resources[i][1]]
Needs == DOMAIN req.requirements.resources
Of(i) == req.requirements.resources[i][2]
Has(type) == \E i \in Needs : Type(i) = type
NeedIs(type) ==
  /\ Needed(type) \in Nat
  /\ \A i \in Needs : Type(i) = type => Of(i) = Needed(type)
  /\ Needed(type) > 0 => Has(type)
LEMMA NeededIs ==
  ASSUME IsRequest(req), req.requirements # Nothing, Specified(req.requirements.resources), NEW type
  PROVE  NeedIs(type)
<1> DEFINE R == req.requirements.resources
           named == {need \in ToSet(R) : ResourceType[need[1]] = type}
<1>1. /\ \A i \in DOMAIN R : R[i][2] \in Nat
      /\ \A i, j \in DOMAIN R : ResourceType[R[i][1]] = ResourceType[R[j][1]] => i = j
  BY DEF IsRequest, IsRequirements, Specified, Nothing
<1>2. \A need : need \in named <=> \E i \in DOMAIN R : need = R[i] /\ ResourceType[R[i][1]] = type
  BY DEF ToSet
<1>3. Needed(type) = IF named = {} THEN 0 ELSE (CHOOSE need \in named : TRUE)[2]
  BY DEF Needed
<1>4. (\E i \in DOMAIN R : Type(i) = type) <=> Has(type)
  BY DEF Has, Needs
<1>5. \A i \in DOMAIN R : Type(i) = ResourceType[R[i][1]] /\ Of(i) = R[i][2]
  BY DEF Type, Of
<1>6. Needs = DOMAIN R
  BY DEF Needs
<1> HIDE DEF named, R
<1>7. CASE Has(type)
  <2>1. PICK i \in DOMAIN R : Type(i) = type
    BY <1>4, <1>7
  <2>2. named = {R[i]}
    BY <1>1, <1>2, <1>5, <2>1
  <2>3. (CHOOSE need \in named : TRUE) = R[i]
    BY <2>2
  <2>4. Needed(type) = R[i][2]
    BY <1>3, <2>2, <2>3
  <2> QED BY <1>1, <1>5, <1>6, <1>7, <2>1, <2>4 DEF NeedIs
<1>8. CASE ~Has(type)
  <2>1. named = {}
    BY <1>2, <1>4, <1>5, <1>8
  <2> QED BY <1>3, <1>4, <1>6, <1>8, <2>1 DEF NeedIs
<1> QED BY <1>7, <1>8

\* What each cluster's executor asks for.
IntOf(n) == <<"int", n>>
MyriadSays(e) ==
  /\ \A d : d \in e.resources <=> \/ Has("RAM") /\ d = <<"mem", IntOf(Needed("RAM"))>>
                                  \/ Needed("GPU") > 0 /\ d = <<"gpu", IntOf(Needed("GPU"))>>
  /\ \A d : d \in e.parallel_environments <=> Needed("CPU") > 1 /\ d = <<"smp", IntOf(Needed("CPU"))>>
CsSays(e) ==
  /\ \A d : d \in e.resources <=> \/ Has("RAM") /\ Needed("GPU") = 0 /\ d = <<"h_vmem", IntOf(Needed("RAM"))>>
                                  \/ Has("RAM") /\ d = <<"tmem", IntOf(Needed("RAM"))>>
                                  \/ Needed("GPU") > 0 /\ d = <<"gpu", <<"str", "true">> >>
  /\ \A d : d \in e.parallel_environments <=>
              \/ Needed("GPU") > 1 /\ d = <<"gpu", IntOf(Needed("GPU"))>>
              \/ Needed("CPU") > 1 /\ d = <<"smp", IntOf(Needed("CPU"))>>
UclSays(e, myriad) ==
  /\ e.kind = "gridengine" /\ e.skip_directives = {} /\ e.extra_directives = {} /\ e.requirements = {}
  /\ e.queue = <<"none">> /\ e.project = <<"none">> /\ e.account = <<"none">>
  /\ myriad => MyriadSays(e) /\ e.modules = <<"singularity-env">>
  /\ ~myriad => CsSays(e)
LEMMA UclIs ==
  ASSUME IsRequest(req), req.requirements # Nothing, Specified(req.requirements.resources),
         NEW config, NEW e,
         e = UclGridEngine(JobRequirements(req.requirements.resources, req.requirements.location),
                           req.requirements.walltime, config)
  PROVE  UclSays(e, default_cluster(config) = Setting("myriad"))
<1> DEFINE R == req.requirements.resources
           needs == [i \in DOMAIN R |-> <<ResourceType[R[i][1]], R[i][2]>>]
           walltime == req.requirements.walltime
           myriad == default_cluster(config) = Setting("myriad")
           slots(i) == Slots(Type(i), Of(i))
           mem(i) == Opt(Type(i) = "RAM", "mem", IntOf(Of(i))) \cup Opt(Type(i) = "GPU" /\ Of(i) > 0, "gpu", IntOf(Of(i)))
           gpus == \E i \in Needs : Type(i) = "GPU" /\ Of(i) > 0
           tmem(i) == Opt(Type(i) = "RAM" /\ ~gpus, "h_vmem", IntOf(Of(i))) \cup Opt(Type(i) = "RAM", "tmem", IntOf(Of(i)))
                      \cup Opt(Type(i) = "GPU" /\ Of(i) > 0, "gpu", <<"str", "true">>)
           more(i) == Opt(Type(i) = "GPU" /\ Of(i) > 1, "gpu", IntOf(Of(i))) \cup slots(i)
<1>1. /\ DOMAIN needs = Needs
      /\ \A i \in Needs : needs[i][1] = Type(i) /\ needs[i][2] = Of(i)
  BY DEF Needs, Type, Of
<1>2. JobRequirements(R, req.requirements.location).task_requirements = needs
  BY DEF JobRequirements
<1>3. e = IF myriad THEN _myriad_executor_fn(needs, walltime) ELSE _cs_executor_fn(needs, walltime)
  BY <1>2 DEF UclGridEngine
<1> HIDE DEF R, needs, walltime, myriad
<1>4. NeedIs("RAM") /\ NeedIs("GPU") /\ NeedIs("CPU")
  BY NeededIs
<1>5. \A i \in Needs : Of(i) \in Nat
  BY DEF IsRequest, IsRequirements, Nothing, Needs, Of
<1>6. gpus <=> Needed("GPU") > 0
  BY <1>4, <1>5 DEF NeedIs, Has
<1>7. ASSUME NEW d PROVE (\E i \in Needs : d \in slots(i)) <=> Needed("CPU") > 1 /\ d = <<"smp", IntOf(Needed("CPU"))>>
  <2>1. \A i \in Needs : d \in slots(i) <=> Type(i) = "CPU" /\ Of(i) > 1 /\ d = <<"smp", IntOf(Of(i))>>
    BY DEF Slots, Opt, IntOf
  <2> HIDE DEF slots
  <2> QED BY <1>4, <2>1 DEF NeedIs, Has
<1>8. CASE myriad
  <2>1. e = GridEngine(walltime, UNION {mem(i) : i \in Needs}, UNION {slots(i) : i \in Needs}, <<"singularity-env">>)
    <3>1. \A i \in Needs :
            /\ Opt(needs[i][1] = "RAM", "mem", <<"int", needs[i][2]>>)
                 \cup Opt(needs[i][1] = "GPU" /\ needs[i][2] > 0, "gpu", <<"int", needs[i][2]>>) = mem(i)
            /\ Slots(needs[i][1], needs[i][2]) = slots(i)
      BY <1>1 DEF IntOf
    <3> DEFINE f(i) == Opt(needs[i][1] = "RAM", "mem", <<"int", needs[i][2]>>)
                         \cup Opt(needs[i][1] = "GPU" /\ needs[i][2] > 0, "gpu", <<"int", needs[i][2]>>)
               g(i) == Slots(needs[i][1], needs[i][2])
    <3>2. \A i \in Needs : f(i) = mem(i) /\ g(i) = slots(i)
      BY <3>1
    <3> HIDE DEF mem, slots, f, g
    <3>3. {f(i) : i \in DOMAIN needs} = {mem(i) : i \in Needs} /\ {g(i) : i \in DOMAIN needs} = {slots(i) : i \in Needs}
      BY <1>1, <3>2
    <3> QED BY <1>3, <1>8, <3>3 DEF _myriad_executor_fn, f, g
  <2>2. ASSUME NEW d
        PROVE  (\E i \in Needs : d \in mem(i)) <=>
                 \/ Has("RAM") /\ d = <<"mem", IntOf(Needed("RAM"))>>
                 \/ Needed("GPU") > 0 /\ d = <<"gpu", IntOf(Needed("GPU"))>>
    <3>1. \A i \in Needs : d \in mem(i) <=> \/ Type(i) = "RAM" /\ d = <<"mem", IntOf(Of(i))>>
                                            \/ Type(i) = "GPU" /\ Of(i) > 0 /\ d = <<"gpu", IntOf(Of(i))>>
      BY DEF Opt
    <3> HIDE DEF mem
    <3> QED BY <1>4, <1>5, <3>1 DEF NeedIs, Has
  <2> HIDE DEF mem, slots
  <2>3. /\ e.resources = UNION {mem(i) : i \in Needs} /\ e.parallel_environments = UNION {slots(i) : i \in Needs}
        /\ e.kind = "gridengine" /\ e.skip_directives = {} /\ e.extra_directives = {} /\ e.requirements = {}
        /\ e.queue = <<"none">> /\ e.project = <<"none">> /\ e.account = <<"none">>
        /\ e.modules = <<"singularity-env">>
    BY <2>1 DEF GridEngine
  <2>4. MyriadSays(e)
    BY <1>7, <2>2, <2>3 DEF MyriadSays
  <2> QED BY <1>8, <2>3, <2>4 DEF UclSays, myriad
<1>9. CASE ~myriad
  <2>1. e = GridEngine(walltime, UNION {tmem(i) : i \in Needs}, UNION {more(i) : i \in Needs}, <<>>)
    <3> DEFINE any == \E i \in DOMAIN needs : needs[i][1] = "GPU" /\ needs[i][2] > 0
    <3>1. any <=> gpus
      BY <1>1
    <3> HIDE DEF any, gpus
    <3>2. \A i \in Needs :
            /\ Opt(needs[i][1] = "RAM" /\ ~any, "h_vmem", <<"int", needs[i][2]>>)
                 \cup Opt(needs[i][1] = "RAM", "tmem", <<"int", needs[i][2]>>)
                 \cup Opt(needs[i][1] = "GPU" /\ needs[i][2] > 0, "gpu", <<"str", "true">>) = tmem(i)
            /\ Opt(needs[i][1] = "GPU" /\ needs[i][2] > 1, "gpu", <<"int", needs[i][2]>>)
                 \cup Slots(needs[i][1], needs[i][2]) = more(i)
      BY <1>1, <3>1 DEF IntOf, Opt
    <3> DEFINE f(i) == Opt(needs[i][1] = "RAM" /\ ~any, "h_vmem", <<"int", needs[i][2]>>)
                         \cup Opt(needs[i][1] = "RAM", "tmem", <<"int", needs[i][2]>>)
                         \cup Opt(needs[i][1] = "GPU" /\ needs[i][2] > 0, "gpu", <<"str", "true">>)
               g(i) == Opt(needs[i][1] = "GPU" /\ needs[i][2] > 1, "gpu", <<"int", needs[i][2]>>)
                         \cup Slots(needs[i][1], needs[i][2])
    <3>3. \A i \in Needs : f(i) = tmem(i) /\ g(i) = more(i)
      BY <3>2
    <3> HIDE DEF tmem, more, f, g
    <3>4. {f(i) : i \in DOMAIN needs} = {tmem(i) : i \in Needs} /\ {g(i) : i \in DOMAIN needs} = {more(i) : i \in Needs}
      BY <1>1, <3>3
    <3> QED BY <1>3, <1>9, <3>4 DEF _cs_executor_fn, any, f, g
  <2>2. ASSUME NEW d
        PROVE  (\E i \in Needs : d \in tmem(i)) <=>
                 \/ Has("RAM") /\ Needed("GPU") = 0 /\ d = <<"h_vmem", IntOf(Needed("RAM"))>>
                 \/ Has("RAM") /\ d = <<"tmem", IntOf(Needed("RAM"))>>
                 \/ Needed("GPU") > 0 /\ d = <<"gpu", <<"str", "true">> >>
    <3> HIDE DEF gpus
    <3>1. \A i \in Needs : d \in tmem(i) <=>
            \/ Type(i) = "RAM" /\ ~gpus /\ d = <<"h_vmem", IntOf(Of(i))>>
            \/ Type(i) = "RAM" /\ d = <<"tmem", IntOf(Of(i))>>
            \/ Type(i) = "GPU" /\ Of(i) > 0 /\ d = <<"gpu", <<"str", "true">> >>
      BY DEF Opt
    <3> HIDE DEF tmem
    <3>2. ~gpus <=> Needed("GPU") = 0
      BY <1>4, <1>6 DEF NeedIs
    <3> QED BY <1>4, <1>5, <3>1, <3>2 DEF NeedIs, Has
  <2>3. ASSUME NEW d
        PROVE  (\E i \in Needs : d \in more(i)) <=>
                 \/ Needed("GPU") > 1 /\ d = <<"gpu", IntOf(Needed("GPU"))>>
                 \/ Needed("CPU") > 1 /\ d = <<"smp", IntOf(Needed("CPU"))>>
    <3> HIDE DEF slots
    <3>1. \A i \in Needs : d \in more(i) <=> (Type(i) = "GPU" /\ Of(i) > 1 /\ d = <<"gpu", IntOf(Of(i))>>) \/ d \in slots(i)
      BY DEF Opt
    <3> HIDE DEF more
    <3> QED BY <1>4, <1>5, <1>7, <3>1 DEF NeedIs, Has
  <2> HIDE DEF tmem, more
  <2>4. /\ e.resources = UNION {tmem(i) : i \in Needs} /\ e.parallel_environments = UNION {more(i) : i \in Needs}
        /\ e.kind = "gridengine" /\ e.skip_directives = {} /\ e.extra_directives = {} /\ e.requirements = {}
        /\ e.queue = <<"none">> /\ e.project = <<"none">> /\ e.account = <<"none">>
    BY <2>1 DEF GridEngine
  <2>5. CsSays(e)
    BY <2>2, <2>3, <2>4 DEF CsSays
  <2> QED BY <1>9, <2>4, <2>5 DEF UclSays, myriad
<1> QED BY <1>8, <1>9

\* The header has what the executor asks for, and nothing else of these names.
Terms == {"mem", "tmem", "h_vmem", "gpu", "smp"}
LEMMA GridHas ==
  ASSUME NEW e, NEW myriad, UclSays(e, myriad), NEW n, NEW dir, NEW d, d[1] \in Terms
  PROVE  d \in gridengine_header(e, n, dir) <=>
           (d \in e.resources /\ Truthy(d[2])) \/ (d \in e.parallel_environments /\ d[2][2] > 0)
<1> DEFINE file(end) == <<"path", Logs(e, dir),
                          IF n > 0 THEN <<"$JOB_NAME", end, "$JOB_ID", "$TASK_ID">>
                          ELSE <<"$JOB_NAME", end, "$JOB_ID">> >>
           out == file("o")
           err == file("e")
           h_rt == <<"time", SgeTime(e.walltime[2])>>
           reserved == IF e.reserved # <<"none">> THEN e.reserved[2]
                       ELSE \/ e.parallel_environments # {}
                            \/ "gpu" \in Names(e.requirements) \cup Names(e.resources)
           own == {<<"N", <<"str", JobName>> >>}
                    \cup Opt(e.walltime # <<"none">>, "h_rt", h_rt)
                    \cup Opt(Truthy(e.queue), "q", e.queue)
                    \cup Opt(reserved, "R", <<"str", "y">>)
                    \cup {<<"o", out>>, <<"e", err>>}
                    \cup Opt(e.merge_output, "j", <<"str", "y">>)
                    \cup Opt(n > 0, "t", <<"range", 1, n>>)
                    \cup Opt(n > 0 /\ e.max_parallel_tasks > 0, "tc", <<"int", e.max_parallel_tasks>>)
                    \cup {<<"cwd", <<"none">> >>, <<"S", <<"str", "/bin/bash">> >>}
                    \cup Opt(Truthy(e.project), "P", e.project)
                    \cup Opt(Truthy(e.account), "A", e.account)
           asked == {r \in e.resources : Truthy(r[2])}
           slots == {pe \in e.parallel_environments : pe[2][2] > 0}
<1>1. gridengine_header(e, n, dir)
        = {r \in own \cup asked \cup slots : \A skip \in e.skip_directives : ~InText(r, skip)}
            \cup e.extra_directives
  BY DEF gridengine_header, gridengine_lines, Finish
<1>2. d \notin own
  <2> HIDE DEF out, err, h_rt, reserved
  <2> QED BY DEF Opt, Terms
<1> HIDE DEF own
<1>3. e.skip_directives = {} /\ e.extra_directives = {}
  BY DEF UclSays
<1> QED BY <1>1, <1>2, <1>3

LEMMA AmountOf ==
  ASSUME NEW asked, NEW name, NEW n \in Nat, n > 0 => <<name, IntOf(n)>> \in asked,
         \A d \in asked : d[1] = name => n > 0 /\ d = <<name, IntOf(n)>>
  PROVE  Amount(asked, name) = n
<1> DEFINE value == IntOf(n)
           it == <<name, value>>
           these == {d \in asked : d[1] = name}
           values == {d[2][2] : d \in these}
<1>1. it[1] = name /\ it[2] = value /\ value[2] = n
  BY DEF IntOf
<1>2. (n > 0 => it \in asked) /\ \A d \in asked : d[1] = name => n > 0 /\ d = it
  OBVIOUS
<1> HIDE DEF it, value
<1>3. these = IF n > 0 THEN {it} ELSE {}
  BY <1>1, <1>2
<1>4. Amount(asked, name) = IF values = {} THEN 0 ELSE CHOOSE v \in values : v \in Nat
  BY DEF Amount
<1> HIDE DEF these
<1>5. values = IF n > 0 THEN {n} ELSE {}
  BY <1>1, <1>3
<1> HIDE DEF values
<1>6. CASE n > 0
  <2>1. values = {n}
    BY <1>5, <1>6
  <2>2. (CHOOSE v \in values : v \in Nat) = n
    BY <2>1
  <2> QED BY <1>4, <2>1, <2>2
<1>7. CASE ~(n > 0)
  BY <1>4, <1>5, <1>7
<1> QED BY <1>6, <1>7

LEMMA TruthyAmount == ASSUME NEW n \in Nat PROVE (Truthy(IntOf(n)) <=> n > 0) /\ Truthy(<<"str", "true">>)
BY DEF Truthy, IntOf

\* Which of these are in the header, said of amounts alone.
MyriadAsked(asked) ==
  \A d : d[1] \in Terms =>
    (d \in asked <=> \/ Needed("RAM") > 0 /\ d = <<"mem", IntOf(Needed("RAM"))>>
                     \/ Needed("GPU") > 0 /\ d = <<"gpu", IntOf(Needed("GPU"))>>
                     \/ Needed("CPU") > 1 /\ d = <<"smp", IntOf(Needed("CPU"))>>)
CsAsked(asked) ==
  \A d : d[1] \in Terms =>
    (d \in asked <=>
       \/ Needed("RAM") > 0 /\ Needed("GPU") = 0 /\ d = <<"h_vmem", IntOf(Needed("RAM"))>>
       \/ Needed("RAM") > 0 /\ d = <<"tmem", IntOf(Needed("RAM"))>>
       \/ Needed("GPU") > 0 /\ d = <<"gpu", <<"str", "true">> >>
       \/ Needed("GPU") > 1 /\ d = <<"gpu", IntOf(Needed("GPU"))>>
       \/ Needed("CPU") > 1 /\ d = <<"smp", IntOf(Needed("CPU"))>>)
LEMMA UclAsked ==
  ASSUME NEW e, NEW myriad \in BOOLEAN, UclSays(e, myriad), NEW n, NEW dir, NEW asked, asked = gridengine_header(e, n, dir),
         NeedIs("RAM"), NeedIs("GPU"), NeedIs("CPU")
  PROVE  (myriad => MyriadAsked(asked)) /\ (~myriad => CsAsked(asked))
<1> DEFINE ram == Needed("RAM")
           gpu == Needed("GPU")
           cpu == Needed("CPU")
<1>1. ram \in Nat /\ gpu \in Nat /\ cpu \in Nat /\ (ram > 0 => Has("RAM"))
  BY DEF NeedIs
<1>2. \A d : d[1] \in Terms =>
        (d \in asked <=> (d \in e.resources /\ Truthy(d[2])) \/ (d \in e.parallel_environments /\ d[2][2] > 0))
  BY GridHas
<1>3. \A m \in Nat : \A name : <<name, IntOf(m)>>[2] = IntOf(m) /\ IntOf(m)[2] = m
  BY DEF IntOf
<1>4. (Truthy(IntOf(ram)) <=> ram > 0) /\ (Truthy(IntOf(gpu)) <=> gpu > 0) /\ Truthy(<<"str", "true">>)
  BY <1>1, TruthyAmount
<1> HIDE DEF ram, gpu, cpu
<1>5. CASE myriad
  <2>1. /\ \A d : d \in e.resources <=> (Has("RAM") /\ d = <<"mem", IntOf(ram)>>) \/ (gpu > 0 /\ d = <<"gpu", IntOf(gpu)>>)
        /\ \A d : d \in e.parallel_environments <=> cpu > 1 /\ d = <<"smp", IntOf(cpu)>>
    BY <1>5 DEF UclSays, MyriadSays, ram, gpu, cpu
  <2>2. ASSUME NEW d, d[1] \in Terms
        PROVE  d \in asked <=> \/ ram > 0 /\ d = <<"mem", IntOf(ram)>>
                               \/ gpu > 0 /\ d = <<"gpu", IntOf(gpu)>>
                               \/ cpu > 1 /\ d = <<"smp", IntOf(cpu)>>
    BY <1>1, <1>2, <1>3, <1>4, <2>1, <2>2
  <2> QED BY <1>5, <2>2 DEF MyriadAsked, ram, gpu, cpu
<1>6. CASE ~myriad
  <2>1. /\ \A d : d \in e.resources <=> \/ Has("RAM") /\ gpu = 0 /\ d = <<"h_vmem", IntOf(ram)>>
                                        \/ Has("RAM") /\ d = <<"tmem", IntOf(ram)>>
                                        \/ gpu > 0 /\ d = <<"gpu", <<"str", "true">> >>
        /\ \A d : d \in e.parallel_environments <=> \/ gpu > 1 /\ d = <<"gpu", IntOf(gpu)>>
                                                    \/ cpu > 1 /\ d = <<"smp", IntOf(cpu)>>
    BY <1>6 DEF UclSays, CsSays, ram, gpu, cpu
  <2>2. ASSUME NEW d, d[1] \in Terms
        PROVE  d \in asked <=> \/ ram > 0 /\ gpu = 0 /\ d = <<"h_vmem", IntOf(ram)>>
                               \/ ram > 0 /\ d = <<"tmem", IntOf(ram)>>
                               \/ gpu > 0 /\ d = <<"gpu", <<"str", "true">> >>
                               \/ gpu > 1 /\ d = <<"gpu", IntOf(gpu)>>
                               \/ cpu > 1 /\ d = <<"smp", IntOf(cpu)>>
    BY <1>1, <1>2, <1>3, <1>4, <2>1, <2>2
  <2> QED BY <1>6, <2>2 DEF CsAsked, ram, gpu, cpu
<1> QED BY <1>5, <1>6

LEMMA AsksNeeded ==
  ASSUME NEW asked, NeedIs("RAM"), NeedIs("GPU"), NeedIs("CPU"),
         NEW myriad, myriad = (default_cluster(Site) = Setting("myriad")),
         myriad => MyriadAsked(asked), ~myriad => CsAsked(asked),
         script.built.job.executable.image_type = "singularity" =>
           /\ script.built.command.gpu = (Needed("GPU") > 0)
           /\ myriad => "singularity-env" \in ToSet(script.built.modules)
  PROVE  AsksAsNeeded(asked)
<1> DEFINE ram == Needed("RAM")
           gpu == Needed("GPU")
           cpu == Needed("CPU")
           more == {d \in asked : d[1] = "gpu" /\ d[2][1] = "int"}
           said == <<"str", "true">>
           flag == <<"gpu", said>>
           gpus == IF myriad THEN Amount(more, "gpu")
                   ELSE IF flag \notin asked THEN 0
                   ELSE IF more = {} THEN 1 ELSE Amount(more, "gpu")
<1>1. ram \in Nat /\ gpu \in Nat /\ cpu \in Nat
  BY DEF NeedIs
<1>2. \A name, m : <<name, IntOf(m)>>[1] = name /\ <<name, IntOf(m)>>[2] = IntOf(m) /\ IntOf(m)[1] = "int"
  BY DEF IntOf
<1>3. flag[1] = "gpu" /\ flag[2] = said /\ said[1] = "str"
  OBVIOUS
<1> HIDE DEF ram, gpu, cpu, said, flag
<1>4. CASE myriad
  <2>1. \A d : d[1] \in Terms =>
          (d \in asked <=> \/ ram > 0 /\ d = <<"mem", IntOf(ram)>>
                           \/ gpu > 0 /\ d = <<"gpu", IntOf(gpu)>>
                           \/ cpu > 1 /\ d = <<"smp", IntOf(cpu)>>)
    BY <1>4 DEF MyriadAsked, ram, gpu, cpu
  <2>2. /\ ram > 0 => <<"mem", IntOf(ram)>> \in asked
        /\ \A d \in asked : d[1] = "mem" => ram > 0 /\ d = <<"mem", IntOf(ram)>>
    BY <1>2, <2>1 DEF Terms
  <2>3. /\ gpu > 0 => <<"gpu", IntOf(gpu)>> \in more
        /\ \A d \in more : d[1] = "gpu" => gpu > 0 /\ d = <<"gpu", IntOf(gpu)>>
    BY <1>2, <2>1 DEF Terms
  <2>4. cpu > 1 => /\ cpu > 0 => <<"smp", IntOf(cpu)>> \in asked
                   /\ \A d \in asked : d[1] = "smp" => cpu > 0 /\ d = <<"smp", IntOf(cpu)>>
    BY <1>1, <1>2, <2>1 DEF Terms
  <2>5. "h_vmem" \notin Names(asked)
    <3>1. \A d \in asked : d[1] # "h_vmem"
      BY <1>2, <2>1 DEF Terms
    <3> QED BY <3>1 DEF Names
  <2> HIDE DEF more
  <2>6. Amount(asked, "mem") = ram /\ Amount(more, "gpu") = gpu /\ (cpu > 1 => Amount(asked, "smp") = cpu)
    BY <1>1, <2>2, <2>3, <2>4, AmountOf
  <2> QED BY <1>4, <2>5, <2>6 DEF AsksAsNeeded, more, ram, gpu, cpu
<1>5. CASE ~myriad
  <2>1. \A d : d[1] \in Terms =>
          (d \in asked <=> \/ ram > 0 /\ gpu = 0 /\ d = <<"h_vmem", IntOf(ram)>>
                           \/ ram > 0 /\ d = <<"tmem", IntOf(ram)>>
                           \/ gpu > 0 /\ d = flag
                           \/ gpu > 1 /\ d = <<"gpu", IntOf(gpu)>>
                           \/ cpu > 1 /\ d = <<"smp", IntOf(cpu)>>)
    BY <1>5 DEF CsAsked, ram, gpu, cpu, flag, said
  <2>2. /\ ram > 0 => <<"tmem", IntOf(ram)>> \in asked
        /\ \A d \in asked : d[1] = "tmem" => ram > 0 /\ d = <<"tmem", IntOf(ram)>>
    BY <1>2, <1>3, <2>1 DEF Terms
  <2>3. flag \in asked <=> gpu > 0
    <3>1. \A name, m : flag # <<name, IntOf(m)>>
      BY <1>2, <1>3
    <3> QED BY <1>1, <1>3, <2>1, <3>1 DEF Terms
  <2>4. gpu > 1 => <<"gpu", IntOf(gpu)>> \in more
    BY <1>2, <2>1 DEF Terms
  <2>5. \A d \in more : gpu > 1 /\ d = <<"gpu", IntOf(gpu)>>
    BY <1>2, <1>3, <2>1 DEF Terms
  <2>6. cpu > 1 => /\ cpu > 0 => <<"smp", IntOf(cpu)>> \in asked
                   /\ \A d \in asked : d[1] = "smp" => cpu > 0 /\ d = <<"smp", IntOf(cpu)>>
    BY <1>1, <1>2, <1>3, <2>1 DEF Terms
  <2>7. gpu > 0 => "h_vmem" \notin Names(asked)
    <3>1. gpu > 0 => \A d \in asked : d[1] # "h_vmem"
      BY <1>1, <1>2, <1>3, <2>1 DEF Terms
    <3> QED BY <3>1 DEF Names
  <2> HIDE DEF more
  <2>8. Amount(asked, "tmem") = ram /\ (cpu > 1 => Amount(asked, "smp") = cpu)
    BY <1>1, <2>2, <2>6, AmountOf
  <2>9. gpu > 1 => Amount(more, "gpu") = gpu /\ more # {}
    BY <1>1, <2>4, <2>5, AmountOf
  <2>10. ~(gpu > 1) => more = {}
    BY <2>5
  <2>11. gpus = gpu
    BY <1>1, <1>5, <2>3, <2>9, <2>10
  <2> QED BY <1>5, <2>7, <2>8, <2>11 DEF AsksAsNeeded, gpus, more, flag, said, ram, gpu, cpu
<1> QED BY <1>4, <1>5

LEMMA NeedsAsked ==
  ASSUME IInv, phase = "submitted", Backend # "local", req.requirements # Nothing, changes = 0
  PROVE  AsksAsNeeded(Asked)
<1> DEFINE R == req.requirements.resources
           m == IF Chosen.kind = "array" THEN Width ELSE 0
           myriad == default_cluster(Site) = Setting("myriad")
           links == link_directory(Chosen, Managed(Chosen), Directory)
<1>1. PICK env \in Environments : UsableIn(env) /\ executor = ExecutorIn(env) /\ env = frozen
  BY DEF IInv, Packaged
<1>2. IsRequest(req)
  BY Requested DEF IInv
<1>3. Specified(R) /\ executor = UclGridEngine(JobRequirements(R, req.requirements.location), req.requirements.walltime, Site)
  BY <1>1 DEF UsableIn, ExecutorIn, Site
<1>4. NeedIs("RAM") /\ NeedIs("GPU") /\ NeedIs("CPU")
  BY <1>2, <1>3, NeededIs
<1>5. UclSays(executor, myriad)
  BY <1>2, <1>3, UclIs
<1>6. /\ script.built.job = Chosen /\ Chosen.executor = executor /\ executor.kind = "gridengine" /\ ~IsManaged
      /\ script.built.header = create_job_script_header(Chosen, m, Directory)
  BY <1>5, Launched, HeaderOf DEF IInv, UclSays, Payload
<1>7. Asked = gridengine_header(executor, m, Directory)
  BY <1>6 DEF Asked, Attached, create_job_script_header
<1> HIDE DEF m, R, myriad
<1>8. (myriad => MyriadAsked(Asked)) /\ (~myriad => CsAsked(Asked))
  <2>1. myriad \in BOOLEAN
    BY DEF myriad
  <2> QED BY <1>4, <1>5, <1>7, <2>1, UclAsked
<1>9. "gpu" \in Names(executor.parallel_environments) \cup Names(executor.requirements) \cup Names(executor.resources)
        <=> Needed("GPU") > 0
  <2> DEFINE gpu == Needed("GPU")
             slots == executor.parallel_environments
             r == executor.resources
             all == slots \cup r
  <2>1. (\E d \in all : d[1] = "gpu") <=> gpu > 0
    <3>1. \A name, value : <<name, value>>[1] = name
      OBVIOUS
    <3>2. gpu \in Nat
      BY <1>4 DEF NeedIs
    <3>3. CASE myriad
      <4>1. /\ \A d : d \in r <=> (Has("RAM") /\ d = <<"mem", IntOf(Needed("RAM"))>>) \/ (gpu > 0 /\ d = <<"gpu", IntOf(gpu)>>)
            /\ \A d : d \in slots <=> Needed("CPU") > 1 /\ d = <<"smp", IntOf(Needed("CPU"))>>
        BY <1>5, <3>3 DEF UclSays, MyriadSays
      <4> HIDE DEF gpu, slots, r
      <4> QED BY <3>1, <4>1
    <3>4. CASE ~myriad
      <4> DEFINE flag == <<"str", "true">>
      <4>1. /\ \A d : d \in r <=> \/ Has("RAM") /\ gpu = 0 /\ d = <<"h_vmem", IntOf(Needed("RAM"))>>
                                  \/ Has("RAM") /\ d = <<"tmem", IntOf(Needed("RAM"))>>
                                  \/ gpu > 0 /\ d = <<"gpu", flag>>
            /\ \A d : d \in slots <=> \/ gpu > 1 /\ d = <<"gpu", IntOf(gpu)>>
                                      \/ Needed("CPU") > 1 /\ d = <<"smp", IntOf(Needed("CPU"))>>
        BY <1>5, <3>4 DEF UclSays, CsSays
      <4> HIDE DEF gpu, slots, r, flag
      <4>2. ASSUME NEW d \in all, d[1] = "gpu" PROVE gpu > 0
        <5>1. CASE d \in r
          BY <3>1, <4>1, <4>2, <5>1
        <5>2. CASE d \in slots
          BY <3>1, <3>2, <4>1, <4>2, <5>2
        <5> QED BY <5>1, <5>2
      <4>3. gpu > 0 => <<"gpu", flag>> \in r /\ <<"gpu", flag>>[1] = "gpu"
        BY <4>1
      <4> QED BY <4>2, <4>3
    <3> QED BY <3>3, <3>4
  <2>2. executor.requirements = {}
    BY <1>5 DEF UclSays
  <2> QED BY <2>1, <2>2 DEF Names
<1>10. ASSUME Chosen.executable.image_type = "singularity"
       PROVE  /\ script.built.command.gpu = (Needed("GPU") > 0)
              /\ myriad => "singularity-env" \in ToSet(script.built.modules)
  <2>1. script.built.command = slurm_entrypoint_commands(Chosen, links) /\ script.built.modules = executor.modules
    BY <1>6 DEF IInv, Submitted, build, Managed, create_job_script_prologue
  <2>2. PICK given : slurm_entrypoint_commands(Chosen, links) = create_entrypoint_commands(Chosen, links, given)
    BY DEF slurm_entrypoint_commands
  <2> HIDE DEF links
  <2>3. script.built.command.gpu = is_gpu_requested(executor)
    BY <1>6, <1>10, <2>1, <2>2 DEF create_entrypoint_commands, singularity_command
  <2>4. is_gpu_requested(executor) = (Needed("GPU") > 0)
    BY <1>6, <1>9 DEF is_gpu_requested
  <2>5. myriad => "singularity-env" \in ToSet(script.built.modules)
    <3>1. <<"singularity-env">>[1] = "singularity-env" /\ 1 \in DOMAIN <<"singularity-env">>
      OBVIOUS
    <3>2. myriad => script.built.modules = <<"singularity-env">>
      BY <1>5, <2>1 DEF UclSays
    <3> QED BY <3>1, <3>2 DEF ToSet
  <2> QED BY <2>3, <2>4, <2>5
<1> QED BY <1>4, <1>6, <1>8, <1>10, AsksNeeded DEF myriad

LEMMA HeaderIs == IInv => HeaderMatches
<1> SUFFICES ASSUME IInv, phase = "submitted", Backend # "local", executor.skip_directives = {}, LeftToClient
             PROVE  /\ TimesIn(Asked) = (IF Wanted = <<"none">> THEN {} ELSE {Wanted[2]})
                    /\ (Backend = "slurm" /\ script.built.command.gpu) =>
                         AsksGpu(Asked) /\ (Attached => AsksGpu(script.driver.step))
                    /\ (req.requirements # Nothing /\ changes = 0) => AsksAsNeeded(Asked)
  BY DEF HeaderMatches, TimesIn, Asked, Attached, Wanted
<1>1. TimesIn(Asked) = (IF Wanted = <<"none">> THEN {} ELSE {Wanted[2]})
  BY TimesAre
<1>2. (Backend = "slurm" /\ script.built.command.gpu) =>
        AsksGpu(Asked) /\ (Attached => AsksGpu(script.driver.step))
  BY GpuAsked
<1>3. (req.requirements # Nothing /\ changes = 0) => AsksAsNeeded(Asked)
  BY NeedsAsked
<1> QED BY <1>1, <1>2, <1>3

\* Whatever is submitted asks its scheduler for the walltime to the second; for GPUs if
\* its container uses them, in the step of an attached job too; and on either
\* cluster of UCL for the GPUs, memory and slots of its requirements: for any walltime,
\* any amounts and any other directives that leave the client's own alone.
THEOREM HeaderAsks == PipelineSpec => []HeaderMatches
BY HeaderIs, PipelineInvariant, PTL
=============================================================================
