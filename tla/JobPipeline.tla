---------------------------- MODULE JobPipeline ----------------------------
(***************************************************************************)
(* One job from the author's request to its tasks and back: package, add,  *)
(* submit, the tasks its scheduler starts, and what the author then reads  *)
(* (core.py ExperimentUnit.add, experiment.py _submit_job_for_execution    *)
(* and _launch, and the client of each backend).  The environment that     *)
(* selects a cluster may change between any two of them.                   *)
(*                                                                         *)
(* The steps the tasks take together with a crash, a stop or another       *)
(* launcher are those of BatchDriver, AttachedDriver and Launcher.         *)
(***************************************************************************)
EXTENDS Backends

CONSTANTS
  Requests,      \* what an author may ask for
  Environments,  \* what EXEX_PROJECT and EXEX_CLUSTER may be
  Configuration, \* the configuration file
  MaxAttempts,   \* bound on the attempts of a managed job, for model checking
  MaxChanges     \* bound on the changes of the environment, for model checking

ASSUME PipelineAssumption == MaxAttempts \in Nat \ {0} /\ MaxChanges \in Nat

\* What a constructor of the author's accepts, and an array has tasks.
IsArgument(value) == value[1] \in {"list", "tuple"} => value[2] \in Seq(ToSet(value[2]))
IsCollection(c) ==
  \/ c[1] = "none"
  \/ /\ c[1] \in {"seq", "map"} /\ c[2] \in Seq(ToSet(c[2]))
     /\ \A i \in DOMAIN c[2] : IsArgument(IF c[1] = "map" THEN c[2][i][2] ELSE c[2][i])
IsExecutor(e) ==
  /\ e.kind \in {"local", "gridengine", "slurm"}
  /\ e.container_options # <<>> =>
       LET bind == e.container_options[1].bind
       IN  bind \in Seq(ToSet(bind)) /\ \A i \in DOMAIN bind : Len(bind[i][1]) = 1
  /\ e.kind # "local" =>
       e.walltime = <<"none">> \/ (e.walltime[1] = "seconds" /\ e.walltime[2] \in Nat)
  /\ e.kind = "slurm" => /\ e.mode \in {"sbatch", "salloc"} /\ "resources" \in DOMAIN e
                         /\ \A d \in e.resources : d[1] = "gres" => d[2][1] = "gres"
IsRequirements(needs) ==
  /\ \A i \in DOMAIN needs.resources : needs.resources[i][2] \in Nat
  /\ \/ needs.walltime = <<"none">>
     \/ needs.walltime[1] = "int" /\ needs.walltime[2] \in Nat
     \/ needs.walltime[1] = "timedelta" /\ needs.walltime[2] \in Nat /\ needs.walltime[3] \in Nat
IsRequest(r) ==
  /\ r.shape \in {"job", "group", "nested", "pair", "array"}
  /\ r.continuation \in BOOLEAN /\ r.stray \in BOOLEAN
  /\ IsExecutor(r.executor) /\ (r.requirements = <<>> \/ IsRequirements(r.requirements))
  /\ IsCollection(r.package_args) /\ IsCollection(r.args)
  /\ r.override_args[1] = "str" \/ IsCollection(r.override_args)
  /\ r.shape = "array" =>
       /\ r.args_list \in Seq(ToSet(r.args_list)) /\ Len(r.args_list) \in 1..MaxTasks
       /\ r.env_list \in Seq(ToSet(r.env_list)) /\ Len(r.env_list) \in 1..MaxTasks
       /\ \A i \in 1..Len(r.args_list) : IsCollection(r.args_list[i])
ASSUME RequestAssumption == \A r \in Requests : IsRequest(r)

VARIABLES
  req,         \* the request
  environment, \* the author's process environment
  changes,     \* how often it has changed
  frozen,      \* that environment when the experiment was created
  executor,    \* what the author asks the job to be run by
  executable,  \* what package() returned
  bundle,      \* the store that holds it
  unit,        \* the job tree after `add`
  phase,       \* "created", "packaged", "added", "submitted" or "refused"
  record,      \* the catalog row
  script,      \* the scripts in the store
  bindings,    \* the job's inputs as staged
  attempt,     \* attempts of a managed job so far
  current,     \* its state.json
  sched,       \* the native state of every task the scheduler knows of
  ran,         \* the tasks that have started, and what each of them saw
  status,      \* what get_status last said
  listed       \* what qstat last said

authored == <<req, environment, changes, frozen, executor, executable, bundle, unit>>
submitted == <<phase, record, script, bindings>>
tasks == <<attempt, current, sched, ran, status, listed>>
pipeline == <<authored, submitted, tasks>>

Nothing == <<>>
JobId == 7

\* The columns of a catalog row before its job is submitted.
NewRow ==
  [state |-> "unknown", message |-> FALSE, job |-> Nothing, is_array |-> FALSE, task_count |-> 1,
   native_id |-> 0, job_name |-> NoSetting, log_directory |-> NoSetting, log_path |-> NoSetting,
   links_directory |-> NoSetting, artifact_directory |-> NoSetting,
   execution_directory |-> NoSetting]

---------------------------------------------------------------------------
(* What the author writes: one job, in the shape the request names *)

AsJob(exe) == Job(exe, executor, from_collection(req.args), req.env_vars)
At(path, exe) == <<path, AsJob(exe)>>
Author(exe) ==
  CASE req.shape = "job"    -> AsJob(exe)
    [] req.shape = "group"  -> JobGroup(<<At(<<"learner">>, exe)>>, <<>>)
    [] req.shape = "nested" -> JobGroup(<<At(<<"outer", "learner">>, exe)>>, <<>>)
    [] req.shape = "pair"   -> JobGroup(<<At(<<"learner">>, exe), At(<<"actor">>, exe)>>,
                                        <<"same-machine">>)
    [] req.shape = "array"  -> ArrayJob(exe, executor,
                                        [i \in DOMAIN req.args_list |-> from_collection(req.args_list[i])],
                                        req.env_list)

\* The overrides of `add`; a stray one names a job that is not in the group.
Overrides(job) ==
  (IF req.stray THEN Entry(<<"nobody">>, Nothing) ELSE Nothing)
  ++ (IF req.override_env = Nothing THEN Nothing ELSE Entry(<<"env_vars">>, req.override_env))
  ++ (IF req.override_args = <<"none">> THEN Nothing
      ELSE get_args_for_all_jobs(job, req.override_args))

---------------------------------------------------------------------------
(* Variants of the operators below, each with a plausible slip in it. *)

SiteNow == snapshot(Configuration, environment)

---------------------------------------------------------------------------
(* The author's process *)

\* An experiment keeps the configuration it was created with.
Site == snapshot(Configuration, frozen)

Init ==
  /\ req \in Requests
  /\ environment \in Environments
  /\ frozen = environment
  /\ changes = 0 /\ attempt = 0 /\ phase = "created"
  /\ executor = Nothing /\ executable = Nothing /\ bundle = Nothing /\ unit = Nothing
  /\ record = NewRow /\ current = Nothing
  /\ script = Nothing /\ bindings = Nothing
  /\ sched = Nothing /\ ran = Nothing /\ status = "none" /\ listed = Nothing

\* Only while something is still to be decided by it.
ChangeEnvironment ==
  /\ changes < MaxChanges /\ phase \in {"created", "packaged", "added"}
  /\ environment' \in Environments \ {environment}
  /\ changes' = changes + 1
  /\ UNCHANGED <<req, frozen, executor, executable, bundle, unit, submitted, tasks>>

\* What the job is to run on: an executor, or one made of its requirements with the
\* process's configuration as it is now.
Usable ==
  req.requirements = Nothing \/
    (Specified(req.requirements.resources)
     /\ Supported(JobRequirements(req.requirements.resources, req.requirements.location), SiteNow))
Executor ==
  IF req.requirements = Nothing THEN req.executor
  ELSE UclGridEngine(JobRequirements(req.requirements.resources, req.requirements.location),
                     req.requirements.walltime, SiteNow)

\* packaging_router: the bundle's arguments are the packageable's, its target
\* the destination of the executor's specification.
Package ==
  /\ phase = "created"
  /\ IF Usable /\ Reachable(req.packaged_for, Site)
     THEN /\ phase' = "packaged" /\ executor' = Executor
          /\ executable' = Executable("source", req.image_type, from_collection(req.package_args),
                                      req.package_env, package_target(req.packaged_for, Site))
          /\ bundle' = create_artifact_store(SettingsOf(req.packaged_for, Site), project(Site))
     ELSE phase' = "refused" /\ UNCHANGED <<executor, executable, bundle>>
  /\ UNCHANGED <<req, environment, changes, frozen, unit, record, script, bindings, tasks>>

\* ClusterExperiment.add: outputs are paths beneath the payload's own directory,
\* and the checkpoint of a continuation is one of them.
output_declarations(outputs) ==
  \A name \in DOMAIN outputs :
    LET parts == outputs[name]
    IN  parts # <<>> /\ parts[1] # "/" /\ \A i \in DOMAIN parts : parts[i] # ".."
Declared ==
  /\ output_declarations(req.outputs)
  /\ req.continuation => req.checkpoint \in DOMAIN req.outputs
HasOutputs == DOMAIN req.outputs # {}

\* ExperimentUnit.add: overrides, then names, then a group of one for a job; an
\* array takes no overrides (an assertion of _launch_job_config).
Add ==
  /\ phase = "packaged"
  /\ IF ~Declared \/ (req.shape = "array" /\ ~Broadcastable(req.args_list, req.env_list))
     THEN phase' = "refused" /\ UNCHANGED unit
     ELSE LET job   == Author(executable)
              args  == Overrides(job)
              named == populate_job_names(apply_args(job, args))
          IN  IF Applicable(job, args) /\ (job.kind = "array" => DOMAIN args = {})
              THEN /\ phase' = "added"
                   /\ unit' = IF named.kind = "job"
                              THEN JobGroup(<< << <<named.name[2]>>, named>> >>, <<>>) ELSE named
              ELSE phase' = "refused" /\ UNCHANGED unit
  /\ UNCHANGED <<req, environment, changes, frozen, executor, executable, bundle, record, script, bindings,
                 tasks>>

flatten_job(job) == IF job.kind = "array" THEN <<job>> ELSE flatten_jobs(job)
Managed(job) ==
  req.continuation \/ (job.executor.kind = "slurm" /\ job.executor.mode = "salloc")

\* Checked before anything is saved: a managed job is one Slurm job, and a
\* continued one has a walltime longer than its warning.
Acceptable(job) ==
  /\ Managed(job) => job.kind = "job" /\ job.executor.kind = "slurm"
  /\ req.continuation => /\ job.executor.walltime # <<"none">>
                         /\ req.pause_before < job.executor.walltime[2]

\* _launch: the bundle must have been packaged for this very destination, and
\* the script is built before anything is sent to the scheduler.
Launchable(job) ==
  /\ Reachable(job.executor, Site)
  /\ job.executable.target = package_target(job.executor, Site)
  /\ Buildable(job)
_launch(job) ==
  LET inputs == req.inputs # <<>>
  IN  CASE job.executor.kind = "local"      -> local_launch(job, Site, inputs, HasOutputs)
        [] job.executor.kind = "gridengine" -> gridengine_launch(job, Site, JobId, inputs, HasOutputs)
        [] job.executor.kind = "slurm" ->
             slurm_launch(job, Site, JobId, req.pause_before, req.continuation, inputs, HasOutputs)

\* The indices the scheduler starts: the header's range, or the loop of
\* LocalClient.launch; 0 stands for the one task of a job that is no array to it,
\* as of one whose range was skipped.
Ranges(header) ==
  {d[2] : d \in {d \in header : d[1] \in {"array", "t"}}}
NativeTasks(s) ==
  IF s.job.kind # "array" THEN {0}
  ELSE IF s.job.executor.kind = "local" THEN 1..Tasks(s.job)
  ELSE IF Ranges(s.header) = {} THEN {0}
  ELSE UNION {range[2]..range[3] : range \in Ranges(s.header)}

Submit ==
  /\ phase = "added"
  /\ LET jobs  == flatten_job(unit)
         job   == jobs[1]
         saved == [record EXCEPT !.job = _encode(job), !.is_array = job.kind = "array",
                                 !.task_count = Tasks(job)]
     IN  IF Len(jobs) > 1 \/ ~Acceptable(job)
         THEN /\ phase' = "refused" /\ record' = [record EXCEPT !.message = TRUE]
              /\ UNCHANGED <<script, bindings, sched>>
         ELSE IF ~Launchable(job)
         THEN /\ phase' = "refused" /\ record' = [saved EXCEPT !.message = TRUE]
              /\ UNCHANGED <<script, bindings, sched>>
         ELSE LET launched == _launch(job)
              IN  /\ phase' = "submitted"
                  /\ bindings' = [i \in DOMAIN req.inputs |->
                                    stage(declarations(req.inputs[i]), job.executor, Site)]
                  /\ script' = launched.script
                  /\ record' = launched.handle ++ saved
                  /\ sched' = [k \in NativeTasks(launched.script.built) |-> "PENDING"]
  /\ UNCHANGED <<authored, attempt, current, ran, status, listed>>

---------------------------------------------------------------------------
(* The tasks *)

Done == {"COMPLETED", "FAILED", "TIMEOUT", "CANCELLED"}
Payload == script.built.job
IsManaged == script.built.managed
Backend == Payload.executor.kind

AttemptDir(n) == ToString(<<"attempt", n>>)

\* The environment of task k's job script, and of a worker that srun gave a rank.
HostEnv(k) ==
  Entry("CUDA_VISIBLE_DEVICES", "0")
  ++ (IF Backend = "slurm" THEN Entry("SLURM_PROCID", Decimal(0)) ELSE Nothing)
  ++ (IF k = 0 THEN Nothing ELSE Entry(ARRAY_TASK_ID(Backend), Decimal(k)))
  ++ (IF IsManaged THEN Entry("EXEX_ATTEMPT_DIR", AttemptDir(attempt)) ELSE Nothing)
WorkerEnv(k, rank) == Entry("SLURM_PROCID", Decimal(rank)) ++ HostEnv(k)
Ranks == IF Backend = "slurm" /\ Payload.executor.srun_options THEN 0..1 ELSE {0}
ProcessEnv(k, rank) == IF Ranks = {0} THEN HostEnv(k) ELSE WorkerEnv(k, rank)

\* Where Slurm writes what task k prints: the header's directory, from the one
\* the job was submitted in, and the pattern of its name; a header that has lost
\* them leaves it to Slurm's own.
Directive(header, name, default) ==
  IF name \in Names(header) THEN (CHOOSE d \in header : d[1] = name)[2] ELSE default
SlurmOutput(k) ==
  LET path == Directive(script.built.header, "output", <<"path", <<"rel", "slurm">>, <<"%j">> >>)
  IN  <<Absolute(SettingsOf(Payload.executor, Site), path[2]),
        Directive(script.built.header, "job-name", <<"str", "script">>)[2], JobId,
        IF Last(path[3]) = "%a" THEN k ELSE 0>>
\* LocalClient.launch's own files, and those of a managed job's attempts.
AttemptLog == <<script.driver.log_directory, script.driver.job_name, "attempt", attempt>>
Output(k) ==
  CASE Backend = "gridengine" -> Nothing
    [] Backend = "local" -> <<script.directory, "task", IF k = 0 THEN 0 ELSE k - ARRAY_TASK_OFFSET>>
    [] IsManaged -> AttemptLog
    [] OTHER     -> SlurmOutput(k)

\* A managed job has its next attempt in a directory of its own; its artifacts
\* stay the previous attempt's until it has sealed its own.
NextAttempt ==
  /\ phase = "submitted" /\ IsManaged /\ attempt < MaxAttempts
  /\ attempt = 0 \/ (req.continuation /\ sched[0] \in Done)
  /\ attempt' = attempt + 1 /\ ran' = Nothing /\ sched' = [k \in {0} |-> "PENDING"]
  /\ current' = [native_id |-> 0, links_directory |-> <<AttemptDir(attempt'), "links">>,
                 log_path |-> <<AttemptDir(attempt'), "allocation.log">>,
                 artifact_directory |-> IF attempt = 0 THEN <<AttemptDir(1), "artifacts">>
                                        ELSE current.artifact_directory]
  /\ UNCHANGED <<authored, submitted, status, listed>>

\* A requeued job keeps its id; salloc's next allocation is another job.
NativeJob == IF Payload.executor.mode = "salloc" THEN JobId + attempt ELSE JobId

RunTask ==
  /\ phase = "submitted" /\ (IsManaged => attempt > 0)
  /\ \E k \in DOMAIN sched, rank \in Ranks :
       LET host == HostEnv(k)
           mine == ProcessEnv(k, rank)
           end  == Source(script.built, host, mine)
       IN  /\ sched[k] = "PENDING"
           /\ sched' = [sched EXCEPT ![k] = "RUNNING"]
           /\ current' = IF IsManaged THEN [current EXCEPT !.native_id = NativeJob, !.log_path = AttemptLog]
                         ELSE current
           /\ ran' = Entry(k, [exit |-> end.exit, argv |-> end.argv, env |-> end.env, rank |-> rank,
                            log |-> Output(k),
                            links |-> IF end.exit = 0 THEN LinksLand(script.built, host, mine)
                                      ELSE Nothing,
                            artifacts |-> IF HasOutputs /\ end.exit = 0
                                          THEN ArtifactsLand(script.built, host) ELSE Nothing]) ++ ran
  /\ UNCHANGED <<authored, submitted, attempt, status, listed>>

\* Its payload ends, or its scheduler ends it.  A managed job's driver records
\* the artifacts of an attempt that has captured them, even if it then failed.
Captured == current' = [current EXCEPT !.artifact_directory = <<AttemptDir(attempt), "artifacts">>]
EndTask ==
  /\ phase = "submitted"
  /\ \E k \in DOMAIN sched :
       \/ /\ sched[k] = "RUNNING"
          /\ \E end \in {"COMPLETED", "FAILED"} :
               /\ ran[k].exit # 0 => end # "COMPLETED"
               /\ sched' = [sched EXCEPT ![k] = end]
               /\ \/ ~(IsManaged /\ HasOutputs /\ end = "COMPLETED") /\ UNCHANGED current
                  \/ IsManaged /\ HasOutputs /\ ran[k].exit = 0 /\ Captured
       \/ /\ sched[k] \in {"PENDING", "RUNNING"} /\ Backend = "slurm"
          /\ \E end \in {"CANCELLED"} \cup (IF sched[k] = "RUNNING" THEN {"TIMEOUT"} ELSE {}) :
               sched' = [sched EXCEPT ![k] = end]
          /\ UNCHANGED current
  /\ UNCHANGED <<authored, submitted, attempt, ran, status, listed>>

\* stop(): the intent is saved, then the scheduler is asked to cancel.
Stop ==
  /\ phase = "submitted" /\ Backend = "slurm" /\ ~IsManaged /\ record.state = "unknown"
  /\ \E mark_as_failed \in BOOLEAN :
       record' = [record EXCEPT !.state = IF mark_as_failed THEN "failed" ELSE "stopped"]
  /\ UNCHANGED <<authored, phase, script, bindings, tasks>>

---------------------------------------------------------------------------
(* What the author reads back *)

\* What sacct may say of a task: its state, an older one, or COMPLETED with
\* the exit code still to come.
Rows(k) ==
  LET row(state, code) == << <<JobId, k>>, record.job_name[2], state, code>>
  IN  {row(sched[k], IF sched[k] = "FAILED" THEN "1:0" ELSE "0:0")}
      \cup (IF sched[k] \in Done THEN {row("RUNNING", "0:0")} ELSE {})
      \cup (IF sched[k] = "COMPLETED" THEN {row("COMPLETED", "")} ELSE {})

\* A finished job of another name that had the same id, listed after this one's.
Recycled == [k \in 1..record.task_count |-> <<native_id(record, k - 1), "other", "COMPLETED", "0:0">>]

\* The tasks sacct knows of, in some order, and the rows of the recycled id.
Inspect ==
  /\ phase = "submitted" /\ Backend = "slurm" /\ ~IsManaged
  /\ \E shown \in SUBSET DOMAIN sched, recycled \in {Nothing, Recycled} :
       \E row \in [shown -> UNION {Rows(k) : k \in shown}] :
         /\ \A k \in shown : row[k] \in Rows(k)
         /\ status' = get_status(record, SetToSeq({row[k] : k \in shown}) \o recycled)
  /\ UNCHANGED <<authored, submitted, attempt, current, sched, ran, listed>>

\* The futures of the Local tasks themselves.
InspectLocal ==
  /\ phase = "submitted" /\ Backend = "local"
  /\ status' = local_status(sched)
  /\ UNCHANGED <<authored, submitted, attempt, current, sched, ran, listed>>

\* qstat shows the tasks that wait in one row and each running task in its own:
\* the first as one range where they are one, and otherwise, or where they are
\* two, as any list of numbers and ranges.
Stepped(first, last, step) == {k \in first..last : (k - first) % step = 0}
Steps(S) == {step \in 1..Max(S) : S = Stepped(Min(S), Max(S), step)}
IsRange(S) == Steps(S) # {}
Part(S) == <<Min(S), Max(S), Max(Steps(S))>>
Together(label, k) == {other \in DOMAIN label : label[other] = label[k]}
TaskFields(waiting) ==
  IF waiting = {0} THEN {<<"none">>}
  ELSE IF IsRange(waiting) /\ ~\E a, b \in waiting : waiting = {a, b}
  THEN {<<"tasks", {Part(waiting)}>>}
  ELSE {<<"tasks", {Part(Together(label, k)) : k \in waiting}>> :
          label \in {label \in [waiting -> waiting] : \A k \in waiting : IsRange(Together(label, k))}}
Alone(k) == IF k = 0 THEN <<"none">> ELSE <<"tasks", {<<k, k, 1>>}>>
InState(state) == {k \in DOMAIN sched : sched[k] = state}
Qstats ==
  LET running == SetToSeq({<<JobId, Alone(k), "r">> : k \in InState("RUNNING")})
  IN  IF InState("PENDING") = {} THEN {running}
      ELSE {<< <<JobId, field, "qw">> >> \o running : field \in TaskFields(InState("PENDING"))}
ListJobs ==
  /\ phase = "submitted" /\ Backend = "gridengine"
  /\ \E rows \in Qstats : listed' = parse_qstat(rows)
  /\ UNCHANGED <<authored, submitted, attempt, current, sched, ran, status>>

Next ==
  \/ ChangeEnvironment \/ Package \/ Add \/ Submit
  \/ NextAttempt \/ RunTask \/ EndTask \/ Stop
  \/ Inspect \/ InspectLocal \/ ListJobs
PipelineSpec == Init /\ [][Next]_pipeline

---------------------------------------------------------------------------
(* Properties *)

\* What each layer mentions, in its order: <<"pos", value>> or <<"kw", name, value>>.
Mentions(collection) ==
  CASE collection[1] = "none" -> <<>>
    [] collection[1] = "seq"  -> [i \in DOMAIN collection[2] |-> <<"pos", collection[2][i]>>]
    [] collection[1] = "map"  ->
         [i \in DOMAIN collection[2] |-> <<"kw", collection[2][i][1], collection[2][i][2]>>]
TaskOwn(list, k) == IF Len(list) = 1 THEN list[1] ELSE list[k]
ArgLayers(k) ==
  << req.package_args, IF req.shape = "array" THEN TaskOwn(req.args_list, k) ELSE req.args,
     req.override_args >>
EnvLayers(k) ==
  << req.package_env, IF req.shape = "array" THEN TaskOwn(req.env_list, k) ELSE req.env_vars,
     req.override_env >>
EnvNames(layers) == UNION {DOMAIN layers[i] : i \in DOMAIN layers}
\* The last layer that has the name decides.
Decided(layers, name) ==
  layers[CHOOSE i \in DOMAIN layers : /\ name \in DOMAIN layers[i]
                                      /\ \A j \in i + 1..Len(layers) : name \notin DOMAIN layers[j]][name]
\* The shell sees the environment asked for over the one its host has.
AskedEnv(k) ==
  [name \in EnvNames(EnvLayers(k)) |-> Decided(EnvLayers(k), name)]
  ++ Visible(script.built.command, HostEnv(k), ProcessEnv(k, ran[k].rank)) ++ (IF req.shape = "array" THEN Nothing ELSE Entry("EXEX_TASK_ID", Decimal(0)))
AskedArgv(k) ==
  LET said  == Mentions(ArgLayers(k)[1]) \o Mentions(ArgLayers(k)[2]) \o Mentions(ArgLayers(k)[3])
      same(i, j) == said[i][1] = "kw" /\ said[j][1] = "kw" /\ said[i][2] = said[j][2]
      last(i) == CHOOSE j \in DOMAIN said : same(i, j) /\ \A m \in DOMAIN said : same(i, m) => m <= j
      words(i) == CASE said[i][1] = "pos" -> << ARG_ESCAPER(said[i][2]) >>
                    [] \E j \in 1..i - 1 : same(i, j) -> <<>>
                    [] OTHER -> export_keyword(said[i][2], said[last(i)][3])
      all == FlattenSeq([i \in DOMAIN said |-> words(i)])
  IN  [i \in DOMAIN all |-> ExpandWord(all[i], AskedEnv(k))]

\* What the client asks of the scheduler for every job, left to it by an author
\* whose own directives name none of it and whose skips are in the text of none of
\* it (a skip drops every line it is in, by its value too); and a task whose author
\* also left alone the very variable that selects it.
ClientDirectives == {"job-name", "output", "array", "time", "N", "o", "e", "t", "h_rt"}
ClientLines ==
  {line \in header_lines(Payload, IF Payload.kind = "array" THEN Len(Payload.args) ELSE 0, script.directory) :
     line[1] \in ClientDirectives}
LeftToClient ==
  executor.kind # "local" =>
    /\ ClientDirectives \cap (Names(executor.extra_directives \cup executor.resources)
                             \cup IF executor.kind = "slurm" THEN {}
                                  ELSE Names(executor.parallel_environments)) = {}
    /\ \A skip \in executor.skip_directives : \A line \in ClientLines : ~InText(line, skip)
Sound(k) == LeftToClient /\ IndexName(Payload) \notin EnvNames(EnvLayers(k))
Started == IF phase = "submitted" THEN {k \in DOMAIN ran : Sound(k)} ELSE {}

\* A task's command line is what was asked for it: every positional argument in
\* order, every keyword at its first mention with the value of the last layer
\* that gives it (package, job or array task, overrides of `add`), and flags
\* repeated for a flat sequence, through merges, names, groups, broadcasts, the
\* case statement of its own index and the shell.
ArgvLayering == \A k \in Started : ran[k].argv = AskedArgv(k)

\* A task's environment is layered the same way, and the author's own settings
\* do not displace what the runner tells the payload after them.
Reserved ==
  {"EXEX_LINKS_FILE"}
  \cup (IF IsManaged THEN {"EXEX_ATTEMPT_DIR"} ELSE {})
  \cup (IF req.continuation THEN {"EXEX_PAUSE_REQUEST", "EXEX_PAUSE_READY"} ELSE {})
  \cup (IF req.inputs # <<>> \/ req.continuation THEN {"EXEX_INPUT_DIR"} ELSE {})
  \cup (IF HasOutputs THEN {"EXEX_OUTPUT_DIR"} ELSE {})
EnvLayering ==
  \A k \in Started :
    /\ \A name \in EnvNames(EnvLayers(k)) \ Reserved : ran[k].env[name] = AskedEnv(k)[name]
    /\ IsManaged => ran[k].env["EXEX_ATTEMPT_DIR"] = HostEnv(k)["EXEX_ATTEMPT_DIR"]
    /\ HasOutputs => ran[k].env["EXEX_OUTPUT_DIR"] = "outputs"

\* Every task the scheduler starts finds its own branch, and what it prints,
\* reports and retains is where get_logs, get_links and artifacts of the catalog's
\* record, with the current attempt's columns over it, look for its zero-based
\* index: the header, the case statements, the directories, the mounts and the
\* native ids agree on one numbering, in a container and out of it, in every
\* attempt; and a worker of srun is told its own rank.
TaskReadsItsOwn ==
  \A k \in Started :
    LET task == IF record.is_array THEN k - 1 ELSE 0
        now  == execution_record(record, current)
    IN  /\ ran[k].exit = 0 /\ KnownTask(record, task)
        /\ Backend # "local" =>
             native_id(now, task) = <<IF IsManaged THEN NativeJob ELSE JobId, k>>
        /\ ran[k].links = get_links(record, current, task)
        /\ HasLogs(record) => ran[k].log = get_logs(record, current, task)
        /\ (HasOutputs /\ (IsManaged => sched[k] = "COMPLETED")) =>
             ran[k].artifacts = artifacts(record, current, task)
        /\ (Backend = "slurm" /\ "SLURM_PROCID" \notin EnvNames(EnvLayers(k))) =>
             ran[k].env["SLURM_PROCID"] = Decimal(ran[k].rank)

\* The job read back from the catalog asks for the very commands and
\* environments that were submitted (enums, objects and sequences included).
SnapshotRunsTheSame ==
  phase = "submitted" =>
    LET saved == _decode(record.job)
    IN  /\ Tasks(saved) = Tasks(Payload)
        /\ \A i \in 1..Tasks(Payload) : /\ TaskArgs(saved, i) = TaskArgs(Payload, i)
                                        /\ TaskEnv(saved, i) = TaskEnv(Payload, i)

\* A job only runs where its bundle was put and its inputs are, and the
\* environment changing after the experiment was created makes no difference.
PlacedWhereItRuns ==
  LET now == snapshot(Configuration, frozen)
  IN  /\ phase = "submitted" =>
           LET there == SettingsOf(Payload.executor, now)
           IN  /\ bundle = create_artifact_store(there, project(now))
               /\ Endpoint(record.hostname, record.username) = EndpointOf(there)
               /\ \A i \in DOMAIN bindings : bindings[i].endpoint = EndpointOf(there)
      /\ (phase = "refused" /\ record.job # Nothing) =>
           \/ ~Buildable(flatten_job(unit)[1])
           \/ ~Reachable(executor, now)
           \/ package_target(req.packaged_for, now) # package_target(executor, now)

\* The scheduler is asked for what the payload counts on: the walltime to the
\* second, and, for a container that is told to use GPUs on Slurm, some GPU in the
\* job and in the worker step of an attached one (on Grid Engine the mere name of a
\* "gpu" resource tells it so, even with the amount 0, and only UCL's clusters are
\* spoken of).  There it is asked, in the terms of the cluster it goes to, for the
\* GPUs, the memory and the slots that the requirements name, and its container for
\* GPUs if they name some, unless the environment has come to name another cluster
\* meanwhile.
Seconds(t) ==
  IF Len(t) = 4 THEN 86400 * t[1] + 3600 * t[2] + 60 * t[3] + t[4]
  ELSE 3600 * t[1] + 60 * t[2] + t[3]
AsksGpu(directives) ==
  \E d \in directives :
    \/ d[1] \in GpuOptions /\ Text(d[2]) # "0"
    \/ d[1] = "gres" /\ NamesGpu(d[2][2])
Needed(type) ==
  LET named == {need \in ToSet(req.requirements.resources) : ResourceType[need[1]] = type}
  IN  IF named = {} THEN 0 ELSE (CHOOSE need \in named : TRUE)[2]
Amount(directives, name) ==
  LET values == {d[2][2] : d \in {d \in directives : d[1] = name}}
  IN  IF values = {} THEN 0 ELSE CHOOSE v \in values : v \in Nat
AsksAsNeeded(asked) ==
  LET myriad == default_cluster(Site) = Setting("myriad")
      more   == {d \in asked : d[1] = "gpu" /\ d[2][1] = "int"}
      gpus   == IF myriad THEN Amount(more, "gpu")
                ELSE IF <<"gpu", <<"str", "true">> >> \notin asked THEN 0
                ELSE IF more = {} THEN 1 ELSE Amount(more, "gpu")
      container == script.built.job.executable.image_type = "singularity"
  IN  /\ gpus = Needed("GPU")
      /\ Amount(asked, IF myriad THEN "mem" ELSE "tmem") = Needed("RAM")
      /\ gpus > 0 => "h_vmem" \notin Names(asked)
      /\ Needed("CPU") > 1 => Amount(asked, "smp") = Needed("CPU")
      /\ container => /\ script.built.command.gpu = (Needed("GPU") > 0)
                      /\ myriad => "singularity-env" \in ToSet(script.built.modules)
HeaderMatches ==
  (phase = "submitted" /\ Backend # "local" /\ executor.skip_directives = {} /\ LeftToClient) =>
    LET salloc == IsManaged /\ Payload.executor.mode = "salloc"
        asked  == IF salloc THEN script.driver.salloc
                  ELSE IF IsManaged THEN script.driver.header ELSE script.built.header
        times  == {d[2][2] : d \in {d \in asked : d[1] \in {"time", "h_rt"}}}
        wanted == IF req.requirements = Nothing THEN req.executor.walltime
                  ELSE _convert_time(req.requirements.walltime)
    IN  /\ {Seconds(t) : t \in times} = (IF wanted = <<"none">> THEN {} ELSE {wanted[2]})
        /\ (Backend = "slurm" /\ script.built.command.gpu) =>
             AsksGpu(asked) /\ (salloc => AsksGpu(script.driver.step))
        /\ (req.requirements # Nothing /\ changes = 0) => AsksAsNeeded(asked)

\* get_status never says more than is so, whatever rows the accounting has yet
\* to show, however old they are, and whoever had the job's id before.
StatusIsTrue ==
  (phase = "submitted" /\ LeftToClient) =>
    /\ status = "completed" => \A k \in DOMAIN sched : sched[k] = "COMPLETED"
    /\ status = "failed"    => \E k \in DOMAIN sched : sched[k] \in Done \ {"COMPLETED"}
    /\ status = "stopped"   => \E k \in DOMAIN sched : sched[k] = "CANCELLED"

\* When qstat's answer can be read, its rows, ranges and steps tell exactly which of
\* the job's tasks wait and which run as it is asked, and it can be read whenever
\* the tasks that wait are one range (or there are none); the ids qsub answered are
\* the tasks' own; and the ranges of the failed tasks, given to rerun them, are
\* exactly the failed tasks.
GridIds == {<<JobId, k>> : k \in DOMAIN sched}
Unfinished == {id \in GridIds : sched[id[2]] \notin Done}
Failed == InState("FAILED")
TellsTheTasks(answer) ==
  IF answer.raised THEN InState("PENDING") # {} /\ ~IsRange(InState("PENDING"))
  ELSE answer.infos = [id \in Unfinished |-> IF sched[id[2]] = "RUNNING" THEN "r" ELSE "qw"]
GridAnswersAreTrue ==
  [][(phase = "submitted" /\ Backend = "gridengine" /\ LeftToClient) =>
       /\ GridIds = split_job_ids(IF record.is_array THEN <<JobId, 1, record.task_count, 1>> ELSE <<JobId>>)
       /\ UNION {range[1]..range[2] : range \in merge_taskids(Failed)} = Failed
       /\ ListJobs => TellsTheTasks(listed')]_pipeline
===========================================================================
