---------------------------- MODULE JobScript ----------------------------
(***************************************************************************)
(* From a packaged job to the script its scheduler runs, and what that     *)
(* script does on one task: the header each backend asks for               *)
(* (execution/slurm.py, execution/gridengine.py), the parameter file every *)
(* payload sources and the container around it                             *)
(* (execution/job_script_builder.py, execution/local.py).                  *)
(*                                                                         *)
(* A header is a set of directives <<name, value>>; the parameter file is  *)
(* a sequence of shell statements, run by Source; a directory is a tuple   *)
(* <<root, component, task>>.                                              *)
(***************************************************************************)
EXTENDS JobBlocks

CONSTANTS
  MaxTasks,      \* bound on the tasks of an array
  InText(_, _) \* the text of a header's line contains that of a skip
ASSUME TasksAssumption == MaxTasks \in Nat

\* The text of a number; different for every index of this model.
Decimal(n) == ToString(n)
ASSUME DecimalAssumption == \A m, n \in 0..MaxTasks + 1 : Decimal(m) = Decimal(n) => m = n

---------------------------------------------------------------------------
(* The executors an author may ask for, with nothing requested.            *)
(* container_options is <<>> for none, or <<options>>.                     *)

\* A walltime: none, a number of seconds, or a timedelta of days and seconds.
_convert_time(time) ==
  CASE time[1] = "none"      -> time
    [] time[1] = "int"       -> <<"seconds", time[2]>>
    [] time[1] = "timedelta" -> <<"seconds", 86400 * time[2] + time[3]>>

SingularityOptions == [runtime |-> "singularity", bind |-> <<>>, extra_options |-> {}]
DockerOptions == [runtime |-> "docker", bind |-> <<>>, extra_options |-> {}]
ShifterOptions == [runtime |-> "shifter", bind |-> <<>>, extra_options |-> {}, modules |-> <<>>]

LocalExecutor == [kind |-> "local", container_options |-> <<>>]
GridEngine(walltime, resources, parallel_environments, modules) ==
  [kind |-> "gridengine", cluster |-> <<"none">>, requirements |-> {}, resources |-> resources,
   parallel_environments |-> parallel_environments, walltime |-> _convert_time(walltime),
   queue |-> <<"none">>, reserved |-> <<"none">>, log_directory |-> <<"none">>, merge_output |-> TRUE,
   project |-> <<"none">>, account |-> <<"none">>, max_parallel_tasks |-> 0, modules |-> modules,
   extra_directives |-> {}, skip_directives |-> {}, container_options |-> <<>>]
GridEngineExecutor(walltime) == GridEngine(walltime, {}, {}, <<>>)
\* srun_options: run once (FALSE), or by every worker srun starts.
SlurmExecutor(walltime) ==
  [kind |-> "slurm", cluster |-> <<"none">>, mode |-> "sbatch", resources |-> {},
   walltime |-> _convert_time(walltime), log_directory |-> <<"none">>, exclusive |-> FALSE,
   partition |-> <<"none">>, modules |-> <<>>, srun_options |-> FALSE, extra_directives |-> {},
   skip_directives |-> {}, container_options |-> <<>>]
OptionsOf(executor, default) ==
  IF executor.container_options = <<>> THEN default ELSE executor.container_options[1]

\* executable._target, image and the arguments the package was given.
Executable(name, image_type, args, env_vars, target) ==
  [name |-> name, image_type |-> image_type, args |-> args, env_vars |-> env_vars,
   archive |-> "tar", target |-> target]

Truthy(value) == value \notin {<<"none">>, <<"int", 0>>, <<"str", "">>, <<"bool", FALSE>>}
Or(value, default) == IF value = <<"none">> THEN default ELSE value
Opt(condition, name, value) == IF condition THEN {<<name, value>>} ELSE {}
Names(directives) == {d[1] : d \in directives}

---------------------------------------------------------------------------
(* The three backends *)

ARRAY_TASK_ID(kind) ==
  CASE kind = "slurm" -> "SLURM_ARRAY_TASK_ID" [] kind = "gridengine" -> "SGE_TASK_ID"
    [] kind = "local" -> "LOCAL_TASK_ID"
ARRAY_TASK_OFFSET == 1
\* The variables of this model that JOB_ENV_PATTERN matches: they are all a
\* container with an environment of its own is told of the job script's.
JOB_ENV_PATTERN(kind) ==
  {ARRAY_TASK_ID(kind)} \cup (IF kind = "gridengine" THEN {} ELSE {"CUDA_VISIBLE_DEVICES"})
                         \cup (IF kind = "slurm" THEN {"SLURM_PROCID"} ELSE {})

\* The options of sbatch whose names begin with "gpus".
GpuOptions == {"gpus", "gpus-per-node", "gpus-per-socket", "gpus-per-task"}
\* A gres value is <<"gres", items>>, an item the fields between its colons.
NamesGpu(gres) == \E i \in DOMAIN gres : Head(gres[i]) = "gpu" /\ Last(gres[i]) # "0"

is_gpu_requested(executor) ==
  LET r == executor.resources
  IN  CASE executor.kind = "slurm" ->
             \E d \in r :
               \/ d[1] \in GpuOptions /\ Truthy(d[2]) /\ Text(d[2]) # "0"
               \/ d[1] = "gres" /\ NamesGpu(d[2][2])
        [] executor.kind = "gridengine" ->
             "gpu" \in Names(executor.parallel_environments) \cup Names(executor.requirements) \cup Names(r)
        [] executor.kind = "local" -> TRUE      \* whether nvidia-smi is installed

\* Variant with a slip: the days are dropped.
SlurmTimeOfDay(seconds) ==
  <<(seconds % 86400) \div 3600, (seconds % 3600) \div 60, seconds % 60>>

\* A duration in seconds as [days-]hours:minutes:seconds.
SlurmTime(seconds) ==
  LET days == seconds \div 86400
      rest == seconds % 86400
      hms  == <<rest \div 3600, (rest % 3600) \div 60, rest % 60>>
  IN  IF days > 0 THEN <<days>> \o hms ELSE hms
SgeTime(seconds) == <<seconds \div 3600, (seconds % 3600) \div 60, seconds % 60>>

\* A line is skipped for any skip its text contains, in its name or its value; the
\* author's own lines are added after.
Finish(lines, executor) ==
  {line \in lines : \A skip \in executor.skip_directives : ~InText(line, skip)}
    \cup executor.extra_directives

\* The name of the job, and its logs where the author or the job has them:
\* <<"rel", directory>>, <<"abs", directory>>.
JobName == "job"
Logs(executor, job_log_dir) == Or(executor.log_directory, <<"abs", job_log_dir>>)

\* n is the number of array tasks, 0 for a job that is no array.
slurm_lines(executor, n, job_log_dir) ==
  LET r    == executor.resources
      file == IF n > 0 THEN <<"%x", "%A", "%a">> ELSE <<"%x", "%j">>
  IN  {<<"job-name", <<"str", JobName>> >>}
      \cup Opt(Names(r) \cap {"ntasks", "ntasks-per-node"} = {}, "ntasks", <<"int", 1>>)
      \cup {d \in r : Truthy(d[2])}
      \cup Opt(executor.walltime # <<"none">>, "time", <<"time", SlurmTime(executor.walltime[2])>>)
      \cup {<<"output", <<"path", Logs(executor, job_log_dir), file>> >>}
      \cup Opt(executor.exclusive, "exclusive", <<"none">>)
      \cup Opt(Truthy(executor.partition), "partition", executor.partition)
      \cup Opt(n > 0, "array", <<"range", 1, n>>)
slurm_header(executor, n, job_log_dir) == Finish(slurm_lines(executor, n, job_log_dir), executor)

gridengine_lines(executor, n, job_log_dir) ==
  LET r       == executor.resources
      file(e) == <<"path", Logs(executor, job_log_dir),
                   IF n > 0 THEN <<"$JOB_NAME", e, "$JOB_ID", "$TASK_ID">>
                   ELSE <<"$JOB_NAME", e, "$JOB_ID">> >>
      reserved == IF executor.reserved # <<"none">> THEN executor.reserved[2]
                  ELSE \/ executor.parallel_environments # {}
                       \/ "gpu" \in Names(executor.requirements) \cup Names(r)
  IN  {<<"N", <<"str", JobName>> >>}
      \cup {d \in r : Truthy(d[2])}
      \cup {pe \in executor.parallel_environments : pe[2][2] > 0}
      \cup Opt(executor.walltime # <<"none">>, "h_rt", <<"time", SgeTime(executor.walltime[2])>>)
      \cup Opt(Truthy(executor.queue), "q", executor.queue)
      \cup Opt(reserved, "R", <<"str", "y">>)
      \cup {<<"o", file("o")>>, <<"e", file("e")>>}
      \cup Opt(executor.merge_output, "j", <<"str", "y">>)
      \cup Opt(n > 0, "t", <<"range", 1, n>>)
      \cup Opt(n > 0 /\ executor.max_parallel_tasks > 0, "tc",
                 <<"int", executor.max_parallel_tasks>>)
      \cup {<<"cwd", <<"none">> >>, <<"S", <<"str", "/bin/bash">> >>}
      \cup Opt(Truthy(executor.project), "P", executor.project)
      \cup Opt(Truthy(executor.account), "A", executor.account)
gridengine_header(executor, n, job_log_dir) == Finish(gridengine_lines(executor, n, job_log_dir), executor)

\* Shifter's image and modules are native Slurm options of the job.
WithShifter(job) ==
  LET modules == OptionsOf(job.executor, ShifterOptions).modules
      own     == {"image"} \cup (IF modules = <<>> THEN {} ELSE {"module"})
  IN  IF job.executable.image_type # "shifter" THEN job.executor
      ELSE [job.executor EXCEPT !.resources =
              {d \in @ : d[1] \notin own} \cup {<<"image", <<"str", "image">> >>}
              \cup Opt(modules # <<>>, "module", <<"str", "modules">>)]

create_job_script_header(job, n, job_log_dir) ==
  CASE job.executor.kind = "slurm"      -> slurm_header(WithShifter(job), n, job_log_dir)
    [] job.executor.kind = "gridengine" -> gridengine_header(job.executor, n, job_log_dir)
    [] job.executor.kind = "local"      -> {}

\* The lines of that header before any is skipped.
header_lines(job, n, job_log_dir) ==
  CASE job.executor.kind = "slurm"      -> slurm_lines(WithShifter(job), n, job_log_dir)
    [] job.executor.kind = "gridengine" -> gridengine_lines(job.executor, n, job_log_dir)
    [] job.executor.kind = "local"      -> {}

\* The modules a script loads before anything else.
create_job_script_prologue(job) == IF job.executor.kind = "local" THEN <<>> ELSE job.executor.modules

\* The script of a managed job: its driver's own header, and the options the
\* driver takes for the allocations and the worker steps it starts.
salloc_options(header) ==
  {d \in header : d[1] \notin
    {"output", "error", "signal", "requeue", "no-requeue", "open-mode"}}
step_options(header) ==
  {d \in header : d[1] \in GpuOptions \cup {"gres", "cpus-per-task", "cpus-per-gpu"}}
managed_script(job, pause_before, job_log_dir, log_directory) ==
  LET header == create_job_script_header(job, 0, job_log_dir)
  IN  [header |-> IF job.executor.mode = "sbatch"
                  THEN header \cup {<<"requeue", <<"none">> >>,
                                    <<"signal", <<"B:USR1", pause_before>> >>,
                                    <<"open-mode", <<"str", "append">> >>}
                  ELSE {},
       directory |-> job_log_dir, log_directory |-> log_directory, job_name |-> JobName,
       salloc |-> salloc_options(header), step |-> step_options(header)]

---------------------------------------------------------------------------
(* The parameter file *)

Tasks(job) == IF job.kind = "array" THEN Len(job.args) ELSE 1
TaskArgs(job, i) ==
  to_list(merge_args(<< <<"args", job.executable.args>>,
                        <<"args", IF job.kind = "array" THEN job.args[i] ELSE job.args>> >>))
\* Variant with a slip: the packaged environment wins.
PackagedEnvWins(job, i) ==
  job.executable.env_vars ++ (IF job.kind = "array" THEN job.env_vars[i] ELSE job.env_vars)
TaskEnv(job, i) ==
  (IF job.kind = "array" THEN job.env_vars[i] ELSE job.env_vars) ++ job.executable.env_vars

\* Variant with a slip: the scheduler's one-based index is taken as it is.
NoOffset(job) == 0

IndexName(job) == IF job.kind = "array" THEN ARRAY_TASK_ID(job.executor.kind) ELSE "EXEX_TASK_ID"
IndexOffset(job) == IF job.kind = "array" THEN ARRAY_TASK_OFFSET ELSE 0

\* case "${index}" in: branches by task, and exit 2 for any other value.
create_env_vars(job) ==
  LET envs == [i \in 1..Tasks(job) |-> TaskEnv(job, i)]
  IN  IF \A i \in DOMAIN envs : DOMAIN envs[i] = {} THEN <<>>
      ELSE << <<"env", IndexName(job), IndexOffset(job), envs>> >>
create_args(job) ==
  << <<"args", IndexName(job), IndexOffset(job), [i \in 1..Tasks(job) |-> TaskArgs(job, i)]>> >>
create_job_args_script(job) ==
  << IF job.kind = "array" THEN <<"need", IndexName(job)>>
     ELSE <<"export", "EXEX_TASK_ID", <<"literal", Decimal(0)>> >> >>
  \o create_env_vars(job) \o create_args(job)

Containerised == {"singularity", "docker"}

link_directory(job, managed, job_log_dir) ==
  IF managed THEN <<"attempt", "links">>
  ELSE IF job.kind = "array" THEN <<"task", job_log_dir, "links", IndexName(job), IndexOffset(job)>>
  ELSE <<"literal", <<job_log_dir, "links", 0>> >>
artifact_destination(job, managed, job_log_dir) ==
  IF managed THEN <<"attempt", "artifacts">>
  ELSE IF job.kind = "array" THEN <<"task", job_log_dir, "artifacts", IndexName(job), IndexOffset(job)>>
  ELSE <<"literal", <<job_log_dir, "artifacts", 0>> >>
link_path(job, managed, job_log_dir) ==
  IF job.executable.image_type \in Containerised THEN <<"literal", <<"/run/exex/links">> >>
  ELSE link_directory(job, managed, job_log_dir)

\* What is appended after the author's own environment, in this order.
create_install_commands(job, managed, continuation, job_log_dir, inputs, outputs) ==
  create_job_args_script(job)
  \o (IF managed THEN << <<"export", "EXEX_ATTEMPT_DIR", <<"host", "EXEX_ATTEMPT_DIR">> >> >>
      ELSE <<>>)
  \o << <<"export", "EXEX_LINKS_FILE", link_path(job, managed, job_log_dir)>> >>
  \o (IF continuation THEN << <<"export", "EXEX_PAUSE_REQUEST", link_path(job, managed, job_log_dir)>>,
                              <<"export", "EXEX_PAUSE_READY", link_path(job, managed, job_log_dir)>> >>
      ELSE <<>>)
  \o (IF inputs \/ continuation THEN << <<"export", "EXEX_INPUT_DIR", <<"literal", "inputs">> >> >>
      ELSE <<>>)
  \o (IF outputs THEN << <<"export", "EXEX_OUTPUT_DIR", <<"literal", "outputs">> >> >> ELSE <<>>)

---------------------------------------------------------------------------
(* The command the script ends in: what its environment begins with, the   *)
(* directories its container sees as <<inside, outside>>, and its GPUs.    *)

\* The file of variables a container is given, written by the job script.
create_environment_command(job) ==
  [file |-> "script", pattern |-> JOB_ENV_PATTERN(job.executor.kind)]

Links == <<"/run/exex/links">>
singularity_command(options, links, use_gpu, env) ==
  [env |-> env, inherits |-> TRUE, binds |-> options.bind \o << <<Links, links>> >>,
   gpu |-> use_gpu]
docker_command(options, links, use_gpu, env) ==
  [env |-> env, inherits |-> FALSE, binds |-> options.bind \o << <<Links, links>> >>,
   gpu |-> use_gpu]
\* Shifter keeps the host's paths, and its environment unless told to clear it.
shifter_command(options, env) ==
  [env |-> env, inherits |-> "--clearenv" \notin options.extra_options, binds |-> options.bind,
   gpu |-> FALSE]

create_entrypoint_commands(job, links, env) ==
  LET gpu  == is_gpu_requested(job.executor)
      type == job.executable.image_type
  IN  CASE type = "singularity" ->
             singularity_command(OptionsOf(job.executor, SingularityOptions), links, gpu, env)
        [] type = "docker"  -> docker_command(OptionsOf(job.executor, DockerOptions), links, gpu, env)
        [] type = "shifter" -> shifter_command(OptionsOf(job.executor, ShifterOptions), env)
        [] OTHER -> [env |-> [file |-> "none", pattern |-> {}], inherits |-> TRUE, binds |-> <<>>,
                     gpu |-> FALSE]

\* Slurm: run by every worker of srun, each with a file it writes itself, once it
\* has its rank.
slurm_entrypoint_commands(job, links) ==
  LET env == create_environment_command(job)
  IN  IF job.executor.kind = "slurm" /\ job.executor.srun_options
      THEN create_entrypoint_commands(job, links, [env EXCEPT !.file = "worker"])
      ELSE create_entrypoint_commands(job, links, env)

\* An archive the script knows how to unpack.
Extractable(archive) == archive \in {"zip", "tar", "tar.gz", "tgz"}

\* container_options must be those of the image's own runtime.
Buildable(job) ==
  /\ \A i \in DOMAIN job.executor.container_options :
       job.executor.container_options[i].runtime = job.executable.image_type
  /\ Extractable(job.executable.archive)

build(job, job_log_dir, continuation, inputs, outputs) ==
  LET managed == continuation \/ (job.executor.kind = "slurm" /\ job.executor.mode = "salloc")
      n       == IF job.kind = "array" THEN Len(job.args) ELSE 0
  IN  [job |-> job, managed |-> managed,
       header |-> create_job_script_header(job, n, job_log_dir),
       modules |-> create_job_script_prologue(job),
       param |-> create_install_commands(job, managed, continuation, job_log_dir, inputs, outputs),
       command |-> slurm_entrypoint_commands(job, link_directory(job, managed, job_log_dir)),
       artifact_dir |-> IF outputs THEN artifact_destination(job, managed, job_log_dir)
                        ELSE <<"none">>]

---------------------------------------------------------------------------
(* Running the script: host is the environment of the job script, worker   *)
(* that of the process which runs the command (the same without srun).     *)

\* The branches of a case statement on env[name] that match.
Branches(env, name, offset, n) ==
  {i \in 1..n : name \in DOMAIN env /\ env[name] = Decimal(offset + i - 1)}

\* $(($name - offset)) for a value the case statements know.
TaskNumber(env, name, offset) ==
  CHOOSE k \in 0..MaxTasks : name \in DOMAIN env /\ env[name] = Decimal(offset + k)

Evaluate(expr, env, host) ==
  CASE expr[1] = "literal" -> expr[2]
    [] expr[1] = "host"    -> host[expr[2]]
    [] expr[1] = "attempt" -> <<env["EXEX_ATTEMPT_DIR"], expr[2], 0>>
    [] expr[1] = "task"    -> <<expr[2], expr[3], TaskNumber(env, expr[4], expr[5])>>

Lookup(env, name) == IF name \in DOMAIN env THEN env[name] ELSE ""
ExpandWord(word, env) ==
  CASE word[1] = "word"  -> word
    [] word[1] = "shell" -> <<"word", Lookup(env, word[2])>>
    [] word[1] = "flag"  -> <<"flag", word[2],
                              IF word[3][1] = "shell" THEN Lookup(env, word[3][2]) ELSE word[3][2]>>

Statement(state, s, host) ==
  LET hit == Branches(state.env, s[2], s[3], Len(s[4]))
      mine == s[4][CHOOSE i \in hit : TRUE]
      after(exit, env, argv) == [env |-> env, argv |-> argv, exit |-> exit]
  IN  IF state.exit # 0 THEN state
      ELSE CASE s[1] = "need"   -> after(IF s[2] \in DOMAIN state.env THEN 0 ELSE 2, state.env, state.argv)
             [] s[1] = "export" -> after(0, Entry(s[2], Evaluate(s[3], state.env, host)) ++ state.env, state.argv)
             [] s[1] \in {"env", "args"} /\ hit = {} -> after(2, state.env, state.argv)
             [] s[1] = "env" /\ hit # {}  -> after(0, mine ++ state.env, state.argv)
             [] s[1] = "args" /\ hit # {} ->
                  after(0, state.env, [i \in DOMAIN mine |-> ExpandWord(mine[i], state.env)])

\* What the command's environment begins with: its file, over the process's own
\* where the runtime keeps that.
Visible(command, host, worker) ==
  LET written == IF command.env.file = "worker" THEN worker ELSE host
  IN  [v \in DOMAIN written \cap command.env.pattern |-> written[v]]
      ++ (IF command.inherits THEN worker ELSE <<>>)

\* `. job-param.sh; entrypoint "$@"`
Source(script, host, worker) ==
  FoldLeft(LAMBDA state, s : Statement(state, s, host),
           [env |-> Visible(script.command, host, worker), argv |-> <<>>, exit |-> 0], script.param)

\* Where the file the payload is told to report its links in is on the host: in
\* the directory last mounted there, or at that very path.
LinksLand(script, host, worker) ==
  LET path   == Source(script, host, worker).env["EXEX_LINKS_FILE"]
      binds  == script.command.binds
      inside == {i \in DOMAIN binds : binds[i][1] = path}
  IN  IF inside = {} THEN path
      ELSE Evaluate(binds[CHOOSE i \in inside : \A j \in inside : j <= i][2], host, host)
ArtifactsLand(script, host) == Evaluate(script.artifact_dir, host, host)
===========================================================================
