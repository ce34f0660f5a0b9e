--------------------------- MODULE MCJobPipeline ---------------------------
(* The instance of JobPipeline that TLC checks: one request of each shape,   *)
(* backend and image, with values that collide between the layers.           *)
EXTENDS JobPipeline

Str(s) == <<"str", s>>
Pos(v) == <<"seq", <<v>> >>

MCMe == "here"
MCMyNames == {"here", "here.site"}
MCMyUser == "me"
MCConfiguration ==
  [clusters |-> << [name |-> "cs", server |-> Str("login"), user |-> Str("me"), root |-> "/home"],
                   [name |-> "myriad", server |-> Str("login"), user |-> Str("me"), root |-> "/scratch"],
                   [name |-> "here", server |-> NoSetting, user |-> NoSetting, root |-> "/local"] >>,
   project |-> NoSetting, local_root |-> "/local", environment |-> NoSetting]
MCEnvironments ==
  { [EXEX_PROJECT |-> NoSetting, EXEX_CLUSTER |-> NoSetting],
    [EXEX_PROJECT |-> Str("p"), EXEX_CLUSTER |-> Str("myriad")],
    [EXEX_PROJECT |-> NoSetting, EXEX_CLUSTER |-> Str("gone")] }

\* The skips of these requests in the lines of their headers: "1-" is in a range of
\* tasks and after the one day of a walltime, "gpu" in a directory's name too.
MCInText(line, skip) ==
  CASE skip = "--ntasks=" -> line[1] = "ntasks"
    [] skip = "-cwd"      -> line[1] = "cwd"
    [] skip = "1-"        -> line[1] = "array" \/ (line[1] = "time" /\ Len(line[2][2]) = 4)
    [] skip = "gpu"       -> line[1] \in GpuOptions \/ (line[1] = "output" /\ line[2][2] = <<"rel", "gpu">>)
Skipping(used, skip) == [used EXCEPT !.skip_directives = {skip}]

Artifact(host, user) == [id |-> "digest", hostname |-> host, username |-> user, store |-> "/old"]
Slurm == SlurmExecutor(<<"timedelta", 1, 3661>>)
Grid == [GridEngineExecutor(<<"int", 90061>>) EXCEPT !.project = Str("p"), !.account = Str("a")]
Here(used) == [used EXCEPT !.cluster = Str("here"), !.log_directory = <<"rel", "mine">>]
With(used, options) == [used EXCEPT !.container_options = <<options>>]
Model == [model |-> <<"runs", "model">>]

Base ==
  [shape |-> "job", requirements |-> <<>>, executor |-> Slurm, packaged_for |-> Slurm, image_type |-> "none",
   package_args |-> <<"map", << <<"lr", <<"int", 1>>>>, <<"seed", <<"int", 0>>>> >> >>,
   package_env |-> [A |-> "package", B |-> "package"],
   args |-> <<"map", << <<"lr", <<"int", 2>>>>, <<"fast", <<"bool", FALSE>>>> >> >>,
   env_vars |-> [B |-> "job", EXEX_ATTEMPT_DIR |-> "mine", EXEX_OUTPUT_DIR |-> "mine"],
   args_list |-> <<>>, env_list |-> <<>>, override_args |-> <<"none">>, override_env |-> <<>>,
   stray |-> FALSE, inputs |-> <<>>, outputs |-> <<>>, continuation |-> FALSE, checkpoint |-> "model",
   pause_before |-> 60]
On(used) == [Base EXCEPT !.executor = used, !.packaged_for = used]
Array(used, args, envs) ==
  [On(used) EXCEPT !.shape = "array", !.args_list = args, !.env_list = envs, !.outputs = Model]
Needs(resources, place) ==
  [On(Grid) EXCEPT !.image_type = "singularity", !.requirements =
     [resources |-> resources, location |-> place, walltime |-> <<"int", 90061>>]]
Gpu(name, value) == [Slurm EXCEPT !.resources = {<<name, value>>}]
Kw(name, value) == <<"map", << <<name, value>> >> >>

MCRequests ==
  { [Base EXCEPT !.override_args = Kw("lr", <<"int", 3>>), !.override_env = [B |-> "add"], !.outputs = Model],
    [Base EXCEPT !.shape = "group", !.args = Pos(<<"enum", "RED">>),
                 !.override_args = Kw("new", <<"list", << <<"enum", "RED">>, <<"obj", "x">> >> >>)],
    [Base EXCEPT !.shape = "nested", !.args = Kw("deep", <<"list", << <<"list", <<>> >> >> >>),
                 !.override_args = Kw("lr", <<"none">>)],
    [Base EXCEPT !.shape = "pair"],
    [Base EXCEPT !.stray = TRUE],
    [Base EXCEPT !.args = Pos(<<"shell", "B">>), !.inputs = << Artifact(Str("here.site"), NoSetting),
                                                               Artifact(Str("login"), Str("me")) >>],
    [Base EXCEPT !.packaged_for = [Slurm EXCEPT !.cluster = Str("cs")]],
    [Base EXCEPT !.env_vars = [EXEX_TASK_ID |-> "mine"]],
    [On(With(Slurm, DockerOptions)) EXCEPT !.image_type = "singularity"],
    [Base EXCEPT !.outputs = [model |-> <<"..", "model">>]],
    [Base EXCEPT !.continuation = TRUE],
    [On([Here(Slurm) EXCEPT !.srun_options = TRUE]) EXCEPT !.image_type = "docker", !.outputs = Model],
    [On(Gpu("gpus", <<"int", 1>>)) EXCEPT !.image_type = "singularity", !.outputs = Model],
    [On(Gpu("gres", <<"gres", << <<"gpu", "a100", "2">>, <<"nvme">> >> >>)) EXCEPT !.image_type = "docker"],
    [On(Gpu("gpus", <<"str", "0">>)) EXCEPT !.image_type = "docker"],
    [On(With([Gpu("image", <<"str", "old">>) EXCEPT !.srun_options = TRUE],
             [ShifterOptions EXCEPT !.extra_options = {"--clearenv"}, !.modules = <<"gpu">>]))
       EXCEPT !.image_type = "shifter", !.outputs = Model, !.continuation = TRUE],
    [On([Here(Gpu("gpus-per-task", <<"int", 1>>)) EXCEPT !.mode = "salloc", !.srun_options = TRUE])
       EXCEPT !.image_type = "singularity", !.outputs = Model],
    [On([Gpu("gres", <<"gres", << <<"gpu", "2">> >> >>) EXCEPT !.mode = "salloc"])
       EXCEPT !.image_type = "docker", !.outputs = Model, !.continuation = TRUE],
    [On([SlurmExecutor(<<"int", 60>>) EXCEPT !.srun_options = TRUE]) EXCEPT !.outputs = Model, !.continuation = TRUE],
    [On(LocalExecutor) EXCEPT !.outputs = Model, !.inputs = << Artifact(NoSetting, NoSetting) >>],
    Array(LocalExecutor, << Pos(<<"int", 1>>), Pos(<<"int", 2>>) >>, << [B |-> "one"], <<>> >>),
    Array(Here(Slurm), << Kw("lr", <<"int", 5>>) >>, << [B |-> "one"], [C |-> "two"], <<>> >>),
    Array(Slurm, << Pos(<<"int", 1>>), Pos(<<"int", 2>>) >>,
          << [SLURM_ARRAY_TASK_ID |-> "2"], [SLURM_ARRAY_TASK_ID |-> "1"] >>),
    Array(Slurm, << Pos(<<"int", 1>>), Pos(<<"int", 2>>) >>, << <<>>, <<>>, <<>> >>),
    [Array([Gpu("gpus", <<"int", 1>>) EXCEPT !.srun_options = TRUE],
           << Pos(<<"int", 1>>), Pos(<<"int", 2>>) >>, << <<>> >>) EXCEPT !.image_type = "docker"],
    Array(Grid, << Pos(<<"int", 1>>), Pos(<<"int", 2>>), Pos(<<"int", 3>>), Pos(<<"int", 4>>) >>,
          << <<>> >>),
    [On(Skipping(Slurm, "--ntasks=")) EXCEPT !.outputs = Model],
    [On([Skipping(Gpu("gpus", <<"int", 1>>), "gpu") EXCEPT !.log_directory = <<"rel", "gpu">>])
       EXCEPT !.image_type = "docker"],
    Array(Skipping(Slurm, "1-"), << Pos(<<"int", 1>>), Pos(<<"int", 2>>) >>, << <<>> >>),
    Array(Skipping(Grid, "-cwd"), << Pos(<<"int", 1>>), Pos(<<"int", 2>>) >>, << <<>> >>),
    Needs(<< <<"gpu", 2>>, <<"RAM", 8>>, <<"cpu", 1>> >>, NoSetting),
    Needs(<< <<"cpu", 4>>, <<"ram", 8>>, <<"GPU", 0>> >>, NoSetting),
    Needs(<< <<"ram", 8>>, <<"gpu", 1>> >>, NoSetting),
    Needs(<< <<"gpu", 1>>, <<"GPU", 1>> >>, NoSetting),
    Needs(<< <<"tpu", 1>> >>, NoSetting),
    Needs(<< <<"ram", 8>> >>, Str("cs")),
    On([Grid EXCEPT !.parallel_environments = {<<"mpi", <<"int", 2>>>>}]) }
===========================================================================
