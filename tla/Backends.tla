----------------------------- MODULE Backends -----------------------------
(***************************************************************************)
(* The clients of the three backends: what each makes of a job and what it *)
(* keeps of the submission (execution/slurm.py, gridengine.py, local.py),  *)
(* where the author then finds a task's links, logs and artifacts          *)
(* (inspection.py, outputs.py), and what the schedulers answer and is read *)
(* into it (clusters/slurm.py, clusters/gridengine.py, inspection.py).     *)
(*                                                                         *)
(* A native id is <<job, task>>, task 0 for a job that is no array; a      *)
(* record is a catalog row, its absent columns <<"none">>.                 *)
(***************************************************************************)
EXTENDS Ucl

---------------------------------------------------------------------------
(* Submission.  native is the id the scheduler gives the job.              *)

job_log_path(store) == ToString(<<store.root, store.project, "logs", JobName>>)
\* A relative directory is below the one a login, or this process, is in.
Absolute(settings, path) ==
  IF path[1] = "abs" THEN path[2]
  ELSE ToString(<<IF settings.server = NoSetting THEN "cwd" ELSE "home", path[2]>>)

\* The columns every client fills in.
Handle(settings, backend, native, job_log_dir, outputs) ==
  [backend |-> backend, native_id |-> native,
   hostname |-> Or(settings.server, Setting(Me)),
   username |-> IF settings.server = NoSetting THEN Setting(MyUser) ELSE settings.user,
   links_directory |-> <<job_log_dir, "links">>,
   artifact_directory |-> IF outputs THEN <<job_log_dir, "artifacts">> ELSE NoSetting]

\* sbatch answers the job's id; salloc's driver has one for each attempt.
slurm_launch(job, config, native, pause_before, continuation, inputs, outputs) ==
  LET settings == SettingsOf(job.executor, config)
      dir      == job_log_path(create_artifact_store(settings, project(config)))
      logs     == Absolute(settings, Logs(job.executor, dir))
      built    == build(job, dir, continuation, inputs, outputs)
  IN  [script |-> [built |-> built, directory |-> dir,
                   driver |-> IF built.managed THEN managed_script(job, pause_before, dir, logs)
                              ELSE <<>>],
       handle |-> Handle(settings, "slurm", IF job.executor.mode = "salloc" THEN 0 ELSE native,
                         dir, outputs)
                  ++ [job_name |-> Setting(JobName), log_directory |-> Setting(logs),
                      execution_directory |-> IF built.managed THEN Setting(dir) ELSE NoSetting]]

\* The columns get_logs and get_status read are not kept of a Grid Engine job.
gridengine_launch(job, config, native, inputs, outputs) ==
  LET settings == SettingsOf(job.executor, config)
      dir      == job_log_path(create_artifact_store(settings, project(config)))
  IN  [script |-> [built |-> build(job, dir, FALSE, inputs, outputs), directory |-> dir,
                   driver |-> <<>>],
       handle |-> Handle(settings, "gridengine", native, dir, outputs)]

LocalHandle(settings, job_log_dir, outputs) ==
  Handle(settings, "local", 0, job_log_dir, outputs) ++ [log_directory |-> Setting(job_log_dir)]
local_launch(job, config, inputs, outputs) ==
  LET dir == job_log_path(create_artifact_store(local_settings(config), project(config)))
  IN  [script |-> [built |-> build(job, dir, FALSE, inputs, outputs), directory |-> dir,
                   driver |-> <<>>],
       handle |-> LocalHandle(local_settings(config), dir, outputs)]

---------------------------------------------------------------------------
(* Inspection.  current is the state.json of a managed job, <<>> before it *)
(* has one.                                                                *)

\* The current attempt's own columns, over the catalog's.
execution_record(record, current) ==
  IF record.execution_directory = NoSetting THEN record ELSE current ++ record

KnownTask(record, task) == task \in 0..record.task_count - 1

\* The id sacct uses for the zero-based task of a unit.
native_id(record, task) == <<record.native_id, IF record.is_array THEN task + 1 ELSE 0>>

get_links(record, current, task) ==
  Append(execution_record(record, current).links_directory, task)

\* Local and Slurm executions have logs, of an attempt if there are attempts.
HasLogs(record) == record.backend \in {"local", "slurm"}
get_logs(record, current, task) ==
  LET r == execution_record(record, current)
  IN  IF r.log_path # NoSetting THEN r.log_path
      ELSE IF r.backend = "local" THEN <<r.log_directory[2], "task", task>>
      ELSE <<r.log_directory[2], r.job_name[2]>> \o native_id(r, task)

\* Where the manifest of a task's artifacts is read; nothing without outputs.
artifacts(record, current, task) ==
  LET root == execution_record(record, current).artifact_directory
  IN  IF root = NoSetting THEN <<>> ELSE Append(root, task)

---------------------------------------------------------------------------
(* Accounting                                                              *)

\* Variants with a slip: rows are told by their id alone; a range's step is one.
AccountingById(rows, job_name) ==
  [id \in {rows[i][1] : i \in DOMAIN rows} |->
     LET i == CHOOSE i \in DOMAIN rows : rows[i][1] = id
                                         /\ \A j \in DOMAIN rows : rows[j][1] = id => j <= i
     IN  <<rows[i][3], rows[i][4]>>]
SplitEveryId(match) ==
  IF Len(match) = 1 THEN {<<match[1], 0>>} ELSE {<<match[1], t>> : t \in match[2]..match[3]}

\* sacct --array: the rows whose name is the job's, so that a recycled id of
\* another job is not taken for this one.  A row is <<id, name, state, code>>.
accounting(rows, job_name) ==
  LET mine == {i \in DOMAIN rows : rows[i][2] = job_name}
  IN  [id \in {rows[i][1] : i \in mine} |->
         LET i == CHOOSE i \in mine : rows[i][1] = id /\ \A j \in mine : rows[j][1] = id => j <= i
         IN  <<rows[i][3], rows[i][4]>>]

SlurmState(native) ==
  CASE native \in {"PENDING", "CONFIGURING", "REQUEUED", "REQUEUE_HOLD"} -> "queued"
    [] native \in {"RUNNING", "COMPLETING", "RESIZING", "STAGE_OUT"} -> "running"
    [] native \in {"FAILED", "TIMEOUT", "NODE_FAIL", "OUT_OF_MEMORY", "BOOT_FAIL", "DEADLINE",
                   "PREEMPTED"} -> "failed"
    [] native = "COMPLETED" -> "completed"
    [] native = "CANCELLED" -> "stopped"
    [] native = "SUSPENDED" -> "paused"
    [] OTHER -> "unknown"

\* One task of an unmanaged unit; a stop the catalog recorded is told as it is.
task_status(record, answer, task) ==
  LET id    == native_id(record, task)
      row   == IF id \in DOMAIN answer THEN answer[id] ELSE <<"UNKNOWN", "">>
      state == SlurmState(row[1])
  IN  CASE state = "completed" /\ row[2] = ""               -> "unknown"
        [] state = "completed" /\ row[2] \notin {"", "0:0"} -> "failed"
        [] state = "stopped" /\ record.state \in {"stopped", "failed"} -> record.state
        [] OTHER -> state

Precedence == <<"failed", "stopped", "unknown", "running", "paused", "queued", "completed">>
\* The first of these states that some task is in.
aggregate(statuses) ==
  LET shown == {i \in DOMAIN Precedence : Precedence[i] \in statuses}
  IN  IF shown = {} THEN "unknown" ELSE Precedence[Min(shown)]

\* The futures of a Local unit's tasks, by what has become of each; none is ever
\* cancelled: stop() leaves them to run, and a waiter cancels only itself.
FutureState(future) ==
  CASE future = "PENDING" -> "queued" [] future = "RUNNING" -> "running"
    [] future = "FAILED"  -> "failed" [] future = "COMPLETED" -> "completed"
local_status(futures) == aggregate({FutureState(futures[k]) : k \in DOMAIN futures})

get_status(record, rows) ==
  LET answer == accounting(rows, record.job_name[2])
  IN  aggregate({task_status(record, answer, task) : task \in 0..record.task_count - 1})

---------------------------------------------------------------------------
(* Grid Engine *)

\* What qsub answers, read as <<job, start, end, step>> or <<job>>.
split_job_ids(match) ==
  IF Len(match) = 1 THEN {<<match[1], 0>>}
  ELSE {<<match[1], t>> : t \in {k \in match[2]..match[3] : (k - match[2]) % match[4] = 0}}

\* The `tasks` of a row of qstat -xml: absent, or a list of numbers and ranges, as
\* the set of its <<first, last, step>>, where a number is its own first and last.
task_ids(row) ==
  IF row[2][1] = "none" THEN {<<row[1], 0>>}
  ELSE UNION {split_job_ids(<<row[1], part[1], part[2], part[3]>>) : part \in row[2][2]}
\* A range is read when it is alone: neither it nor what its first ":" parts is a
\* number in a longer list (ValueError, and nothing is answered).
Unreadable(field) ==
  field[1] = "tasks" /\ \E part, other \in field[2] : part # other /\ part[1] # part[2]
parse_qstat(rows) ==
  LET ids == UNION {task_ids(rows[i]) : i \in DOMAIN rows}
  IN  IF \E i \in DOMAIN rows : Unreadable(rows[i][2]) THEN [raised |-> TRUE, infos |-> <<>>]
      ELSE [raised |-> FALSE, infos |-> [id \in ids |->
              rows[CHOOSE i \in DOMAIN rows :
                     id \in task_ids(rows[i]) /\ \A j \in DOMAIN rows : id \in task_ids(rows[j]) => j <= i][3]]]

\* Runs of consecutive ids, each as <<first, last>>: a run is the ids whose
\* distance to their own position in the sorted list is the same.
Position(ids, id) == Cardinality({other \in ids : other < id})
Run(ids, id) == {other \in ids : other - Position(ids, other) = id - Position(ids, id)}
merge_taskids(ids) == {<<Min(Run(ids, id)), Max(Run(ids, id))>> : id \in ids}
===========================================================================
