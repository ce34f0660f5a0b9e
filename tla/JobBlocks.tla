---------------------------- MODULE JobBlocks ----------------------------
(***************************************************************************)
(* The data an author hands to an experiment: command-line arguments, jobs *)
(* groups and arrays of them, how `add` overrides them, and the snapshot   *)
(* the catalog keeps (_vendor/xmanager/xm/job_blocks.py, job_operators.py, *)
(* core.py, xm_cluster/array_job.py, xm_cluster/job_snapshot.py).          *)
(*                                                                         *)
(* A Python value is a tuple <<kind, payload>>:                            *)
(*   <<"none">>, <<"str", s>>, <<"int", n>>, <<"bool", b>>, <<"obj", s>>,  *)
(*   <<"enum", name>>, <<"shell", s>> (ShellSafeArg), <<"list", values>>,  *)
(*   <<"tuple", values>>.                                                  *)
(* A collection of arguments is <<"none">>, <<"str", s>>, <<"seq", values>>*)
(* <<"map", pairs>> (a dict, in its order) or <<"args", SequentialArgs>>.  *)
(* What one mentions is <<"pos", value>> or <<"kw", name, value>>.         *)
(***************************************************************************)
EXTENDS Integers, FiniteSets, SequencesExt

\* A dict of one entry, and a dict over another: {**g, **f}.
Entry(name, value) == [n \in {name} |-> value]
f ++ g == [n \in DOMAIN f \cup DOMAIN g |-> IF n \in DOMAIN f THEN f[n] ELSE g[n]]

---------------------------------------------------------------------------
(* SequentialArgs *)

EmptyArgs == [items |-> <<>>, kwvalues |-> <<>>]

ingest_regular(args, value) == [args EXCEPT !.items = Append(@, <<"pos", value>>)]

\* Variant with a slip: an override moves its flag to the end.
KeywordMoves(args, name, value) ==
  [items |-> Append(SelectSeq(args.items, LAMBDA item : item # <<"kw", name>>), <<"kw", name>>),
   kwvalues |-> Entry(name, value) ++ args.kwvalues]

\* A keyword keeps the place of its first mention and the value of its last.
ingest_keyword(args, name, value) ==
  [items |-> IF name \in DOMAIN args.kwvalues THEN args.items
             ELSE Append(args.items, <<"kw", name>>),
   kwvalues |-> Entry(name, value) ++ args.kwvalues]

ingest(args, mention) ==
  IF mention[1] = "pos" THEN ingest_regular(args, mention[2])
  ELSE ingest_keyword(args, mention[2], mention[3])

\* What a SequentialArgs mentions, and merging it into another.
Mentioned(args) ==
  [i \in DOMAIN args.items |->
     LET item == args.items[i]
     IN  IF item[1] = "pos" THEN item ELSE <<"kw", item[2], args.kwvalues[item[2]]>>]
merge_from(self, args) == FoldLeft(ingest, self, Mentioned(args))

\* A bare string is refused (ValueError), everything else is imported in order.
Collectable(c) == c[1] # "str"
from_collection(c) ==
  FoldLeft(ingest, EmptyArgs,
    CASE c[1] = "none" -> <<>>
      [] c[1] = "args" -> Mentioned(c[2])
      [] c[1] = "map"  -> [i \in DOMAIN c[2] |-> <<"kw", c[2][i][1], c[2][i][2]>>]
      [] c[1] = "seq"  -> [i \in DOMAIN c[2] |-> <<"pos", c[2][i]>>])

merge_collection(args, c) == merge_from(args, from_collection(c))
merge_args(operands) == FoldLeft(merge_collection, EmptyArgs, operands)

IsFlat(value) ==
  /\ value[1] \in {"list", "tuple"}
  /\ \A i \in DOMAIN value[2] : value[2][i][1] \notin {"list", "tuple"}

\* str(value), and an enum's name.
Printed(payload) == ToString(payload)
Text(value) ==
  CASE value[1] = "none" -> "None"
    [] value[1] = "bool" -> IF value[2] THEN "True" ELSE "False"
    [] value[1] \in {"str", "obj", "enum"} -> value[2]
    [] OTHER -> Printed(value[2])

\* A shell word: quoted text, or text the shell still expands.
ARG_ESCAPER(value) ==
  IF value[1] = "shell" THEN <<"shell", value[2]>> ELSE <<"word", Text(value)>>

export_keyword(name, value) ==
  CASE value[1] = "none" -> <<>>
    [] value[1] = "bool" -> << <<"word", IF value[2] THEN "--" \o name ELSE "--no" \o name>> >>
    [] IsFlat(value)     -> [i \in DOMAIN value[2] |-> <<"flag", name, ARG_ESCAPER(value[2][i])>>]
    [] OTHER             -> << <<"flag", name, ARG_ESCAPER(value)>> >>

to_list(args) ==
  FlattenSeq([i \in DOMAIN args.items |->
    LET item == args.items[i]
    IN  IF item[1] = "pos" THEN << ARG_ESCAPER(item[2]) >>
        ELSE export_keyword(item[2], args.kwvalues[item[2]])])

---------------------------------------------------------------------------
(* Jobs: a Job, a JobConfig, of which ArrayJob is the only one, and a      *)
(* JobGroup.  A tree of groups is kept as its jobs in order, each as       *)
(* <<path, job>> with the keys that lead to it.                            *)

NamedJob(name, executable, executor, args, env_vars) ==
  [kind |-> "job", name |-> name, executable |-> executable, executor |-> executor,
   args |-> args, env_vars |-> env_vars]
Job(executable, executor, args, env_vars) ==
  NamedJob(<<"none">>, executable, executor, args, env_vars)
JobGroup(jobs, constraints) == [kind |-> "group", jobs |-> jobs, constraints |-> constraints]

\* One argument list and one environment per task; a single one is repeated.
Broadcastable(args, env_vars) ==
  \/ Len(args) = Len(env_vars)
  \/ 1 \in {Len(args), Len(env_vars)} /\ 0 \notin {Len(args), Len(env_vars)}
broadcast(list, n) == [i \in 1..n |-> IF Len(list) = 1 THEN list[1] ELSE list[i]]
ArraySize(args, env_vars) == IF Len(args) > Len(env_vars) THEN Len(args) ELSE Len(env_vars)
ArrayJob(executable, executor, args, env_vars) ==
  LET n == ArraySize(args, env_vars)
  IN  [kind |-> "array", name |-> <<"none">>, executable |-> executable, executor |-> executor,
       args |-> broadcast(args, n), env_vars |-> broadcast(env_vars, n)]

\* Every job of a tree with its path; a job by itself is at the root.
Jobs(tree) == IF tree.kind = "group" THEN tree.jobs ELSE << << <<>>, tree>> >>
OnEach(tree, Op(_, _)) ==
  IF tree.kind = "group"
  THEN JobGroup([i \in DOMAIN tree.jobs |-> <<tree.jobs[i][1], Op(tree.jobs[i][1], tree.jobs[i][2])>>],
                tree.constraints)
  ELSE Op(<<>>, tree)

\* The overrides of `add`: 'args' and 'env_vars' of the jobs, at their paths of
\* keys; any other key is refused, and a config takes none.
Fields == {"args", "env_vars"}
Applicable(tree, args) ==
  \/ tree.kind = "array"
  \/ /\ \A path \in DOMAIN args :
          \E i \in DOMAIN Jobs(tree), field \in Fields : path = Append(Jobs(tree)[i][1], field)
     /\ \A path \in DOMAIN args : Last(path) = "args" => Collectable(args[path])

apply_args_to_job(path, job, args) ==
  LET at(field) == Append(path, field)
  IN  NamedJob(job.name, job.executable, job.executor,
        IF at("args") \in DOMAIN args THEN merge_args(<< <<"args", job.args>>, args[at("args")] >>)
        ELSE job.args,
        IF at("env_vars") \in DOMAIN args THEN args[at("env_vars")] ++ job.env_vars ELSE job.env_vars)
apply_args(tree, args) ==
  IF tree.kind = "array" THEN tree
  ELSE OnEach(tree, LAMBDA path, job : apply_args_to_job(path, job, args))

\* The same overrides for every job of a group.
get_args_for_all_jobs(tree, args) ==
  [path \in {Append(Jobs(tree)[i][1], "args") : i \in DOMAIN Jobs(tree)} |-> args]

JoinNames(path) == FoldLeft(LAMBDA name, key : name \o "_" \o key, Head(path), Tail(path))
populate(path, job) ==
  IF job.kind = "array" \/ job.name # <<"none">> THEN job
  ELSE NamedJob(<<"str", IF path = <<>> THEN job.executable.name ELSE JoinNames(path)>>,
                job.executable, job.executor, job.args, job.env_vars)
populate_job_names(tree) == OnEach(tree, populate)

\* collect_jobs_by_filter with a filter that takes every job.
flatten_jobs(tree) == [i \in DOMAIN Jobs(tree) |-> Jobs(tree)[i][2]]

---------------------------------------------------------------------------
(* The snapshot of a submitted job: JSON with tagged types. *)

_argument(value) ==
  CASE value[1] = "enum" -> <<"str", value[2]>>
    [] value[1] \in {"none", "str", "bool", "int", "shell"} -> value
    [] OTHER -> <<"str", Text(value)>>

\* Variant with a slip: a saved sequence becomes its text.
KeywordAsText(value) == <<"str", Text(value)>>

\* A flat sequence stays a sequence, so that its flag is still repeated.
_keyword(value) ==
  IF IsFlat(value) THEN <<value[1], [i \in DOMAIN value[2] |-> _argument(value[2][i])]>>
  ELSE _argument(value)

\* One part per item: a mapping of one keyword, or a list of one value.
encode_args(args) ==
  [i \in DOMAIN args.items |->
     LET item == args.items[i]
     IN  IF item[1] = "kw" THEN <<"map", << <<item[2], _keyword(args.kwvalues[item[2]])>> >> >>
         ELSE <<"seq", << _argument(item[2]) >> >>]

WithArgs(job, Op(_)) ==
  [kind |-> job.kind, name |-> job.name, executor |-> job.executor, env_vars |-> job.env_vars,
   executable |-> [job.executable EXCEPT !.args = Op(job.executable.args)],
   args |-> IF job.kind = "array" THEN [i \in DOMAIN job.args |-> Op(job.args[i])] ELSE Op(job.args)]
_encode(job) == WithArgs(job, encode_args)
_decode(record) == WithArgs(record, merge_args)
===========================================================================
