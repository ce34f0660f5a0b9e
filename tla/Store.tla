------------------------------- MODULE Store -------------------------------
(***************************************************************************)
(* The files a job starts from and what is fetched of those it leaves:     *)
(* requests batched by AsyncPackager, each packaged by the router into an  *)
(* archive and perhaps an image (packaging/router.py, source.py), staged   *)
(* under the hash of their content (artifacts.py), images through a cache  *)
(* that processes share (singularity/image_cache.py); and retained         *)
(* artifacts, staged as a job's input (inputs.py) or fetched (outputs.py). *)
(* Two threads of a process do so at once, so do two processes, and a      *)
(* process may die at any step.                                            *)
(*                                                                         *)
(* A file's name is its content's hash, and a content stands for its hash. *)
(***************************************************************************)
EXTENDS Integers, Sequences, FiniteSets

CONSTANTS
  Threads,      \* the threads that may call package()
  Process(_),   \* the process of a thread
  Scripts,      \* the requests: sequences of [process, entry, image, resources]
  MaxVersion,   \* bound on the versions of the source tree and of the image
  MaxFaults     \* bound on failing commands and dying processes

Processes == {Process(t) : t \in Threads}
\* What a thread asks for itself; all else is packaged.
Direct == {"capture", "input", "fetch", "fetchdir"}
\* What is built anew for every request: a Python package, a pex, a package's own script.
Built == {"python", "pex", "universal"}

\* A script's package has no further files; an image is built for a Python package.
ASSUME StoreAssumption ==
  /\ MaxVersion \in Nat \ {0} /\ MaxFaults \in Nat
  /\ \A script \in Scripts :
       /\ DOMAIN script = 1 .. Len(script) /\ Len(script) \in Nat
       /\ \A i \in DOMAIN script :
            /\ script[i].process \in Processes
            /\ script[i].entry \in {"tree", "frozen"} \cup Direct \cup Built
            /\ script[i].image \in {"none", "named", "sif", "daemon", "built"}
            /\ script[i].image = "built" => script[i].entry = "python"
            /\ script[i].entry = "universal" => script[i].resources = {}

VARIABLES
  requests,  \* what the authors ask to be packaged
  added,     \* the requests made so far
  queue,     \* AsyncPackager._packageables and _futures of each process
  result,    \* what each request has got
  pc, batch, futures, built, reg,   \* each thread: its call of package()
  files,     \* the stores: <<directory, name>> to content
  sources,   \* the catalog: <<process, source id>> of every experiment
  tree,      \* the version of the author's source tree
  tag,       \* the image the docker daemon has under the tag
  blobs, temporary, link,           \* the image cache
  overlapped, \* two threads have used the cache at once
  dead,      \* the processes that have died
  faults

author == <<requests, added, tree>>
calls  == <<queue, result, batch, futures, built>>
cache  == <<blobs, temporary, link, overlapped>>
store  == <<author, calls, pc, reg, sources, files, tag, cache, dead, faults>>

\* A function with one value put in it; the files of a directory are such a function.
Put(f, x, value) == [y \in DOMAIN f \cup {x} |-> IF y = x THEN value ELSE f[y]]

Nothing == <<>>
Partial == <<"partial">>
Corrupt == <<"corrupt">>
Tree(version) == <<"tree", version>>
Image(version) == <<"image", version>>
Artifact == <<"artifact">>
Earlier == [f \in {<<"sources", Tree(1)>>, <<"artifacts", Artifact>>} |-> f[2]]
Request(t) == requests[batch[t][Len(built[t]) + 1]]
\* A part of a request is begun with nothing in hand but the part before it.
Begun(part, entry) ==
  [part |-> part, content |-> Nothing, name |-> Nothing, copy |-> Nothing, digest |-> 0,
   open |-> "none", entry |-> entry]
Idle == Begun("entry", Nothing)

Init ==
  /\ requests \in Scripts /\ added = {}
  /\ queue = [p \in Processes |-> <<>>]
  /\ result = [i \in DOMAIN requests |-> Nothing]
  /\ pc = [t \in Threads |-> "idle"] /\ reg = [t \in Threads |-> Idle]
  /\ batch = [t \in Threads |-> <<>>] /\ futures = [t \in Threads |-> <<>>]
  /\ built = [t \in Threads |-> <<>>]
  \* What an earlier run retained may have been removed or damaged since.
  /\ files \in {Nothing, Earlier,  [f \in DOMAIN Earlier |-> Corrupt]}
  /\ tree = 1 /\ tag = 1 /\ sources = {}
  /\ blobs = Nothing /\ temporary = Nothing /\ link = 0 /\ overlapped = FALSE
  /\ dead = {} /\ faults = 0

---------------------------------------------------------------------------
(* The author, and the world *)

\* The next thing a process is to ask for.
Asked(i, p) ==
  /\ i \in DOMAIN requests \ added /\ requests[i].process = p /\ p \notin dead
  /\ \A j \in DOMAIN requests : j < i => j \in added

\* package_async: queued, to be packaged by the next package() of the process.
AddRequest ==
  /\ \E i \in DOMAIN requests :
       /\ Asked(i, requests[i].process) /\ requests[i].entry \notin Direct
       /\ added' = added \cup {i}
       /\ queue' = [queue EXCEPT ![requests[i].process] = Append(@, i)]
  /\ UNCHANGED <<requests, tree, result, batch, futures, built, pc, reg, files, tag, cache, sources, dead, faults>>

EditTree ==
  /\ tree < MaxVersion /\ tree' = tree + 1
  /\ UNCHANGED <<requests, added, calls, pc, reg, files, tag, cache, sources, dead, faults>>

\* docker build, by hand.
RebuildImage ==
  /\ tag < MaxVersion /\ tag' = tag + 1
  /\ UNCHANGED <<author, calls, pc, reg, files, cache, sources, dead, faults>>

---------------------------------------------------------------------------
(* AsyncPackager.package *)

\* The step a specification starts with, and the image of a container.
RouteEntry(r) ==
  CASE r.image = "built"   -> "dockerize"
    [] r.image # "built" /\ r.entry \in {"tree", "capture"} -> "freeze"
    [] r.entry = "frozen"  -> "verify"
    [] r.image # "built" /\ r.entry \in Built -> "archive"
    [] r.entry = "input"   -> "stage"
    [] r.entry \in {"fetch", "fetchdir"} -> "fetch"
\* A .sif file is transferred, an image of the docker daemon is cached first; any
\* other is used by its name.
RouteImage(image) ==
  CASE image = "sif" -> "hash" [] image \in {"daemon", "built"} -> "query"
    [] image = "named" -> "named"

\* Variant with a slip: the first of several futures is not taken with its request.
TakeLeavingFutures(t, extra) ==
  LET p == Process(t)
  IN  /\ batch' = [batch EXCEPT ![t] = queue[p] \o extra]
      /\ futures' = [futures EXCEPT ![t] = IF Len(queue[p]) > 1 THEN Tail(queue[p]) ELSE queue[p]]
      /\ queue' = [queue EXCEPT ![p] = <<>>]

\* The queue of this process is taken, under the lock, requests and futures alike.
Take(t, extra) ==
  LET p == Process(t)
  IN  /\ batch' = [batch EXCEPT ![t] = queue[p] \o extra]
      /\ futures' = [futures EXCEPT ![t] = queue[p]]
      /\ queue' = [queue EXCEPT ![p] = <<>>]

\* package(), or package([x]) with one more request whose result it returns.
Package(t) ==
  /\ pc[t] = "idle" /\ Process(t) \notin dead
  /\ \/ /\ Take(t, <<>>) /\ UNCHANGED added
     \/ \E i \in DOMAIN requests :
          /\ Asked(i, Process(t)) /\ requests[i].entry \notin Direct
          /\ added' = added \cup {i} /\ Take(t, <<i>>)
  /\ batch'[t] # <<>>
  /\ pc' = [pc EXCEPT ![t] = RouteEntry(requests[batch'[t][1]])]
  /\ UNCHANGED <<requests, tree, result, built, reg, files, tag, cache, sources, dead, faults>>

\* An input is staged, or an artifact fetched, by the thread that wants it.
Ask(t) ==
  /\ pc[t] = "idle"
  /\ \E i \in DOMAIN requests :
       /\ Asked(i, Process(t)) /\ requests[i].entry \in Direct
       /\ added' = added \cup {i} /\ batch' = [batch EXCEPT ![t] = <<i>>]
       /\ pc' = [pc EXCEPT ![t] = RouteEntry(requests[i])]
  /\ UNCHANGED <<requests, tree, queue, futures, result, built, reg, files, tag, cache, sources, dead, faults>>

Extra(t) == SubSeq(batch[t], Len(futures[t]) + 1, Len(batch[t]))
Returned(t) ==
  /\ pc' = [pc EXCEPT ![t] = "idle"] /\ reg' = [reg EXCEPT ![t] = Idle]
  /\ batch' = [batch EXCEPT ![t] = <<>>] /\ futures' = [futures EXCEPT ![t] = <<>>]
  /\ built' = [built EXCEPT ![t] = <<>>]
  /\ UNCHANGED queue

\* The sources of the executables are recorded under the process's experiment;
\* one already there stays as it is.
HasSource(i) == requests[i].entry \in {"tree", "frozen", "capture"}
Record(t) ==
  /\ pc[t] = "record"
  /\ sources' = sources \cup {<<Process(t), built[t][k].entry>> :
                                k \in {k \in DOMAIN built[t] : HasSource(batch[t][k])}}
  /\ pc' = [pc EXCEPT ![t] = "finish"]
  /\ UNCHANGED <<author, calls, reg, files, tag, cache, dead, faults>>
SourcesOf(process) == {s[2] : s \in {s \in sources : s[1] = process}}

\* Each future gets the executable at its own place, package() returns the rest.
Finish(t) ==
  /\ pc[t] = "finish"
  /\ LET rest == SubSeq(built[t], Len(futures[t]) + 1, Len(built[t]))
         given(i, asked, executables) ==
           \E k \in DOMAIN asked : k \in DOMAIN executables /\ asked[k] = i
     IN  result' = [i \in DOMAIN result |->
           IF given(i, futures[t], built[t])
           THEN built[t][CHOOSE k \in DOMAIN futures[t] : futures[t][k] = i]
           ELSE IF given(i, Extra(t), rest)
           THEN rest[CHOOSE k \in DOMAIN rest : Extra(t)[k] = i] ELSE result[i]]
  /\ Returned(t)
  /\ UNCHANGED <<author, files, tag, cache, sources, dead, faults>>

\* Variant with a slip: the exception is raised, and the futures never hear of it.
RaiseOnly(t) ==
  /\ result' = [i \in DOMAIN result |->
       IF \E k \in DOMAIN Extra(t) : Extra(t)[k] = i THEN <<"error">> ELSE result[i]]
  /\ Returned(t)

\* Whatever raises in one request fails every request of its batch.
Raise(t) ==
  /\ result' = [i \in DOMAIN result |->
       IF \E k \in DOMAIN batch[t] : batch[t][k] = i THEN <<"error">> ELSE result[i]]
  /\ Returned(t)

---------------------------------------------------------------------------
(* The router *)

Go(t, step, new) == pc' = [pc EXCEPT ![t] = step] /\ reg' = [reg EXCEPT ![t] = new]

\* A part of the request is packaged: go on to its image, then to the next request.
PartDone(t, from) ==
  LET r == Request(t)
      executable == [request |-> batch[t][Len(built[t]) + 1], digest |-> from.digest,
                     entry |-> IF from.part = "entry" THEN from.name ELSE from.entry,
                     image |-> IF from.part = "entry" THEN Nothing ELSE from.name]
  IN  IF from.part = "entry" /\ r.image # "none"
      THEN Go(t, RouteImage(r.image), Begun("image", from.name)) /\ UNCHANGED built
      ELSE /\ built' = [built EXCEPT ![t] = Append(@, executable)]
           /\ IF Len(built[t]) + 1 = Len(batch[t]) THEN Go(t, "record", Idle)
              ELSE Go(t, RouteEntry(requests[batch[t][Len(built[t]) + 2]]), Idle)
called == <<queue, result, batch, futures>>

\* A docker, shifter or registry image is used by its name.
Named(t) ==
  /\ pc[t] = "named" /\ PartDone(t, [reg[t] EXCEPT !.name = <<"named">>])
  /\ UNCHANGED <<author, called, files, tag, cache, sources, dead, faults>>

\* freeze(): the tree as it is now, in an archive of this thread's own ...
Freeze(t) ==
  /\ pc[t] = "freeze" /\ Go(t, "retain", [reg[t] EXCEPT !.content = Tree(tree)])
  /\ UNCHANGED <<author, calls, files, tag, cache, sources, dead, faults>>

\* ... which is then moved to sources/<identity>.tar, over a damaged one too, and
\* for freeze() alone that is all.
Retain(t) ==
  /\ pc[t] = "retain"
  /\ files' = Put(files, <<"sources", reg[t].content>>, reg[t].content)
  /\ IF Request(t).entry = "capture" THEN PartDone(t, [reg[t] EXCEPT !.name = reg[t].content])
     ELSE Go(t, "verify", reg[t]) /\ UNCHANGED built
  /\ UNCHANGED <<author, called, tag, cache, sources, dead, faults>>

\* A directory being built is a function from paths to <<file, version>>.  What pip
\* installs (one of the author's data files among it), pex or a script makes of the tree.
Paths(entry) ==
  CASE entry = "python" ->
         {<<"package">>, <<"data">>, <<"bin", "tool">>, <<"dist-info", "RECORD">>}
    [] entry = "pex"       -> {<<"name.pex">>}
    [] entry = "universal" -> {<<"run">>}
Made(entry) == [path \in Paths(entry) |-> <<path[1], tree>>]

\* The author's further files, as they are by now.  ValueError if one would change
\* a file that is there.
Copyable(directory, resources) ==
  /\ \A r \in resources :
       r.path \in DOMAIN directory => directory[r.path] = <<r.file, tree>>
  /\ \A r, other \in resources : r.path = other.path => r.file = other.file
_copy_resources(directory, resources) ==
  [path \in DOMAIN directory \cup {r.path : r \in resources} |->
     IF path \in DOMAIN directory THEN directory[path]
     ELSE <<(CHOOSE r \in resources : r.path = path).file, tree>>]

\* The archive, whose bytes are new each time.  A Python package's has no bin/ and no
\* *.dist-info, whoever put it there, and its own entrypoint.sh in any other's place.
Packed(t, directory) ==
  LET kept == [path \in {path \in DOMAIN directory : path[1] \notin {"bin", "dist-info"}} |->
                 directory[path]]
  IN  <<"zip", batch[t][Len(built[t]) + 1],
        IF Request(t).entry = "python"
        THEN Put(kept, <<"entrypoint.sh">>, <<"entrypoint", 0>>) ELSE directory>>

\* pip, pex or the script, from the tree as it is now; a script's output is packed.
Archive(t) ==
  /\ pc[t] = "archive"
  /\ LET made == Made(Request(t).entry)
     IN  IF Request(t).entry = "universal"
         THEN Go(t, "hash", [reg[t] EXCEPT !.content = Packed(t, made)])
         ELSE Go(t, "resources", [reg[t] EXCEPT !.content = made])
  /\ UNCHANGED <<author, calls, files, tag, cache, sources, dead, faults>>

CopyResources(t) ==
  /\ pc[t] = "resources"
  /\ IF Copyable(reg[t].content, Request(t).resources)
     THEN /\ Go(t, "hash", [reg[t] EXCEPT !.content =
                              Packed(t, _copy_resources(@, Request(t).resources))])
          /\ UNCHANGED calls
     ELSE Raise(t)
  /\ UNCHANGED <<author, files, tag, cache, sources, dead, faults>>

\* The id of a frozen source is that of version 1, the one retained before.
SourceId(t) == IF Request(t).entry = "frozen" THEN Tree(1) ELSE reg[t].content
Retained(t) == <<"sources", SourceId(t)>>

\* verify()
Verified(t) == Retained(t) \in DOMAIN files /\ files[Retained(t)] = SourceId(t)
Verify(t) ==
  /\ pc[t] = "verify"
  /\ IF Verified(t)
     THEN Go(t, "hash", [reg[t] EXCEPT !.content = SourceId(t)]) /\ UNCHANGED calls
     ELSE Raise(t)
  /\ UNCHANGED <<author, files, tag, cache, sources, dead, faults>>

---------------------------------------------------------------------------
(* _transfer_file and ArtifactStore.put_file *)

Directory(t) ==
  IF reg[t].part = "image" THEN "containers"
  ELSE IF Request(t).entry = "input" THEN "inputs" ELSE "archives"
At(f) == IF f \in DOMAIN files THEN files[f] ELSE Nothing
\* What the local path has now; an image's path is a link in the cache.
Local(t) ==
  IF reg[t].part = "entry"
  THEN CASE Request(t).entry \in Direct -> At(<<"artifacts", Artifact>>)
         [] Request(t).entry \in Built  -> reg[t].content
         [] OTHER                       -> At(Retained(t))
  ELSE IF Request(t).image = "sif" THEN <<"sif">>
  ELSE IF link \in DOMAIN blobs THEN blobs[link] ELSE Nothing

\* The file is read once for its hash ...
Hash(t) ==
  /\ pc[t] = "hash"
  /\ IF Local(t) = Nothing THEN Raise(t)
     ELSE LET new == [reg[t] EXCEPT !.name = Local(t)]
          IN  IF <<Directory(t), Local(t)>> \in DOMAIN files
              THEN PartDone(t, new) /\ UNCHANGED called
              ELSE Go(t, "upload", new) /\ UNCHANGED calls
  /\ UNCHANGED <<author, files, tag, cache, sources, dead, faults>>

\* Variant with a slip: the upload goes to the file's own name.
UploadInPlace(t) ==
  /\ pc[t] = "upload"
  /\ IF Local(t) = Nothing THEN Raise(t) /\ UNCHANGED files
     ELSE /\ Go(t, "move", [reg[t] EXCEPT !.copy = Local(t)]) /\ UNCHANGED calls
          /\ files' = Put(files, <<Directory(t), reg[t].name>>, Partial)
  /\ UNCHANGED <<author, tag, cache, sources, dead, faults>>

\* ... and again for the upload, to a temporary name no one else has ...
Upload(t) ==
  /\ pc[t] = "upload"
  /\ IF Local(t) = Nothing THEN Raise(t)
     ELSE Go(t, "move", [reg[t] EXCEPT !.copy = Local(t)]) /\ UNCHANGED calls
  /\ UNCHANGED <<author, files, tag, cache, sources, dead, faults>>

\* ... that is then moved to the name.
Move(t) ==
  /\ pc[t] = "move"
  /\ files' = Put(files, <<Directory(t), reg[t].name>>, reg[t].copy)
  /\ PartDone(t, reg[t])
  /\ UNCHANGED <<author, called, tag, cache, sources, dead, faults>>

---------------------------------------------------------------------------
(* Retained artifacts *)

\* inputs.stage: a foreign archive, verified before it is put under its identity.
Stage(t) ==
  /\ pc[t] = "stage"
  /\ LET new == [reg[t] EXCEPT !.name = Artifact]
     IN  CASE <<"inputs", Artifact>> \in DOMAIN files -> PartDone(t, new) /\ UNCHANGED called
           [] <<"inputs", Artifact>> \notin DOMAIN files /\ Local(t) = Artifact ->
                Go(t, "upload", new) /\ UNCHANGED calls
           [] OTHER -> Raise(t)
  /\ UNCHANGED <<author, files, tag, cache, sources, dead, faults>>

\* Artifact.fetch: only to a new place, a copy whose identity is right.
Destination == <<"fetched", Artifact>>
Fetch(t) ==
  /\ pc[t] = "fetch"
  /\ IF Destination \in DOMAIN files \/ Local(t) # Artifact THEN Raise(t)
     ELSE Go(t, "expose", [reg[t] EXCEPT !.name = Artifact]) /\ UNCHANGED calls
  /\ UNCHANGED <<author, files, tag, cache, sources, dead, faults>>

\* A file is linked at once, a directory made and then filled; neither over
\* something that has appeared meanwhile.
Expose(t) ==
  /\ pc[t] = "expose"
  /\ CASE Destination \in DOMAIN files -> Raise(t) /\ UNCHANGED files
       [] Destination \notin DOMAIN files /\ Request(t).entry = "fetch" ->
            files' = Put(files, Destination, Artifact) /\ PartDone(t, reg[t]) /\ UNCHANGED called
       [] OTHER -> files' = Put(files, Destination, Partial) /\ Go(t, "copytree", reg[t])
                   /\ UNCHANGED calls
  /\ UNCHANGED <<author, tag, cache, sources, dead, faults>>
CopyTree(t) ==
  /\ pc[t] = "copytree"
  /\ files' = Put(files, Destination, Artifact) /\ PartDone(t, reg[t])
  /\ UNCHANGED <<author, called, tag, cache, sources, dead, faults>>

---------------------------------------------------------------------------
(* The image cache *)

InCache(t) == reg[t].part = "image" /\ Request(t).image \in {"daemon", "built"}
              /\ pc[t] \notin {"idle", "record", "finish", "query"}

\* A PDM project or a Python container is built into a docker image before its
\* package is.
Dockerize(t) ==
  /\ pc[t] = "dockerize"
  /\ tag' \in {tag, tag + 1} /\ tag' <= MaxVersion
  /\ Go(t, "archive", reg[t])
  /\ UNCHANGED <<author, calls, files, cache, sources, dead, faults>>

Query(t) ==
  /\ pc[t] = "query" /\ Go(t, "look", [reg[t] EXCEPT !.digest = tag])
  /\ overlapped' = (overlapped \/ \E u \in Threads \ {t} : InCache(u))
  /\ UNCHANGED <<author, calls, files, tag, blobs, temporary, link, sources, dead, faults>>

\* Variant with a slip: an image that is linked is never looked at again.
AlwaysCurrent(t) == link # 0

\* The image under this tag is the one the daemon has.
Current(t) == link = reg[t].digest
Look(t) ==
  /\ pc[t] = "look"
  /\ Go(t, CASE Current(t) -> "got"
             [] ~Current(t) /\ reg[t].digest \in DOMAIN blobs -> "remove"
             [] OTHER -> "bootstrap", reg[t])
  /\ UNCHANGED <<author, calls, files, tag, cache, sources, dead, faults>>

\* singularity build, from the tag and not from the digest.
Bootstrap(t) ==
  /\ pc[t] = "bootstrap" /\ Go(t, "copy", [reg[t] EXCEPT !.content = Image(tag)])
  /\ UNCHANGED <<author, calls, files, tag, cache, sources, dead, faults>>

\* put_blob: the temporary name is the digest's; a second writer truncates it.
Copy(t) ==
  /\ pc[t] = "copy"
  /\ temporary' = Put(temporary, reg[t].digest, Partial)
  /\ Go(t, "copied", [reg[t] EXCEPT !.open = "temporary"])
  /\ UNCHANGED <<author, calls, files, tag, blobs, link, overlapped, sources, dead, faults>>

\* The bytes land in the file that was opened, wherever it has been moved since.
Copied(t) ==
  /\ pc[t] = "copied"
  /\ IF reg[t].open = "temporary"
     THEN temporary' = Put(temporary, reg[t].digest, reg[t].content) /\ UNCHANGED blobs
     ELSE blobs' = Put(blobs, reg[t].digest, reg[t].content) /\ UNCHANGED temporary
  /\ Go(t, "rename", [reg[t] EXCEPT !.open = "none"])
  /\ UNCHANGED <<author, calls, files, tag, link, overlapped, sources, dead, faults>>

Rename(t) ==
  /\ pc[t] = "rename"
  /\ LET d == reg[t].digest
     IN  IF d \notin DOMAIN temporary THEN Raise(t) /\ UNCHANGED <<blobs, temporary>>
         ELSE /\ blobs' = Put(blobs, d, temporary[d])
              /\ temporary' = [e \in DOMAIN temporary \ {d} |-> temporary[e]]
              /\ pc' = [pc EXCEPT ![t] = "remove"]
              /\ reg' = [u \in Threads |-> IF reg[u].digest = d /\ reg[u].open = "temporary"
                                           THEN [reg[u] EXCEPT !.open = "blob"] ELSE reg[u]]
              /\ UNCHANGED calls
  /\ UNCHANGED <<author, files, tag, link, overlapped, sources, dead, faults>>

\* link(): the old symlink is removed, and then the new one made; FileExistsError
\* if another thread was faster.
Remove(t) ==
  /\ pc[t] = "remove" /\ link' = 0 /\ Go(t, "symlink", reg[t])
  /\ UNCHANGED <<author, calls, files, tag, blobs, temporary, overlapped, sources, dead, faults>>
Symlink(t) ==
  /\ pc[t] = "symlink"
  /\ IF link # 0 THEN Raise(t) /\ UNCHANGED link
     ELSE link' = reg[t].digest /\ Go(t, "got", reg[t]) /\ UNCHANGED calls
  /\ UNCHANGED <<author, files, tag, blobs, temporary, overlapped, sources, dead, faults>>

\* get_image asserts that the link is there; its path is what is transferred.
Got(t) ==
  /\ pc[t] = "got"
  /\ IF link = 0 THEN Raise(t) ELSE Go(t, "hash", reg[t]) /\ UNCHANGED calls
  /\ UNCHANGED <<author, files, tag, cache, sources, dead, faults>>

---------------------------------------------------------------------------
(* Faults *)

\* A command or a read or write of a store or of the catalog fails.
Fails(t) ==
  /\ pc[t] \notin {"idle", "finish"} /\ faults < MaxFaults /\ faults' = faults + 1
  /\ Raise(t)
  /\ UNCHANGED <<author, files, tag, cache, sources, dead>>

\* A process dies, with its queue, its futures and the temporary files it leaves.
Dies ==
  /\ faults < MaxFaults /\ faults' = faults + 1
  /\ \E p \in Processes \ dead :
       /\ dead' = dead \cup {p}
       /\ queue' = [queue EXCEPT ![p] = <<>>]
       /\ LET gone(t) == Process(t) = p
          IN  /\ pc' = [t \in Threads |-> IF gone(t) THEN "idle" ELSE pc[t]]
              /\ reg' = [t \in Threads |-> IF gone(t) THEN Idle ELSE reg[t]]
              /\ batch' = [t \in Threads |-> IF gone(t) THEN <<>> ELSE batch[t]]
              /\ futures' = [t \in Threads |-> IF gone(t) THEN <<>> ELSE futures[t]]
              /\ built' = [t \in Threads |-> IF gone(t) THEN <<>> ELSE built[t]]
  /\ UNCHANGED <<author, result, files, tag, cache, sources>>

Step(t) ==
  \/ Record(t) \/ Finish(t) \/ Named(t) \/ Freeze(t) \/ Retain(t) \/ Archive(t) \/ CopyResources(t)
  \/ Verify(t) \/ Hash(t) \/ Upload(t) \/ Move(t) \/ Stage(t) \/ Fetch(t) \/ Expose(t) \/ CopyTree(t)
  \/ Dockerize(t) \/ Query(t) \/ Look(t) \/ Bootstrap(t) \/ Copy(t) \/ Copied(t) \/ Rename(t)
  \/ Remove(t) \/ Symlink(t) \/ Got(t)
Next ==
  \/ AddRequest \/ EditTree \/ RebuildImage \/ Dies
  \/ \E t \in Threads : Package(t) \/ Ask(t) \/ Step(t) \/ Fails(t)

\* A thread in package() runs on, and the commands it waits for end.
StoreSpec == Init /\ [][Next]_store /\ \A t \in Threads : WF_store(Step(t))

---------------------------------------------------------------------------
(* Properties *)

\* Whatever the calls of package() that met in one queue and the batches that
\* failed: a request gets the executable built for it, or an error.
FuturesGetTheirOwn ==
  \A i \in DOMAIN result : result[i] \notin {Nothing, <<"error">>} => result[i].request = i

\* A request that a call of package() has taken is answered at some time, with
\* an executable or the exception, unless the process dies: again and again
\* there is none that is neither queued nor answered.
Queued(i) == \E p \in Processes : \E k \in DOMAIN queue[p] : queue[p][k] = i
FuturesResolve ==
  []<>(\A i \in added : Queued(i) \/ result[i] # Nothing \/ requests[i].process \in dead)

\* The stores never show a file in the making, whoever dies while writing: every
\* name has the content it names, unless it was damaged before or is a container
\* that two threads in the image cache at once have put there.  A fetched file
\* is whole too; a fetched directory shows before it is.
StoredByContent ==
  \A f \in DOMAIN files :
    \/ files[f] = f[2]
    \/ f \in DOMAIN Earlier /\ files[f] = Corrupt
    \/ f[1] = "containers" /\ overlapped
    \/ f = Destination /\ \E i \in added : requests[i].entry = "fetchdir"

\* An executable names files that are staged: of the retained source when it was
\* packaged from one, damaged or not since; and an image that is whole and no
\* older than the cache's digest of it, unless two threads met in the cache.  Its
\* source is retained whole and among the sources of its experiment.  A staged
\* input and a fetched artifact are what their identity says, whole, and stay so,
\* whoever else fetches to the same place.  An archive that was built has its
\* entrypoint and every further file of the author's outside the directories it
\* leaves out, none older than what was installed before it.
Whole(archive, r) ==
  LET named == {f \in r.resources : ~(r.entry = "python" /\ f.path[1] \in {"bin", "dist-info", "entrypoint.sh"})}
      body  == CASE r.entry = "python" -> <<"package">> [] r.entry = "pex" -> <<"name.pex">>
                 [] OTHER -> <<"run">>
  IN  /\ archive[body][1] = body[1] /\ archive[body][2] \in 1..tree
      /\ \A f \in named : archive[f.path][1] = f.file /\ archive[f.path][2] \in archive[body][2]..tree
      /\ r.entry = "python" => archive[<<"entrypoint.sh">>] = <<"entrypoint", 0>>
AnswersAreStaged ==
  \A i \in DOMAIN result : result[i] \notin {Nothing, <<"error">>} =>
    LET r == requests[i]  entry == result[i].entry  image == result[i].image
    IN  /\ files[CASE r.entry = "input"   -> <<"inputs", entry>>
                    [] r.entry = "capture" -> <<"sources", entry>>
                    [] r.entry \in {"fetch", "fetchdir"} -> <<"fetched", entry>>
                    [] OTHER -> <<"archives", entry>>] = entry
        /\ r.entry \in Built => Whole(entry[3], r)
        /\ r.entry = "frozen" => entry = Tree(1)
        /\ r.entry \in {"tree", "capture"} => entry \in {Tree(v) : v \in 1..tree}
        /\ HasSource(i) => files[<<"sources", entry>>] = entry /\ entry \in SourcesOf(r.process)
        /\ r.image = "sif" => files[<<"containers", image>>] = <<"sif">>
        /\ (r.image \in {"daemon", "built"} /\ ~overlapped) =>
             /\ files[<<"containers", image>>] = image
             /\ \E v \in result[i].digest..tag : image = Image(v)
===========================================================================
