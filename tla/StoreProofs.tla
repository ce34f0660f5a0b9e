----------------------------- MODULE StoreProofs -----------------------------
(***************************************************************************)
(* Proofs about Store, for any threads, processes, requests, versions and  *)
(* number of faults.                                                       *)
(*                                                                         *)
(* The properties speak of answers and of files; between the two are       *)
(* threads that hold a request half packaged.  The invariant says of each  *)
(* thread what the step it is at relies on: which of its batch it is at,   *)
(* which route the request takes, what it has in its hands, and which      *)
(* files that depends on.  A file that has the content it names keeps it,  *)
(* whatever other threads do, unless it is a cached image two of them met  *)
(* over: that is why what a thread relies on still holds when it goes on.  *)
(***************************************************************************)
EXTENDS Store, SequenceTheorems, TLAPS

Ends    == {"idle", "record", "finish"}
Making  == {"freeze", "retain", "verify", "dockerize", "archive", "resources", "stage", "fetch",
            "expose", "copytree"}
Moving  == {"hash", "upload", "move"}
Caching == {"look", "bootstrap", "copy", "copied", "rename", "remove", "symlink", "got"}
Pcs     == Ends \cup Making \cup Moving \cup Caching \cup {"query", "named"}
Busy(t) == pc[t] \notin Ends

\* Functions, sequences and registers of whatever values.
IsFunction(f) == f = [x \in DOMAIN f |-> f[x]]
IsSequence(s) == s \in Seq({s[k] : k \in DOMAIN s})
IsReg(r) ==
  r = [part |-> r.part, content |-> r.content, name |-> r.name, copy |-> r.copy,
       digest |-> r.digest, open |-> r.open, entry |-> r.entry]

StoreTypeOK ==
  /\ requests \in Scripts /\ added \subseteq DOMAIN requests
  /\ queue \in [Processes -> Seq(added)]
  /\ IsFunction(result) /\ DOMAIN result = DOMAIN requests
  /\ pc \in [Threads -> Pcs]
  /\ batch \in [Threads -> Seq(added)] /\ futures \in [Threads -> Seq(added)]
  /\ IsFunction(built) /\ DOMAIN built = Threads
  /\ \A t \in Threads : IsSequence(built[t])
  /\ IsFunction(reg) /\ DOMAIN reg = Threads
  /\ \A t \in Threads : IsReg(reg[t]) /\ reg[t].part \in {"entry", "image"}
  /\ IsFunction(files) /\ IsFunction(blobs) /\ IsFunction(temporary)
  /\ tree \in Nat \ {0} /\ tag \in Nat \ {0} /\ overlapped \in BOOLEAN

Trees == {Tree(v) : v \in 1 .. tree}
Images(least) == {Image(v) : v \in least .. tag}
Sif == <<"sif">>

\* A file that has the content it names, and one that keeps it.
Good(f) == f \in DOMAIN files /\ files[f] = f[2]
Lasting(f) == f[1] # "containers" \/ f[2] = Sif \/ ~overlapped

\* The two parts of an executable, as AnswersAreStaged asks for them.
EntryDone(i, n) ==
  LET r == requests[i]
  IN  /\ Good(<<CASE r.entry = "input" -> "inputs" [] r.entry = "capture" -> "sources"
                  [] r.entry \in {"fetch", "fetchdir"} -> "fetched" [] OTHER -> "archives", n>>)
      /\ r.entry \in Built => Whole(n[3], r)
      /\ r.entry = "frozen" => n = Tree(1)
      /\ r.entry \in {"tree", "capture"} => n \in Trees
      /\ HasSource(i) => Good(<<"sources", n>>)
ImageDone(i, n, digest) ==
  /\ requests[i].image = "sif" => n = Sif /\ Good(<<"containers", n>>)
  /\ requests[i].image \in {"daemon", "built"} /\ ~overlapped =>
       digest \in Nat /\ n \in Images(digest) /\ Good(<<"containers", n>>)

\* A thread's batch: whose requests they are, and how many have been built.
Called(t) ==
  /\ Len(futures[t]) <= Len(batch[t])
  /\ \A k \in 1 .. Len(futures[t]) : futures[t][k] = batch[t][k]
  /\ \A k \in 1 .. Len(batch[t]) : requests[batch[t][k]].process = Process(t)
  /\ pc[t] = "idle" => batch[t] = <<>> /\ built[t] = <<>> /\ reg[t].part = "entry"
  /\ pc[t] \in {"record", "finish"} => Len(built[t]) = Len(batch[t])
  /\ Busy(t) => Len(built[t]) < Len(batch[t])
Finished(t) ==
  \A k \in 1 .. Len(built[t]) :
    /\ built[t][k].request = batch[t][k]
    /\ EntryDone(batch[t][k], built[t][k].entry)
    /\ ImageDone(batch[t][k], built[t][k].image, built[t][k].digest)
    /\ pc[t] = "finish" /\ HasSource(batch[t][k]) =>
         <<Process(t), built[t][k].entry>> \in sources

\* The route of the request a thread is at.
Cached(t) == reg[t].part = "image" /\ Request(t).image \in {"daemon", "built"}
Routed(t) ==
  LET entry == Request(t).entry  image == Request(t).image
  IN  /\ pc[t] \in Making => reg[t].part = "entry"
      /\ pc[t] \in Caching \cup {"query"} => Cached(t)
      /\ pc[t] = "named" => reg[t].part = "image" /\ image = "named"
      /\ pc[t] \in Moving /\ reg[t].part = "image" => image \in {"sif", "daemon", "built"}
      /\ pc[t] \in Moving /\ reg[t].part = "entry" =>
           entry \in Built \cup {"tree", "frozen"} \cup IF pc[t] = "hash" THEN {} ELSE {"input"}
      /\ pc[t] \in {"freeze", "retain"} => entry \in {"tree", "capture"}
      /\ pc[t] = "verify" => entry \in {"tree", "frozen"}
      /\ pc[t] \in {"dockerize", "archive", "resources"} => entry \in Built
      /\ pc[t] = "resources" => entry # "universal"
      /\ pc[t] = "stage" => entry = "input"
      /\ pc[t] \in {"fetch", "expose"} => entry \in {"fetch", "fetchdir"}
      /\ pc[t] = "copytree" => entry = "fetchdir"

\* What a thread has in its hands for the first part, and the files it relies on.
HoldsEntry(t) ==
  LET entry == Request(t).entry
  IN  /\ pc[t] = "retain" => reg[t].content \in Trees
      /\ pc[t] = "verify" /\ entry = "tree" => reg[t].content \in Trees
      /\ pc[t] = "resources" => \E v \in 1 .. tree : reg[t].content = [path \in Paths(entry) |-> <<path[1], v>>]
      /\ pc[t] \in Moving /\ entry \in Built => Whole(reg[t].content[3], Request(t))
      /\ pc[t] \in Moving /\ entry \in {"tree", "frozen"} =>
           Good(Retained(t)) /\ (entry = "tree" => reg[t].content \in Trees)
      /\ pc[t] \in {"upload", "move"} =>
           reg[t].name = CASE entry \in Built -> reg[t].content
                           [] entry \in {"tree", "frozen"} -> SourceId(t)
                           [] entry = "input" -> Artifact
      /\ pc[t] \in {"upload", "move"} /\ entry = "input" => Good(<<"artifacts", Artifact>>)
      /\ pc[t] \in {"expose", "copytree"} => reg[t].name = Artifact

\* The same for an image.  What it knows of the cache holds until two threads meet.
HoldsImage(t) ==
  /\ EntryDone(batch[t][Len(built[t]) + 1], reg[t].entry)
  /\ pc[t] \in {"upload", "move"} => (reg[t].name = Sif <=> ~Cached(t))
  /\ pc[t] \in {"copy", "copied"} => reg[t].content # Sif
  /\ ~overlapped =>
       /\ pc[t] \in Caching \cup Moving /\ Cached(t) => reg[t].digest \in 1 .. tag
       /\ pc[t] \in {"copy", "copied", "rename"} => reg[t].content \in Images(reg[t].digest)
       /\ pc[t] = "copied" => reg[t].open = "temporary"
       /\ pc[t] = "rename" /\ reg[t].digest \in DOMAIN temporary =>
            temporary[reg[t].digest] = reg[t].content
       /\ pc[t] \in {"remove", "symlink"} => reg[t].digest \in DOMAIN blobs
       /\ pc[t] \in Moving \cup {"got"} /\ Cached(t) =>
            link = reg[t].digest /\ link \in DOMAIN blobs
       /\ pc[t] \in {"upload", "move"} /\ Cached(t) => reg[t].name = blobs[link]

ThreadInv(t) ==
  /\ Called(t) /\ Finished(t)
  /\ Busy(t) => Routed(t)
  /\ Busy(t) /\ reg[t].part = "entry" => HoldsEntry(t)
  /\ Busy(t) /\ reg[t].part = "image" => HoldsImage(t)
  /\ pc[t] = "move" => reg[t].copy = reg[t].name \/ (Cached(t) /\ overlapped)
  /\ reg[t].open = "temporary" => pc[t] = "copied"

\* The queues hold requests of their own process.
Queues == \A p \in Processes : \A k \in 1 .. Len(queue[p]) : requests[queue[p][k]].process = p

RightAnswer(i, answer) ==
  /\ answer.request = i
  /\ EntryDone(i, answer.entry) /\ ImageDone(i, answer.image, answer.digest)
  /\ HasSource(i) => <<requests[i].process, answer.entry>> \in sources
Answered ==
  \A i \in DOMAIN result : result[i] \notin {Nothing, <<"error">>} => RightAnswer(i, result[i])

\* StoredByContent, but for an image that is not of the cache.
Stored ==
  \A f \in DOMAIN files :
    \/ files[f] = f[2]
    \/ f \in DOMAIN Earlier /\ files[f] = Corrupt
    \/ f[1] = "containers" /\ f[2] # Sif /\ overlapped
    \/ f = Destination /\ \E i \in added : requests[i].entry = "fetchdir"

CacheInv ==
  /\ \A d \in DOMAIN blobs : blobs[d] # Sif
  /\ \A d \in DOMAIN temporary : temporary[d] # Sif
  /\ ~overlapped =>
       /\ \A t, u \in Threads : InCache(t) /\ InCache(u) => t = u
       /\ \A d \in DOMAIN blobs : d \in Nat \ {0} /\ blobs[d] \in Images(d)
       /\ link # 0 => link \in DOMAIN blobs

SInv ==
  /\ StoreTypeOK /\ Queues /\ Answered /\ Stored /\ CacheInv
  /\ \A t \in Threads : ThreadInv(t)

-----------------------------------------------------------------------------
(* Functions and sequences. *)

LEMMA PutIs ==
  ASSUME NEW f, NEW x, NEW value
  PROVE  /\ IsFunction(Put(f, x, value))
         /\ DOMAIN Put(f, x, value) = DOMAIN f \cup {x}
         /\ Put(f, x, value)[x] = value
         /\ \A y \in DOMAIN f : y # x => Put(f, x, value)[y] = f[y]
BY DEF Put, IsFunction

LEMMA SequenceIs ==
  ASSUME NEW s, IsSequence(s)
  PROVE  Len(s) \in Nat /\ DOMAIN s = 1 .. Len(s)
BY LenProperties DEF IsSequence

LEMMA AppendIs ==
  ASSUME NEW s, IsSequence(s), NEW e
  PROVE  /\ IsSequence(Append(s, e)) /\ Len(Append(s, e)) = Len(s) + 1
         /\ \A k \in 1 .. Len(s) : Append(s, e)[k] = s[k]
         /\ Append(s, e)[Len(s) + 1] = e
<1> DEFINE S == {s[k] : k \in DOMAIN s} \cup {e}
           T == {Append(s, e)[k] : k \in DOMAIN Append(s, e)}
<1>1. s \in Seq(S)
  <2>1. {s[k] : k \in DOMAIN s} \subseteq S
    OBVIOUS
  <2> QED
    BY <2>1, SeqMonotonic DEF IsSequence
<1>2. e \in S
  OBVIOUS
<1> HIDE DEF S
<1>3. /\ Append(s, e) \in Seq(S)
      /\ Len(Append(s, e)) = Len(s)+1
      /\ \A i \in 1.. Len(s) : Append(s, e)[i] = s[i]
      /\ Append(s, e)[Len(s)+1] = e
  BY <1>1, <1>2, AppendProperties
<1>4. Append(s, e) \in Seq(T)
  BY <1>3, SeqOfRange, RangeEquality, LenProperties
<1> QED
  BY <1>3, <1>4 DEF IsSequence

LEMMA EmptyIs == IsSequence(<<>>) /\ Len(<<>>) = 0
BY EmptySeq DEF IsSequence

\* Changing one thread's value.
LEMMA ExceptIs ==
  ASSUME NEW f, IsFunction(f), NEW t \in DOMAIN f, NEW value, NEW g, g = [f EXCEPT ![t] = value]
  PROVE  /\ IsFunction(g) /\ DOMAIN g = DOMAIN f /\ g[t] = value
         /\ \A u \in DOMAIN f \ {t} : g[u] = f[u]
BY DEF IsFunction

-----------------------------------------------------------------------------
(* What every step leaves true. *)

Onward ==
  /\ requests' = requests /\ added \subseteq added' /\ added' \subseteq DOMAIN requests
  /\ tree' \in Nat \ {0} /\ tree <= tree' /\ tag' \in Nat \ {0} /\ tag <= tag'
  /\ overlapped' \in BOOLEAN /\ (overlapped => overlapped')
  /\ sources \subseteq sources'
  /\ \A f : Good(f) /\ Lasting(f)' => Good(f)'

LEMMA WholeStays ==
  ASSUME StoreTypeOK, Onward, NEW archive, NEW i, Whole(archive, requests[i])
  PROVE  Whole(archive, requests[i])'
<1> DEFINE r == requests[i]
           body == CASE r.entry = "python" -> <<"package">> [] r.entry = "pex" -> <<"name.pex">>
                     [] OTHER -> <<"run">>
           first == archive[body][2]
<1>1. first \in 1 .. tree /\ first \in Nat /\ first \in 1 .. tree'
  BY DEF Whole, StoreTypeOK, Onward
<1>2. \A x : x \in first .. tree => x \in first .. tree'
  BY <1>1 DEF StoreTypeOK, Onward
<1>3. requests'[i] = requests[i]
  BY DEF Onward
<1> QED
  BY <1>1, <1>2, <1>3 DEF Whole

LEMMA EntryStays ==
  ASSUME StoreTypeOK, Onward, NEW i, NEW n, EntryDone(i, n)
  PROVE  EntryDone(i, n)'
<1> DEFINE dir == CASE requests[i].entry = "input" -> "inputs"
                    [] requests[i].entry = "capture" -> "sources"
                    [] requests[i].entry \in {"fetch", "fetchdir"} -> "fetched" [] OTHER -> "archives"
<1>1. dir # "containers" /\ dir' = dir
  BY DEF Onward
<1>2. Good(<<dir, n>>)'
  <2>1. Good(<<dir, n>>)
    BY DEF EntryDone
  <2>2. Lasting(<<dir, n>>)'
    BY <1>1 DEF Lasting
  <2> HIDE DEF dir
  <2> QED
    BY <2>1, <2>2, <1>1 DEF Onward
<1>3. Good(<<"sources", n>>) => Good(<<"sources", n>>)'
  BY DEF Onward, Lasting
<1>4. Trees \subseteq Trees'
  BY DEF Trees, Tree, StoreTypeOK, Onward
<1>5. HasSource(i)' <=> HasSource(i)
  BY DEF HasSource, Onward
<1>6. requests[i]' = requests[i]
  BY DEF Onward
<1>7. Whole(n[3], requests[i]) => Whole(n[3], requests[i])'
  BY WholeStays
<1> QED
  BY <1>2, <1>3, <1>4, <1>5, <1>6, <1>7 DEF EntryDone

LEMMA ImagesStay ==
  ASSUME StoreTypeOK, Onward, NEW least \in Nat
  PROVE  Images(least) \subseteq Images(least)'
BY DEF StoreTypeOK, Onward, Images, Image

LEMMA ImageStays ==
  ASSUME StoreTypeOK, Onward, NEW i, NEW n, NEW digest, ImageDone(i, n, digest)
  PROVE  ImageDone(i, n, digest)'
<1>1. requests' = requests /\ (~overlapped' => ~overlapped)
  BY DEF Onward
<1>2. n = Sif /\ Good(<<"containers", n>>) => Good(<<"containers", n>>)'
  BY DEF Onward, Lasting, Sif
<1>3. ~overlapped' /\ Good(<<"containers", n>>) => Good(<<"containers", n>>)'
  BY DEF Onward, Lasting
<1>4. digest \in Nat /\ n \in Images(digest) => n \in Images(digest)'
  BY ImagesStay
<1>5. requests[i].image = "sif" => n = Sif /\ Good(<<"containers", n>>)'
  BY <1>2 DEF ImageDone
<1>6. requests[i].image \in {"daemon", "built"} /\ ~overlapped' =>
        digest \in Nat /\ n \in Images(digest)' /\ Good(<<"containers", n>>)'
  BY <1>1, <1>3, <1>4 DEF ImageDone
<1> QED
  BY <1>1, <1>5, <1>6 DEF ImageDone, Sif

LEMMA AnswerStays ==
  ASSUME StoreTypeOK, Onward, NEW i, NEW answer, RightAnswer(i, answer)
  PROVE  RightAnswer(i, answer)'
<1>1. EntryDone(i, answer.entry)' /\ ImageDone(i, answer.image, answer.digest)'
  BY EntryStays, ImageStays DEF RightAnswer
<1> QED
  BY <1>1 DEF RightAnswer, HasSource, Onward

\* The answers are those there were, or failures.
LEMMA AnswersStay ==
  ASSUME StoreTypeOK, Onward, Answered, DOMAIN result' = DOMAIN result,
         \A i \in DOMAIN result : result'[i] \in {result[i], <<"error">>}
  PROVE  Answered'
<1> SUFFICES ASSUME NEW i \in DOMAIN result, result'[i] \notin {Nothing, <<"error">>}
             PROVE  RightAnswer(i, result[i])'
  BY DEF Answered
<1>1. PICK answer : answer = result[i]
  OBVIOUS
<1>2. RightAnswer(i, answer)
  BY <1>1 DEF Answered
<1>3. RightAnswer(i, answer)'
  BY <1>2, AnswerStays
<1> QED
  BY <1>1, <1>3

-----------------------------------------------------------------------------
(* A thread that another one's step leaves alone. *)

Same(u) ==
  /\ pc'[u] = pc[u] /\ batch'[u] = batch[u] /\ futures'[u] = futures[u] /\ built'[u] = built[u]
  /\ reg'[u] = reg[u] \/ (overlapped /\ reg'[u] = [reg[u] EXCEPT !.open = "blob"])
  /\ pc[u] \in Caching \cup Moving /\ Cached(u) /\ ~overlapped' =>
       UNCHANGED <<blobs, temporary, link>>

LEMMA SameReg ==
  ASSUME StoreTypeOK, NEW u \in Threads, Same(u)
  PROVE  /\ reg'[u].part = reg[u].part /\ reg'[u].content = reg[u].content
         /\ reg'[u].name = reg[u].name /\ reg'[u].copy = reg[u].copy
         /\ reg'[u].digest = reg[u].digest /\ reg'[u].entry = reg[u].entry
         /\ reg'[u].open = "temporary" => reg[u].open = "temporary"
         /\ ~overlapped => reg'[u].open = reg[u].open
         /\ IsReg(reg'[u])
<1>1. IsReg(reg[u])
  BY DEF StoreTypeOK
<1>2. CASE reg'[u] = reg[u]
  BY <1>1, <1>2
<1>3. CASE overlapped /\ reg'[u] = [reg[u] EXCEPT !.open = "blob"]
  <2>1. reg'[u] = [part |-> reg[u].part, content |-> reg[u].content, name |-> reg[u].name,
                   copy |-> reg[u].copy, digest |-> reg[u].digest, open |-> "blob",
                   entry |-> reg[u].entry]
    BY <1>1, <1>3 DEF IsReg
  <2> QED
    BY <1>3, <2>1 DEF IsReg
<1> QED
  BY <1>2, <1>3 DEF Same

LEMMA SameRequest ==
  ASSUME StoreTypeOK, Onward, NEW u \in Threads, Same(u)
  PROVE  /\ Request(u)' = Request(u) /\ (Busy(u)' <=> Busy(u)) /\ (Cached(u)' <=> Cached(u))
         /\ SourceId(u)' = SourceId(u) /\ Retained(u)' = Retained(u)
<1>1. Request(u)' = Request(u)
  BY DEF Request, Onward, Same
<1>2. reg'[u].part = reg[u].part /\ reg'[u].content = reg[u].content
  BY SameReg
<1>3. SourceId(u)' = SourceId(u)
  BY <1>1, <1>2 DEF SourceId, Tree
<1> QED
  BY <1>1, <1>2, <1>3 DEF Busy, Cached, Retained, Same

LEMMA FinishedStays ==
  ASSUME StoreTypeOK, Onward, NEW u \in Threads, Finished(u), Same(u)
  PROVE  Finished(u)'
<1>1. batch'[u] = batch[u] /\ built'[u] = built[u] /\ pc'[u] = pc[u]
  BY DEF Same
<1> SUFFICES ASSUME NEW k \in 1 .. Len(built[u])
             PROVE  /\ built[u][k].request = batch[u][k]
                    /\ EntryDone(batch[u][k], built[u][k].entry)'
                    /\ ImageDone(batch[u][k], built[u][k].image, built[u][k].digest)'
                    /\ pc[u] = "finish" /\ HasSource(batch[u][k])' =>
                         <<Process(u), built[u][k].entry>> \in sources'
  BY <1>1 DEF Finished
<1>2. PICK i, entry, image, digest :
        /\ i = batch[u][k] /\ entry = built[u][k].entry
        /\ image = built[u][k].image /\ digest = built[u][k].digest
  OBVIOUS
<1>3. /\ EntryDone(i, entry) /\ ImageDone(i, image, digest)
      /\ built[u][k].request = i
      /\ pc[u] = "finish" /\ HasSource(i) => <<Process(u), entry>> \in sources
  BY <1>2 DEF Finished
<1>4. EntryDone(i, entry)' /\ ImageDone(i, image, digest)'
  BY <1>3, EntryStays, ImageStays
<1>5. HasSource(i)' => HasSource(i)
  BY DEF HasSource, Onward
<1>6. batch'[u][k] = i /\ built'[u][k].entry = entry /\ built'[u][k].image = image
      /\ built'[u][k].digest = digest
  BY <1>1, <1>2
<1> QED
  BY <1>1, <1>2, <1>3, <1>4, <1>5, <1>6 DEF Onward

LEMMA HoldsEntryStays ==
  ASSUME StoreTypeOK, Onward, NEW u \in Threads, HoldsEntry(u), Same(u)
  PROVE  HoldsEntry(u)'
<1>1. /\ reg'[u].content = reg[u].content /\ reg'[u].name = reg[u].name /\ pc'[u] = pc[u]
  BY SameReg DEF Same
<1>2. Request(u)' = Request(u) /\ SourceId(u)' = SourceId(u) /\ Retained(u)' = Retained(u)
  BY SameRequest
<1>3. Trees \subseteq Trees'
  BY DEF Trees, Tree, StoreTypeOK, Onward
<1>4. Good(Retained(u)) => Good(Retained(u))'
  <2>1. PICK f : f = Retained(u)
    OBVIOUS
  <2>2. f[1] = "sources"
    BY <2>1 DEF Retained
  <2>3. Good(f) => Good(f)'
    BY <2>2 DEF Onward, Lasting
  <2> QED
    BY <1>2, <2>1, <2>3 DEF Good
<1>5. Good(<<"artifacts", Artifact>>) => Good(<<"artifacts", Artifact>>)'
  BY DEF Onward, Lasting, Artifact
<1>6. \A v : v \in 1 .. tree => v \in 1 .. tree'
  BY DEF StoreTypeOK, Onward
<1>7. Whole(reg[u].content[3], Request(u)) => Whole(reg[u].content[3], Request(u))'
  <2>1. PICK archive, i : archive = reg[u].content[3] /\ i = batch[u][Len(built[u]) + 1]
    OBVIOUS
  <2>2. Whole(archive, requests[i]) => Whole(archive, requests[i])'
    BY WholeStays
  <2> QED
    BY <1>1, <1>2, <2>1, <2>2 DEF Whole, Request, Onward
<1>8. /\ pc[u] = "retain" => reg[u].content \in Trees'
      /\ pc[u] = "verify" /\ Request(u).entry = "tree" => reg[u].content \in Trees'
      /\ pc[u] = "resources" =>
           \E v \in 1 .. tree' : reg[u].content = [path \in Paths(Request(u).entry) |-> <<path[1], v>>]
      /\ pc[u] \in Moving /\ Request(u).entry \in Built =>
           Whole(reg[u].content[3], Request(u))'
  BY <1>3, <1>6, <1>7 DEF HoldsEntry
<1>9. /\ pc[u] \in Moving /\ Request(u).entry \in {"tree", "frozen"} =>
           Good(Retained(u))' /\ (Request(u).entry = "tree" => reg[u].content \in Trees')
      /\ pc[u] \in {"upload", "move"} /\ Request(u).entry = "input" =>
           Good(<<"artifacts", Artifact>>)'
  BY <1>3, <1>4, <1>5 DEF HoldsEntry
<1> QED
  BY <1>1, <1>2, <1>8, <1>9 DEF HoldsEntry

LEMMA HoldsImageStays ==
  ASSUME StoreTypeOK, Onward, NEW u \in Threads, HoldsImage(u), Same(u),
         pc[u] \in Caching => Cached(u)
  PROVE  HoldsImage(u)'
<1>1. /\ reg'[u].content = reg[u].content /\ reg'[u].name = reg[u].name
      /\ reg'[u].digest = reg[u].digest /\ reg'[u].entry = reg[u].entry
      /\ (~overlapped => reg'[u].open = reg[u].open)
      /\ pc'[u] = pc[u] /\ batch'[u] = batch[u] /\ built'[u] = built[u]
  BY SameReg DEF Same
<1>2. Cached(u)' <=> Cached(u)
  BY SameRequest
<1>3. EntryDone(batch[u][Len(built[u]) + 1], reg[u].entry)'
  <2>1. PICK i, n : i = batch[u][Len(built[u]) + 1] /\ n = reg[u].entry
    OBVIOUS
  <2>2. EntryDone(i, n)'
    BY <2>1, EntryStays DEF HoldsImage
  <2>3. i = batch'[u][Len(built'[u]) + 1] /\ n = reg'[u].entry
    BY <1>1, <2>1
  <2> QED
    BY <2>2, <2>3
<1>4. ~overlapped' => ~overlapped
  BY DEF Onward
<1>5. ASSUME ~overlapped', pc[u] \in Caching \cup Moving, Cached(u)
      PROVE  /\ UNCHANGED <<blobs, temporary, link>>
             /\ reg[u].digest \in 1 .. tag' /\ reg[u].digest \in Nat
             /\ Images(reg[u].digest) \subseteq Images(reg[u].digest)'
  <2>1. UNCHANGED <<blobs, temporary, link>>
    BY <1>5 DEF Same
  <2>2. reg[u].digest \in 1 .. tag /\ reg[u].digest \in Nat /\ reg[u].digest \in 1 .. tag'
    BY <1>4, <1>5 DEF HoldsImage, StoreTypeOK, Onward
  <2>3. PICK d \in Nat : d = reg[u].digest
    BY <2>2
  <2>4. Images(d) \subseteq Images(d)'
    BY ImagesStay
  <2>5. Images(reg[u].digest) \subseteq Images(reg[u].digest)'
    BY <1>1, <2>3, <2>4 DEF Images
  <2> QED
    BY <2>1, <2>2, <2>5
<1> QED
  BY <1>1, <1>2, <1>3, <1>4, <1>5 DEF HoldsImage, Caching, Moving

LEMMA ThreadStays ==
  ASSUME StoreTypeOK, Onward, NEW u \in Threads, ThreadInv(u), Same(u)
  PROVE  ThreadInv(u)'
<1>1. /\ Request(u)' = Request(u) /\ (Busy(u)' <=> Busy(u)) /\ (Cached(u)' <=> Cached(u))
  BY SameRequest
<1>2. /\ reg'[u].part = reg[u].part /\ reg'[u].name = reg[u].name /\ reg'[u].copy = reg[u].copy
      /\ reg'[u].open = "temporary" => reg[u].open = "temporary"
  BY SameReg
<1>3. /\ pc'[u] = pc[u] /\ batch'[u] = batch[u] /\ futures'[u] = futures[u] /\ built'[u] = built[u]
      /\ requests' = requests /\ (overlapped => overlapped')
  BY DEF Same, Onward
<1>4. Called(u)'
  BY <1>1, <1>2, <1>3 DEF ThreadInv, Called
<1>5. Finished(u)'
  BY FinishedStays DEF ThreadInv
<1>6. Routed(u) => Routed(u)'
  BY <1>1, <1>2, <1>3 DEF Routed
<1>7. pc[u] \in Caching => Cached(u)
  BY DEF ThreadInv, Busy, Routed, Caching, Ends
<1> QED
  BY <1>1, <1>2, <1>3, <1>4, <1>5, <1>6, <1>7, HoldsEntryStays, HoldsImageStays DEF ThreadInv

\* One step of one thread.
LEMMA SInvBy ==
  ASSUME SInv, Onward, NEW t \in Threads, \A u \in Threads \ {t} : Same(u),
         ThreadInv(t)', StoreTypeOK', Queues', Answered', Stored', CacheInv'
  PROVE  SInv'
BY ThreadStays DEF SInv

-----------------------------------------------------------------------------
(* The shapes a step of a thread has: it goes on, it is done with a part of a *)
(* request, or it raises.                                                     *)

\* Most steps leave the files and what the author and the world do alone.
Mild == UNCHANGED <<author, files, tag, sources>>

LEMMA MildIs ==
  ASSUME SInv, Mild, overlapped' \in BOOLEAN, overlapped => overlapped'
  PROVE  Onward /\ Stored'
<1>1. Onward
  BY DEF SInv, StoreTypeOK, Mild, author, Onward, Good
<1>2. Stored'
  BY DEF SInv, Mild, author, Stored, Sif, Destination
<1> QED
  BY <1>1, <1>2

\* Threads that leave the cache alone, none entering it.
LEMMA CacheKept ==
  ASSUME SInv, Onward, UNCHANGED cache, \A u \in Threads : InCache(u)' => InCache(u)
  PROVE  CacheInv'
<1>1. ASSUME NEW d \in Nat PROVE Images(d) \subseteq Images(d)'
  BY <1>1, ImagesStay DEF SInv
<1>2. UNCHANGED <<blobs, temporary, link, overlapped>>
  BY DEF cache
<1>3. \A d \in DOMAIN blobs : blobs[d] # Sif
  BY DEF SInv, CacheInv
<1>4. \A d \in DOMAIN temporary : temporary[d] # Sif
  BY DEF SInv, CacheInv
<1>5. ASSUME ~overlapped
      PROVE  /\ \A x, u \in Threads : InCache(x)' /\ InCache(u)' => x = u
             /\ \A d \in DOMAIN blobs : d \in Nat \ {0} /\ blobs[d] \in Images(d)'
             /\ link # 0 => link \in DOMAIN blobs
  <2>1. \A x, u \in Threads : InCache(x) /\ InCache(u) => x = u
    BY <1>5 DEF SInv, CacheInv
  <2>2. \A d \in DOMAIN blobs : d \in Nat \ {0} /\ blobs[d] \in Images(d)
    BY <1>5 DEF SInv, CacheInv
  <2>3. \A d \in DOMAIN blobs : d \in Nat \ {0} /\ blobs[d] \in Images(d)'
    BY <1>1, <2>2
  <2> QED
    BY <1>5, <2>1, <2>3 DEF SInv, CacheInv
<1>6. Sif' = Sif
  BY DEF Sif
<1> QED
  BY <1>2, <1>3, <1>4, <1>5, <1>6 DEF CacheInv

LEMMA CacheStays ==
  ASSUME SInv, Onward, NEW t \in Threads, \A u \in Threads \ {t} : Same(u), UNCHANGED cache,
         InCache(t)' => InCache(t)
  PROVE  CacheInv'
<1>1. \A u \in Threads \ {t} : InCache(u)' => InCache(u)
  <2> SUFFICES ASSUME NEW u \in Threads \ {t} PROVE InCache(u)' => InCache(u)
    OBVIOUS
  <2>1. Request(u)' = Request(u) /\ reg'[u].part = reg[u].part /\ pc'[u] = pc[u]
    BY SameRequest, SameReg DEF SInv, Same
  <2> QED
    BY <2>1 DEF InCache
<1> QED
  BY <1>1, CacheKept

LEMMA GoIs ==
  ASSUME StoreTypeOK, NEW t \in Threads, NEW step \in Pcs, NEW new, IsReg(new),
         new.part \in {"entry", "image"}, Go(t, step, new)
  PROVE  /\ pc' \in [Threads -> Pcs] /\ pc'[t] = step
         /\ IsFunction(reg') /\ DOMAIN reg' = Threads /\ reg'[t] = new
         /\ \A u \in Threads : IsReg(reg'[u]) /\ reg'[u].part \in {"entry", "image"}
         /\ \A u \in Threads \ {t} : pc'[u] = pc[u] /\ reg'[u] = reg[u]
<1>1. /\ IsFunction(reg') /\ DOMAIN reg' = Threads /\ reg'[t] = new
      /\ \A u \in Threads \ {t} : reg'[u] = reg[u]
  BY ExceptIs DEF StoreTypeOK, Go
<1>2. pc' \in [Threads -> Pcs] /\ pc'[t] = step /\ \A u \in Threads \ {t} : pc'[u] = pc[u]
  BY DEF StoreTypeOK, Go
<1>3. \A u \in Threads : IsReg(reg'[u]) /\ reg'[u].part \in {"entry", "image"}
  BY <1>1 DEF StoreTypeOK
<1> QED
  BY <1>1, <1>2, <1>3

\* Another thread's part of the cache is left alone, or the two have met.
LEMMA OthersSame ==
  ASSUME SInv, Onward, NEW t \in Threads, NEW u \in Threads \ {t},
         UNCHANGED <<blobs, temporary, link>> \/ InCache(t) \/ overlapped',
         pc[u] \in Caching \cup Moving, Cached(u), ~overlapped'
  PROVE  UNCHANGED <<blobs, temporary, link>>
<1>1. InCache(u)
  BY DEF InCache, Cached, Caching, Moving
<1>2. ~overlapped
  BY DEF Onward
<1>3. ~InCache(t)
  BY <1>1, <1>2 DEF SInv, CacheInv
<1> QED
  BY <1>3

Data == IsFunction(files) /\ IsFunction(blobs) /\ IsFunction(temporary)

LEMMA SettleBy ==
  ASSUME SInv, Onward, NEW t \in Threads, Busy(t), NEW step \in Pcs \ Ends, NEW new,
         pc' \in [Threads -> Pcs], pc'[t] = step,
         IsFunction(reg'), DOMAIN reg' = Threads, reg'[t] = new,
         \A u \in Threads : IsReg(reg'[u]) /\ reg'[u].part \in {"entry", "image"},
         \A u \in Threads \ {t} : Same(u),
         UNCHANGED <<calls, added>>, Data', Stored', CacheInv',
         Routed(t)', new.part = "entry" => HoldsEntry(t)', new.part = "image" => HoldsImage(t)',
         step = "move" => new.copy = new.name \/ (Cached(t)' /\ overlapped'),
         new.open = "temporary" => step = "copied"
  PROVE  SInv'
<1>1. UNCHANGED <<queue, result, batch, futures, built>>
  BY DEF calls
<1>2. StoreTypeOK'
  <2>1. StoreTypeOK /\ added' = added
    BY DEF SInv
  <2>2. requests' \in Scripts /\ added' \subseteq DOMAIN requests'
        /\ tree' \in Nat \ {0} /\ tag' \in Nat \ {0} /\ overlapped' \in BOOLEAN
    BY <2>1 DEF StoreTypeOK, Onward
  <2>3. /\ queue' \in [Processes -> Seq(added')]
        /\ batch' \in [Threads -> Seq(added')] /\ futures' \in [Threads -> Seq(added')]
    BY <1>1, <2>1 DEF StoreTypeOK
  <2>4. /\ IsFunction(result') /\ DOMAIN result' = DOMAIN requests'
        /\ IsFunction(built') /\ DOMAIN built' = Threads
        /\ \A u \in Threads : IsSequence(built'[u])
    BY <1>1, <2>1 DEF StoreTypeOK, Onward
  <2> QED
    BY <2>2, <2>3, <2>4 DEF StoreTypeOK, Data
<1>3. Queues' /\ Answered'
  <2>1. Queues'
    BY <1>1 DEF SInv, Queues, Onward
  <2> QED
    BY <1>1, <2>1, AnswersStay DEF SInv
<1>4. Called(t)'
  BY <1>1 DEF SInv, ThreadInv, Called, Onward, Busy, Ends
<1>5. Finished(t)'
  <2> SUFFICES ASSUME NEW k \in 1 .. Len(built[t])
               PROVE  /\ built[t][k].request = batch[t][k]
                      /\ EntryDone(batch[t][k], built[t][k].entry)'
                      /\ ImageDone(batch[t][k], built[t][k].image, built[t][k].digest)'
    BY <1>1 DEF Finished, Ends
  <2>1. PICK i, entry, image, digest :
          /\ i = batch[t][k] /\ entry = built[t][k].entry
          /\ image = built[t][k].image /\ digest = built[t][k].digest
    OBVIOUS
  <2>2. EntryDone(i, entry) /\ ImageDone(i, image, digest) /\ built[t][k].request = i
    BY <2>1 DEF SInv, ThreadInv, Finished
  <2>3. EntryDone(i, entry)' /\ ImageDone(i, image, digest)'
    BY <2>2, EntryStays, ImageStays DEF SInv
  <2>4. batch'[t][k] = i /\ built'[t][k].entry = entry /\ built'[t][k].image = image
        /\ built'[t][k].digest = digest
    BY <1>1, <2>1
  <2> QED
    BY <1>1, <2>1, <2>2, <2>3, <2>4
<1>6. ThreadInv(t)'
  BY <1>4, <1>5 DEF ThreadInv
<1> QED
  BY <1>2, <1>3, <1>6, SInvBy

LEMMA GoBy ==
  ASSUME SInv, Onward, NEW t \in Threads, Busy(t), NEW step \in Pcs \ Ends, NEW new,
         IsReg(new), new.part \in {"entry", "image"}, Go(t, step, new),
         UNCHANGED <<calls, added>>, Data',
         UNCHANGED <<blobs, temporary, link>> \/ InCache(t) \/ overlapped', Stored', CacheInv',
         Routed(t)', new.part = "entry" => HoldsEntry(t)', new.part = "image" => HoldsImage(t)',
         step = "move" => new.copy = new.name \/ (Cached(t)' /\ overlapped'),
         new.open = "temporary" => step = "copied"
  PROVE  SInv'
<1>1. /\ pc' \in [Threads -> Pcs] /\ pc'[t] = step
      /\ IsFunction(reg') /\ DOMAIN reg' = Threads /\ reg'[t] = new
      /\ \A u \in Threads : IsReg(reg'[u]) /\ reg'[u].part \in {"entry", "image"}
      /\ \A u \in Threads \ {t} : pc'[u] = pc[u] /\ reg'[u] = reg[u]
  BY GoIs DEF SInv
<1>2. UNCHANGED <<batch, futures, built>>
  BY DEF calls
<1>3. \A u \in Threads \ {t} : Same(u)
  BY <1>1, <1>2, OthersSame DEF Same
<1> QED
  BY <1>1, <1>3, SettleBy

LEMMA RouteEntryIs ==
  ASSUME requests \in Scripts, NEW i \in DOMAIN requests
  PROVE  LET entry == requests[i].entry  step == RouteEntry(requests[i])
         IN  \/ step = "freeze" /\ entry \in {"tree", "capture"}
             \/ step = "verify" /\ entry = "frozen"
             \/ step \in {"dockerize", "archive"} /\ entry \in Built
             \/ step = "stage" /\ entry = "input"
             \/ step = "fetch" /\ entry \in {"fetch", "fetchdir"}
<1>1. /\ requests[i].entry \in {"tree", "frozen"} \cup Direct \cup Built
      /\ requests[i].image = "built" => requests[i].entry = "python"
  BY StoreAssumption
<1> QED
  BY <1>1 DEF RouteEntry, Direct, Built

LEMMA RouteImageIs ==
  ASSUME requests \in Scripts, NEW i \in DOMAIN requests, requests[i].image # "none"
  PROVE  LET image == requests[i].image  step == RouteImage(image)
         IN  \/ step = "named" /\ image = "named"
             \/ step = "hash" /\ image = "sif"
             \/ step = "query" /\ image \in {"daemon", "built"}
<1>1. requests[i].image \in {"none", "named", "sif", "daemon", "built"}
  BY StoreAssumption
<1> QED
  BY <1>1 DEF RouteImage

\* A thread that starts with a request.
LEMMA StartIs ==
  ASSUME SInv, requests' = requests, NEW t \in Threads, NEW i \in DOMAIN requests,
         Request(t)' = requests[i], pc'[t] = RouteEntry(requests[i]), reg'[t].part = "entry"
  PROVE  /\ Routed(t)' /\ HoldsEntry(t)' /\ pc'[t] \in Making
         /\ pc'[t] \notin {"move", "copied"}
<1> DEFINE entry == requests[i].entry  step == pc'[t]
<1>1. \/ step = "freeze" /\ entry \in {"tree", "capture"}
      \/ step = "verify" /\ entry = "frozen"
      \/ step \in {"dockerize", "archive"} /\ entry \in Built
      \/ step = "stage" /\ entry = "input"
      \/ step = "fetch" /\ entry \in {"fetch", "fetchdir"}
  BY RouteEntryIs DEF SInv, StoreTypeOK
<1>2. Routed(t)'
  BY <1>1 DEF Routed, Making, Caching, Moving
<1>3. HoldsEntry(t)'
  BY <1>1 DEF HoldsEntry, Moving
<1> QED
  BY <1>1, <1>2, <1>3 DEF Making

\* The request a busy thread is at.
LEMMA RequestIs ==
  ASSUME SInv, NEW t \in Threads, Busy(t)
  PROVE  /\ Len(built[t]) \in Nat /\ Len(batch[t]) \in Nat
         /\ Len(built[t]) + 1 \in 1 .. Len(batch[t])
         /\ \A k \in 1 .. Len(batch[t]) : batch[t][k] \in added /\ batch[t][k] \in DOMAIN requests
         /\ Request(t) = requests[batch[t][Len(built[t]) + 1]]
<1>1. Called(t) /\ StoreTypeOK
  BY DEF SInv, ThreadInv
<1>2. Len(built[t]) \in Nat
  BY <1>1, SequenceIs DEF StoreTypeOK
<1>3. batch[t] \in Seq(added) /\ Len(batch[t]) \in Nat
      /\ \A k \in 1 .. Len(batch[t]) : batch[t][k] \in added
  BY <1>1, LenProperties, ElementOfSeq DEF StoreTypeOK
<1> QED
  BY <1>1, <1>2, <1>3 DEF Called, StoreTypeOK, Request

\* A call of package() returns.
LEMMA ReturnBy ==
  ASSUME SInv, Mild, NEW t \in Threads, Returned(t), UNCHANGED cache,
         IsFunction(result'), DOMAIN result' = DOMAIN requests, Answered'
  PROVE  SInv'
<1>1. Onward /\ Stored'
  BY MildIs DEF cache, SInv, StoreTypeOK
<1>2. /\ pc' = [pc EXCEPT ![t] = "idle"] /\ reg' = [reg EXCEPT ![t] = Idle]
      /\ batch' = [batch EXCEPT ![t] = <<>>] /\ futures' = [futures EXCEPT ![t] = <<>>]
      /\ built' = [built EXCEPT ![t] = <<>>] /\ queue' = queue
  BY DEF Returned
<1>3. IsReg(Idle) /\ Idle.part = "entry" /\ Idle.open = "none"
  BY DEF Idle, Begun, IsReg
<1>4. /\ pc' \in [Threads -> Pcs] /\ pc'[t] = "idle"
      /\ IsFunction(reg') /\ DOMAIN reg' = Threads /\ reg'[t] = Idle
      /\ \A u \in Threads : IsReg(reg'[u]) /\ reg'[u].part \in {"entry", "image"}
      /\ \A u \in Threads \ {t} : pc'[u] = pc[u] /\ reg'[u] = reg[u]
  BY <1>2, <1>3, GoIs DEF SInv, Go, Pcs, Ends
<1>5. /\ batch' \in [Threads -> Seq(added)] /\ futures' \in [Threads -> Seq(added)]
      /\ batch'[t] = <<>> /\ futures'[t] = <<>> /\ Len(<<>>) = 0
      /\ \A u \in Threads \ {t} : batch'[u] = batch[u] /\ futures'[u] = futures[u]
  BY <1>2, EmptySeq DEF SInv, StoreTypeOK
<1>6. /\ IsFunction(built') /\ DOMAIN built' = Threads /\ built'[t] = <<>>
      /\ \A u \in Threads \ {t} : built'[u] = built[u]
      /\ \A u \in Threads : IsSequence(built'[u])
  <2>1. IsFunction(built) /\ DOMAIN built = Threads /\ \A u \in Threads : IsSequence(built[u])
    BY DEF SInv, StoreTypeOK
  <2>2. /\ IsFunction(built') /\ DOMAIN built' = Threads /\ built'[t] = <<>>
        /\ \A u \in Threads \ {t} : built'[u] = built[u]
    BY <1>2, <2>1, ExceptIs
  <2> QED
    BY <2>1, <2>2, EmptyIs
<1>7. UNCHANGED <<requests, added, tree, tag, files, sources, blobs, temporary, link, overlapped>>
  BY DEF Mild, author, cache
<1>8. StoreTypeOK'
  <2>1. StoreTypeOK
    BY DEF SInv
  <2>2. requests' \in Scripts /\ added' \subseteq DOMAIN requests'
        /\ tree' \in Nat \ {0} /\ tag' \in Nat \ {0} /\ overlapped' \in BOOLEAN
    BY <1>7, <2>1 DEF StoreTypeOK
  <2>3. /\ queue' \in [Processes -> Seq(added')]
        /\ batch' \in [Threads -> Seq(added')] /\ futures' \in [Threads -> Seq(added')]
    BY <1>2, <1>5, <1>7, <2>1 DEF StoreTypeOK
  <2>4. IsFunction(files') /\ IsFunction(blobs') /\ IsFunction(temporary')
    BY <1>7, <2>1 DEF StoreTypeOK
  <2> QED
    BY <1>4, <1>6, <1>7, <2>2, <2>3, <2>4 DEF StoreTypeOK
<1>9. \A u \in Threads \ {t} : Same(u)
  BY <1>4, <1>5, <1>6, <1>7 DEF Same
<1>10. Queues'
  BY <1>2, <1>7 DEF SInv, Queues
<1>11. ThreadInv(t)'
  BY <1>3, <1>4, <1>5, <1>6 DEF ThreadInv, Called, Finished, Busy, Ends
<1>12. CacheInv'
  <2>1. ~InCache(t)'
    BY <1>4 DEF InCache
  <2> QED
    BY <1>1, <1>9, <2>1, CacheStays
<1> QED
  BY <1>1, <1>8, <1>9, <1>10, <1>11, <1>12, SInvBy

LEMMA RaiseBy ==
  ASSUME SInv, Mild, NEW t \in Threads, Raise(t), UNCHANGED cache
  PROVE  SInv'
<1>1. Onward
  BY MildIs DEF cache, SInv, StoreTypeOK
<1>2. IsFunction(result') /\ DOMAIN result' = DOMAIN requests /\ Returned(t)
  BY DEF Raise, IsFunction, SInv, StoreTypeOK
<1>3. Answered'
  BY <1>1, AnswersStay DEF Raise, SInv
<1> QED
  BY <1>2, <1>3, ReturnBy

\* A part is packaged: the thread goes on to the image ...
LEMMA EntryPartDone ==
  ASSUME SInv, Onward, UNCHANGED <<author, tag, cache, sources, called>>,
         NEW t \in Threads, Busy(t),
         IsFunction(files'), Stored', NEW from, from.part = "entry",
         PartDone(t, from), Request(t).image # "none",
         EntryDone(batch[t][Len(built[t]) + 1], from.name)'
  PROVE  SInv'
<1> DEFINE i == batch[t][Len(built[t]) + 1]
           step == RouteImage(Request(t).image)
           new == Begun("image", from.name)
<1>1. i \in DOMAIN requests /\ Request(t) = requests[i] /\ requests \in Scripts
  BY RequestIs DEF SInv, StoreTypeOK
<1>2. \/ step = "named" /\ Request(t).image = "named"
      \/ step = "hash" /\ Request(t).image = "sif"
      \/ step = "query" /\ Request(t).image \in {"daemon", "built"}
  BY <1>1, RouteImageIs
<1>3. IsReg(new) /\ new.part = "image" /\ new.entry = from.name /\ new.open = "none"
  BY DEF IsReg, Begun
<1>4. Go(t, step, new) /\ UNCHANGED built
  BY DEF PartDone
<1>5. UNCHANGED <<calls, added>> /\ UNCHANGED <<requests, tree>> /\ UNCHANGED <<blobs, temporary, link, overlapped>>
  BY <1>4 DEF called, calls, author, cache
<1>6. step \in Pcs \ Ends /\ step \notin {"move", "copied"}
  BY <1>2 DEF Pcs, Ends, Moving
<1>7. /\ pc'[t] = step /\ reg'[t] = new /\ \A u \in Threads \ {t} : pc'[u] = pc[u] /\ reg'[u] = reg[u]
  BY <1>3, <1>4, <1>6, GoIs DEF SInv
<1>8. Request(t)' = Request(t) /\ batch' = batch /\ built' = built
  BY <1>5 DEF Request, calls
<1>9. Routed(t)'
  BY <1>2, <1>3, <1>7, <1>8 DEF Routed, Cached, Making, Caching, Moving
<1>10. HoldsImage(t)'
  <2>1. EntryDone(batch[t][Len(built[t]) + 1], reg[t].entry)'
    <3>1. PICK j, n : j = i /\ n = from.name
      OBVIOUS
    <3>2. EntryDone(j, n)'
      BY <1>8, <3>1
    <3>3. j = batch'[t][Len(built'[t]) + 1] /\ n = reg'[t].entry
      BY <1>3, <1>7, <1>8, <3>1
    <3> QED
      BY <3>2, <3>3
  <2> QED
    BY <1>2, <1>3, <1>7, <1>8, <2>1 DEF HoldsImage, Cached, Caching, Moving
<1>11. CacheInv'
  <2>1. InCache(t)' => InCache(t)
    BY <1>2, <1>7, <1>8 DEF InCache
  <2>2. \A u \in Threads \ {t} : Same(u)
    BY <1>5, <1>7 DEF Same, calls
  <2> HIDE DEF new, step
  <2> QED
    BY <2>1, <2>2, CacheStays
<1>12. Data'
  BY <1>5 DEF SInv, StoreTypeOK, Data
<1> HIDE DEF new, step
<1> QED
  BY <1>3, <1>4, <1>5, <1>6, <1>9, <1>10, <1>11, <1>12, GoBy

\* ... or to the next request, or to the record.
LEMMA RequestDone ==
  ASSUME SInv, Onward, UNCHANGED <<author, tag, cache, sources, called>>,
         NEW t \in Threads, Busy(t), NEW i, i = batch[t][Len(built[t]) + 1],
         IsFunction(files'), Stored', NEW executable,
         built' = [built EXCEPT ![t] = Append(@, executable)],
         IF Len(built[t]) + 1 = Len(batch[t]) THEN Go(t, "record", Idle)
         ELSE Go(t, RouteEntry(requests[batch[t][Len(built[t]) + 2]]), Idle),
         executable.request = i, EntryDone(i, executable.entry)',
         ImageDone(i, executable.image, executable.digest)'
  PROVE  SInv'
<1> DEFINE step == IF Len(built[t]) + 1 = Len(batch[t]) THEN "record"
                   ELSE RouteEntry(requests[batch[t][Len(built[t]) + 2]])
<1>1. /\ Len(built[t]) \in Nat /\ Len(batch[t]) \in Nat
      /\ Len(built[t]) + 1 \in 1 .. Len(batch[t])
      /\ \A k \in 1 .. Len(batch[t]) : batch[t][k] \in added /\ batch[t][k] \in DOMAIN requests
  BY RequestIs
<1>2. UNCHANGED <<requests, added, tree, tag, blobs, temporary, link, overlapped, sources>>
      /\ UNCHANGED <<queue, result, batch, futures>>
  BY DEF called, author, cache
<1>3. Go(t, step, Idle)
  OBVIOUS
<1>4. /\ IsFunction(built') /\ DOMAIN built' = Threads
      /\ \A u \in Threads \ {t} : built'[u] = built[u]
      /\ \A u \in Threads : IsSequence(built'[u])
      /\ Len(built'[t]) = Len(built[t]) + 1 /\ built'[t][Len(built[t]) + 1] = executable
      /\ \A k \in 1 .. Len(built[t]) : built'[t][k] = built[t][k]
  <2>1. IsFunction(built) /\ DOMAIN built = Threads /\ \A u \in Threads : IsSequence(built[u])
    BY DEF SInv, StoreTypeOK
  <2>2. /\ IsFunction(built') /\ DOMAIN built' = Threads /\ built'[t] = Append(built[t], executable)
        /\ \A u \in Threads \ {t} : built'[u] = built[u]
    BY <2>1, ExceptIs
  <2>3. /\ IsSequence(Append(built[t], executable)) /\ Len(Append(built[t], executable)) = Len(built[t]) + 1
        /\ \A k \in 1 .. Len(built[t]) : Append(built[t], executable)[k] = built[t][k]
        /\ Append(built[t], executable)[Len(built[t]) + 1] = executable
    BY <2>1, AppendIs
  <2> QED
    BY <2>1, <2>2, <2>3
<1>5. Len(built[t]) + 1 # Len(batch[t]) => step \in Making
  <2> SUFFICES ASSUME Len(built[t]) + 1 # Len(batch[t]) PROVE step \in Making
    OBVIOUS
  <2>1. batch[t][Len(built[t]) + 2] \in DOMAIN requests
    BY <1>1
  <2> QED
    BY <2>1, RouteEntryIs DEF SInv, StoreTypeOK, Making
<1>6. IsReg(Idle) /\ Idle.part = "entry" /\ Idle.open = "none"
  BY DEF Idle, Begun, IsReg
<1>7. step \in Pcs /\ (step = "record" \/ step \in Making)
  BY <1>5 DEF Pcs, Ends
<1>8. /\ pc' \in [Threads -> Pcs] /\ pc'[t] = step
      /\ IsFunction(reg') /\ DOMAIN reg' = Threads /\ reg'[t] = Idle
      /\ \A u \in Threads : IsReg(reg'[u]) /\ reg'[u].part \in {"entry", "image"}
      /\ \A u \in Threads \ {t} : pc'[u] = pc[u] /\ reg'[u] = reg[u]
  BY <1>3, <1>6, <1>7, GoIs DEF SInv
<1>9. StoreTypeOK'
  <2>1. StoreTypeOK
    BY DEF SInv
  <2>2. requests' \in Scripts /\ added' \subseteq DOMAIN requests'
        /\ tree' \in Nat \ {0} /\ tag' \in Nat \ {0} /\ overlapped' \in BOOLEAN
    BY <1>2, <2>1 DEF StoreTypeOK
  <2>3. /\ queue' \in [Processes -> Seq(added')]
        /\ batch' \in [Threads -> Seq(added')] /\ futures' \in [Threads -> Seq(added')]
    BY <1>2, <2>1 DEF StoreTypeOK
  <2>4. IsFunction(blobs') /\ IsFunction(temporary') /\ IsFunction(result') /\ DOMAIN result' = DOMAIN requests'
    BY <1>2, <2>1 DEF StoreTypeOK
  <2> QED
    BY <1>4, <1>8, <2>2, <2>3, <2>4 DEF StoreTypeOK
<1>10. \A u \in Threads \ {t} : Same(u)
  BY <1>2, <1>4, <1>8 DEF Same
<1>11. Queues' /\ Answered'
  <2>1. Queues'
    BY <1>2 DEF SInv, Queues
  <2> QED
    BY <1>2, <2>1, AnswersStay DEF SInv
<1>12. Called(t)'
  <2>1. Called(t)
    BY DEF SInv, ThreadInv
  <2>2. step \in {"record", "finish"} => Len(built'[t]) = Len(batch[t])
    BY <1>4, <1>5 DEF Making
  <2>3. step \notin Ends => Len(built'[t]) < Len(batch[t])
    BY <1>1, <1>4 DEF Ends
  <2>4. step # "idle"
    BY <1>7 DEF Making
  <2>5. UNCHANGED <<requests, batch, futures>>
    BY <1>2
  <2> HIDE DEF step
  <2> QED
    BY <1>8, <2>1, <2>2, <2>3, <2>4, <2>5 DEF Called, Busy
<1>13. Finished(t)'
  <2> SUFFICES ASSUME NEW k \in 1 .. (Len(built[t]) + 1)
               PROVE  /\ built'[t][k].request = batch[t][k]
                      /\ EntryDone(batch[t][k], built[t][k].entry)'
                      /\ ImageDone(batch[t][k], built[t][k].image, built[t][k].digest)'
    BY <1>2, <1>4, <1>7, <1>8 DEF Finished, Making
  <2>1. PICK j, entry, image, digest, request :
          /\ j = batch[t][k] /\ entry = built'[t][k].entry /\ request = built'[t][k].request
          /\ image = built'[t][k].image /\ digest = built'[t][k].digest
    OBVIOUS
  <2>2. CASE k = Len(built[t]) + 1
    <3>1. j = i /\ request = i /\ entry = executable.entry /\ image = executable.image
          /\ digest = executable.digest
      BY <1>4, <2>1, <2>2
    <3>2. EntryDone(j, entry)' /\ ImageDone(j, image, digest)'
      BY <3>1
    <3> QED
      BY <1>2, <2>1, <3>1, <3>2
  <2>3. CASE k \in 1 .. Len(built[t])
    <3>1. EntryDone(j, entry) /\ ImageDone(j, image, digest) /\ request = j
      <4>1. built'[t][k] = built[t][k]
        BY <1>4, <2>3
      <4>2. Finished(t)
        BY DEF SInv, ThreadInv
      <4>3. j = batch[t][k] /\ entry = built[t][k].entry /\ request = built[t][k].request
            /\ image = built[t][k].image /\ digest = built[t][k].digest
        BY <2>1, <4>1
      <4> QED
        BY <2>3, <4>2, <4>3 DEF Finished
    <3>2. EntryDone(j, entry)' /\ ImageDone(j, image, digest)'
      BY <3>1, EntryStays, ImageStays DEF SInv
    <3> QED
      BY <1>2, <2>1, <3>1, <3>2
  <2> QED
    BY <1>1, <2>2, <2>3
<1>14. step \in Making => Routed(t)' /\ HoldsEntry(t)'
  <2> SUFFICES ASSUME step \in Making PROVE Routed(t)' /\ HoldsEntry(t)'
    OBVIOUS
  <2>1. PICK j : j = batch[t][Len(built[t]) + 2]
    OBVIOUS
  <2>2. Len(built[t]) + 2 \in 1 .. Len(batch[t]) /\ j \in DOMAIN requests /\ step = RouteEntry(requests[j])
    BY <1>1, <2>1 DEF Making
  <2>3. Request(t)' = requests[j]
    BY <1>1, <1>2, <1>4, <2>1 DEF Request
  <2> QED
    BY <1>2, <1>6, <1>8, <2>2, <2>3, StartIs
<1>15. ThreadInv(t)'
  BY <1>6, <1>7, <1>8, <1>12, <1>13, <1>14 DEF ThreadInv, Busy, Ends, Making
<1>16. CacheInv'
  <2>1. ~InCache(t)'
    BY <1>6, <1>8 DEF InCache
  <2> QED
    BY <1>10, <2>1, CacheStays
<1> QED
  BY <1>9, <1>10, <1>11, <1>15, <1>16, SInvBy

LEMMA PartDoneBy ==
  ASSUME SInv, Onward, UNCHANGED <<author, tag, cache, sources, called>>,
         NEW t \in Threads, Busy(t), NEW i, i = batch[t][Len(built[t]) + 1],
         IsFunction(files'), Stored', NEW from, from.part \in {"entry", "image"}, PartDone(t, from),
         from.part = "entry" => EntryDone(i, from.name)',
         from.part = "image" => EntryDone(i, from.entry)' /\ ImageDone(i, from.name, from.digest)'
  PROVE  SInv'
<1>1. i \in DOMAIN requests /\ Request(t) = requests[i]
  BY RequestIs
<1>2. CASE from.part = "entry" /\ Request(t).image # "none"
  <2>1. EntryDone(batch[t][Len(built[t]) + 1], from.name)'
    <3>1. UNCHANGED built
      BY <1>2 DEF PartDone
    <3>2. batch'[t][Len(built'[t]) + 1] = i
      BY <3>1 DEF called
    <3> QED
      BY <1>2, <3>2
  <2> QED
    BY <1>2, <2>1, EntryPartDone
<1>3. CASE ~(from.part = "entry" /\ Request(t).image # "none")
  <2>1. PICK executable :
          executable = [request |-> i, digest |-> from.digest,
                        entry |-> IF from.part = "entry" THEN from.name ELSE from.entry,
                        image |-> IF from.part = "entry" THEN Nothing ELSE from.name]
    OBVIOUS
  <2>2. /\ built' = [built EXCEPT ![t] = Append(@, executable)]
        /\ IF Len(built[t]) + 1 = Len(batch[t]) THEN Go(t, "record", Idle)
           ELSE Go(t, RouteEntry(requests[batch[t][Len(built[t]) + 2]]), Idle)
    BY <1>3, <2>1 DEF PartDone
  <2>3. executable.request = i
    BY <2>1
  <2>4. EntryDone(i, executable.entry)' /\ ImageDone(i, executable.image, executable.digest)'
    <3>1. CASE from.part = "entry"
      <4>1. executable.entry = from.name /\ executable.image = Nothing
        BY <2>1, <3>1
      <4>2. EntryDone(i, executable.entry)'
        BY <3>1, <4>1
      <4>3. requests'[i].image = "none"
        BY <1>1, <1>3, <3>1 DEF Onward
      <4> QED
        BY <4>2, <4>3 DEF ImageDone
    <3>2. CASE from.part = "image"
      <4>1. executable.entry = from.entry /\ executable.image = from.name
            /\ executable.digest = from.digest
        BY <2>1, <3>2
      <4> QED
        BY <3>2, <4>1
    <3> QED
      BY <3>1, <3>2
  <2> QED
    BY <2>2, <2>3, <2>4, RequestDone
<1> QED
  BY <1>2, <1>3

\* A file put into a store: it has the content it names, or one of the exceptions
\* StoredByContent makes.
LEMMA PutBy ==
  ASSUME SInv, UNCHANGED <<author, tag, cache, sources>>, NEW f, NEW content,
         files' = Put(files, f, content),
         \/ content = f[2]
         \/ f[1] = "containers" /\ f[2] # Sif /\ overlapped
         \/ f = Destination /\ f \notin DOMAIN files /\ \E i \in added : requests[i].entry = "fetchdir"
  PROVE  Onward /\ IsFunction(files') /\ Stored' /\ (content = f[2] => Good(f)')
<1>1. /\ IsFunction(files') /\ DOMAIN files' = DOMAIN files \cup {f} /\ files'[f] = content
      /\ \A g \in DOMAIN files : g # f => files'[g] = files[g]
  BY DEF Put, IsFunction
<1>2. UNCHANGED <<requests, added, tree, tag, sources, overlapped>>
  BY DEF author, cache
<1>3. ASSUME NEW g, Good(g), Lasting(g)' PROVE Good(g)'
  BY <1>1, <1>2, <1>3 DEF Good, Lasting, Sif
<1>4. Onward
  BY <1>2, <1>3 DEF Onward, SInv, StoreTypeOK
<1>5. Stored'
  <2> SUFFICES ASSUME NEW g \in DOMAIN files'
               PROVE  \/ files'[g] = g[2]
                      \/ g \in DOMAIN Earlier /\ files'[g] = Corrupt
                      \/ g[1] = "containers" /\ g[2] # Sif /\ overlapped
                      \/ g = Destination /\ \E i \in added : requests[i].entry = "fetchdir"
    BY <1>2 DEF Stored, Sif, Destination, Earlier, Corrupt
  <2>1. CASE g = f
    BY <1>1, <2>1
  <2>2. CASE g # f
    BY <1>1, <2>2 DEF SInv, Stored
  <2> QED
    BY <2>1, <2>2
<1> QED
  BY <1>1, <1>4, <1>5 DEF Good

\* One thing a thread holds changed.
LEMMA ContentIs ==
  ASSUME NEW r, IsReg(r), NEW value, NEW new, new = [r EXCEPT !.content = value]
  PROVE  /\ IsReg(new) /\ new.content = value
         /\ new.part = r.part /\ new.name = r.name /\ new.copy = r.copy
         /\ new.digest = r.digest /\ new.open = r.open /\ new.entry = r.entry
<1>1. new = [part |-> r.part, content |-> value, name |-> r.name, copy |-> r.copy,
             digest |-> r.digest, open |-> r.open, entry |-> r.entry]
  BY DEF IsReg
<1> QED
  BY <1>1 DEF IsReg

LEMMA NameIs ==
  ASSUME NEW r, IsReg(r), NEW value, NEW new, new = [r EXCEPT !.name = value]
  PROVE  /\ IsReg(new) /\ new.name = value
         /\ new.part = r.part /\ new.content = r.content /\ new.copy = r.copy
         /\ new.digest = r.digest /\ new.open = r.open /\ new.entry = r.entry
<1>1. new = [part |-> r.part, content |-> r.content, name |-> value, copy |-> r.copy,
             digest |-> r.digest, open |-> r.open, entry |-> r.entry]
  BY DEF IsReg
<1> QED
  BY <1>1 DEF IsReg

LEMMA CopyIs ==
  ASSUME NEW r, IsReg(r), NEW value, NEW new, new = [r EXCEPT !.copy = value]
  PROVE  /\ IsReg(new) /\ new.copy = value
         /\ new.part = r.part /\ new.content = r.content /\ new.name = r.name
         /\ new.digest = r.digest /\ new.open = r.open /\ new.entry = r.entry
<1>1. new = [part |-> r.part, content |-> r.content, name |-> r.name, copy |-> value,
             digest |-> r.digest, open |-> r.open, entry |-> r.entry]
  BY DEF IsReg
<1> QED
  BY <1>1 DEF IsReg

LEMMA DigestIs ==
  ASSUME NEW r, IsReg(r), NEW value, NEW new, new = [r EXCEPT !.digest = value]
  PROVE  /\ IsReg(new) /\ new.digest = value
         /\ new.part = r.part /\ new.content = r.content /\ new.name = r.name
         /\ new.copy = r.copy /\ new.open = r.open /\ new.entry = r.entry
<1>1. new = [part |-> r.part, content |-> r.content, name |-> r.name, copy |-> r.copy,
             digest |-> value, open |-> r.open, entry |-> r.entry]
  BY DEF IsReg
<1> QED
  BY <1>1 DEF IsReg

LEMMA OpenIs ==
  ASSUME NEW r, IsReg(r), NEW value, NEW new, new = [r EXCEPT !.open = value]
  PROVE  /\ IsReg(new) /\ new.open = value
         /\ new.part = r.part /\ new.content = r.content /\ new.name = r.name
         /\ new.copy = r.copy /\ new.digest = r.digest /\ new.entry = r.entry
<1>1. new = [part |-> r.part, content |-> r.content, name |-> r.name, copy |-> r.copy,
             digest |-> r.digest, open |-> value, entry |-> r.entry]
  BY DEF IsReg
<1> QED
  BY <1>1 DEF IsReg

-----------------------------------------------------------------------------
(* The first part of a request, step by step. *)

LEMMA EntryGoes ==
  ASSUME SInv, Onward, NEW t \in Threads, Busy(t), NEW step \in Making \cup Moving, NEW new,
         IsReg(new), new.part = "entry", Go(t, step, new), UNCHANGED <<calls, added, cache>>,
         IsFunction(files'), Stored', Routed(t)', HoldsEntry(t)',
         step = "move" => new.copy = new.name, new.open # "temporary"
  PROVE  SInv'
<1>1. step \in Pcs \ Ends
  BY DEF Pcs, Making, Moving, Ends
<1>2. reg'[t] = new /\ \A u \in Threads \ {t} : pc'[u] = pc[u] /\ reg'[u] = reg[u]
  BY <1>1, GoIs DEF SInv
<1>3. UNCHANGED <<blobs, temporary, link, overlapped>> /\ UNCHANGED <<batch, futures, built>>
  BY DEF cache, calls
<1>4. CacheInv'
  <2>1. ~InCache(t)'
    BY <1>2 DEF InCache
  <2>2. \A u \in Threads \ {t} : Same(u)
    BY <1>2, <1>3 DEF Same
  <2> QED
    BY <2>1, <2>2, CacheStays
<1>5. Data'
  BY <1>3 DEF SInv, StoreTypeOK, Data
<1> QED
  BY <1>1, <1>2, <1>3, <1>4, <1>5, GoBy

\* What is known of a thread at a step.
LEMMA BusyIs ==
  ASSUME SInv, NEW t \in Threads, pc[t] \notin Ends
  PROVE  /\ Busy(t) /\ Routed(t) /\ IsReg(reg[t]) /\ reg[t].part \in {"entry", "image"}
         /\ reg[t].part = "entry" => HoldsEntry(t)
         /\ reg[t].part = "image" => HoldsImage(t)
         /\ pc[t] # "copied" => reg[t].open # "temporary"
         /\ pc[t] = "move" => reg[t].copy = reg[t].name \/ (Cached(t) /\ overlapped)
BY DEF SInv, StoreTypeOK, ThreadInv, Busy

LEMMA FreezeStep == ASSUME SInv, NEW t \in Threads, Freeze(t) PROVE SInv'
<1>1. /\ pc[t] = "freeze" /\ Go(t, "retain", [reg[t] EXCEPT !.content = Tree(tree)])
      /\ Mild /\ UNCHANGED <<calls, cache, added, requests, tree, batch, built, overlapped, files>>
  BY DEF Freeze, Mild, author, calls, cache
<1>2. Onward /\ Stored'
  BY <1>1, MildIs DEF SInv, StoreTypeOK
<1>3. Busy(t) /\ Routed(t) /\ IsReg(reg[t]) /\ reg[t].part = "entry" /\ reg[t].open # "temporary"
  BY <1>1, BusyIs DEF Ends, Making, Routed
<1>4. PICK new : new = [reg[t] EXCEPT !.content = Tree(tree)]
  OBVIOUS
<1>5. IsReg(new) /\ new.content = Tree(tree) /\ new.part = "entry" /\ new.open # "temporary"
  BY <1>3, <1>4, ContentIs
<1>6. pc'[t] = "retain" /\ reg'[t] = new
  BY <1>1, <1>4, <1>5, GoIs DEF SInv, Pcs, Making
<1>7. Request(t)' = Request(t)
  BY <1>1 DEF Request
<1>8. Request(t).entry \in {"tree", "capture"}
  BY <1>1, <1>3 DEF Routed
<1>9. Routed(t)'
  BY <1>5, <1>6, <1>7, <1>8 DEF Routed, Making, Caching, Moving
<1>10. HoldsEntry(t)'
  <2>1. Tree(tree) \in Trees'
    BY <1>1 DEF Trees, Tree, SInv, StoreTypeOK
  <2> QED
    BY <1>5, <1>6, <2>1 DEF HoldsEntry, Moving
<1> QED
  BY <1>1, <1>2, <1>3, <1>4, <1>5, <1>9, <1>10, EntryGoes DEF Making, SInv, StoreTypeOK

LEMMA RetainStep == ASSUME SInv, NEW t \in Threads, Retain(t) PROVE SInv'
<1>1. /\ pc[t] = "retain" /\ UNCHANGED <<author, tag, cache, sources, called>>
      /\ UNCHANGED <<requests, added, tree, batch>>
      /\ files' = Put(files, <<"sources", reg[t].content>>, reg[t].content)
  BY DEF Retain, author, called
<1>2. Busy(t) /\ Routed(t) /\ IsReg(reg[t]) /\ reg[t].part = "entry" /\ reg[t].open # "temporary"
      /\ HoldsEntry(t)
  BY <1>1, BusyIs DEF Ends, Making, Routed
<1>3. PICK n : n = reg[t].content
  OBVIOUS
<1>4. n \in Trees /\ Trees' = Trees
  BY <1>1, <1>2, <1>3 DEF HoldsEntry, Trees, Tree
<1>5. PICK f : f = <<"sources", n>>
  OBVIOUS
<1>6. Onward /\ IsFunction(files') /\ Stored' /\ Good(f)'
  <2>1. files' = Put(files, f, n) /\ f[2] = n
    BY <1>1, <1>3, <1>5
  <2> QED
    BY <1>1, <2>1, PutBy
<1>7. Request(t).entry \in {"tree", "capture"}
  BY <1>1, <1>2 DEF Routed
<1>8. CASE Request(t).entry = "capture"
  <2>1. PICK i : i = batch[t][Len(built[t]) + 1]
    OBVIOUS
  <2>2. PICK new : new = [reg[t] EXCEPT !.name = reg[t].content]
    OBVIOUS
  <2>3. new.part = "entry" /\ new.name = n
    BY <1>2, <1>3, <2>2, NameIs
  <2>4. requests'[i].entry = "capture"
    BY <1>1, <1>2, <1>8, <2>1, RequestIs
  <2>5. EntryDone(i, n)'
    BY <1>4, <1>5, <1>6, <2>4 DEF EntryDone, Built
  <2>6. PartDone(t, new)
    BY <1>8, <2>2 DEF Retain
  <2> QED
    BY <1>1, <1>2, <1>6, <2>1, <2>3, <2>5, <2>6, PartDoneBy
<1>9. CASE Request(t).entry # "capture"
  <2>1. Go(t, "verify", reg[t]) /\ UNCHANGED built
    BY <1>9 DEF Retain
  <2>2. pc'[t] = "verify" /\ reg'[t] = reg[t]
    BY <1>2, <2>1, GoIs DEF SInv, Pcs, Making
  <2>3. Request(t)' = Request(t)
    BY <1>1, <2>1 DEF Request
  <2>4. Routed(t)'
    BY <1>2, <1>7, <1>9, <2>2, <2>3 DEF Routed, Making, Caching, Moving
  <2>5. HoldsEntry(t)'
    BY <1>3, <1>4, <2>2 DEF HoldsEntry, Moving
  <2>6. UNCHANGED <<calls, added, cache>>
    BY <1>1, <2>1 DEF calls, called
  <2> QED
    BY <1>2, <1>6, <2>1, <2>4, <2>5, <2>6, EntryGoes DEF Making
<1> QED
  BY <1>8, <1>9

LEMMA VerifyStep == ASSUME SInv, NEW t \in Threads, Verify(t) PROVE SInv'
<1>1. /\ pc[t] = "verify" /\ Mild /\ UNCHANGED <<cache, added, requests, tree, overlapped, files>>
  BY DEF Verify, Mild, author, cache
<1>2. Busy(t) /\ Routed(t) /\ IsReg(reg[t]) /\ reg[t].part = "entry" /\ reg[t].open # "temporary"
      /\ HoldsEntry(t)
  BY <1>1, BusyIs DEF Ends, Making, Routed
<1>3. CASE Verified(t)
  <2>1. Go(t, "hash", [reg[t] EXCEPT !.content = SourceId(t)]) /\ UNCHANGED calls
    BY <1>3 DEF Verify
  <2>2. PICK new : new = [reg[t] EXCEPT !.content = SourceId(t)]
    OBVIOUS
  <2>3. IsReg(new) /\ new.content = SourceId(t) /\ new.part = "entry" /\ new.open # "temporary"
    BY <1>2, <2>2, ContentIs
  <2>4. pc'[t] = "hash" /\ reg'[t] = new
    <3>1. Go(t, "hash", new) /\ "hash" \in Pcs /\ StoreTypeOK
      BY <2>1, <2>2 DEF SInv, Pcs, Moving
    <3> QED
      BY <2>3, <3>1, GoIs
  <2>5. Request(t)' = Request(t)
    BY <1>1, <2>1 DEF Request, calls
  <2>6. Request(t).entry \in {"tree", "frozen"}
    BY <1>1, <1>2 DEF Routed
  <2>7. Routed(t)'
    BY <2>3, <2>4, <2>5, <2>6 DEF Routed, Making, Caching, Moving
  <2>8. SourceId(t)' = SourceId(t) /\ Retained(t)' = Retained(t)
    BY <2>3, <2>4, <2>5 DEF SourceId, Retained
  <2>9. HoldsEntry(t)'
    <3>1. Good(Retained(t)) /\ Good(Retained(t))'
      BY <1>1, <1>3, <2>8 DEF Verified, Good, Retained
    <3>2. Request(t).entry = "tree" => reg'[t].content \in Trees /\ Trees' = Trees
      BY <1>1, <1>2, <2>3, <2>4 DEF HoldsEntry, SourceId, Trees, Tree
    <3> QED
      BY <2>4, <2>5, <2>6, <3>1, <3>2 DEF HoldsEntry, Moving, Built
  <2>10. Onward /\ Stored' /\ IsFunction(files')
    BY <1>1, MildIs DEF SInv, StoreTypeOK
  <2> QED
    BY <1>1, <1>2, <2>1, <2>2, <2>3, <2>4, <2>7, <2>9, <2>10, EntryGoes DEF Moving
<1>4. CASE ~Verified(t)
  BY <1>1, <1>4, RaiseBy DEF Verify
<1> QED
  BY <1>3, <1>4

LEMMA DockerizeStep == ASSUME SInv, NEW t \in Threads, Dockerize(t) PROVE SInv'
<1>1. /\ pc[t] = "dockerize" /\ Go(t, "archive", reg[t]) /\ tag' \in {tag, tag + 1}
      /\ UNCHANGED <<calls, cache, requests, added, tree, batch, built, overlapped, files, sources>>
  BY DEF Dockerize, author, calls, cache
<1>2. Busy(t) /\ Routed(t) /\ IsReg(reg[t]) /\ reg[t].part = "entry" /\ reg[t].open # "temporary"
  BY <1>1, BusyIs DEF Ends, Making, Routed
<1>3. Onward /\ Stored' /\ IsFunction(files')
  <2>1. Onward
    BY <1>1 DEF SInv, StoreTypeOK, Onward, Good
  <2>2. Stored'
    BY <1>1 DEF SInv, Stored, Sif, Destination
  <2> QED
    BY <1>1, <2>1, <2>2 DEF SInv, StoreTypeOK
<1>4. pc'[t] = "archive" /\ reg'[t] = reg[t] /\ Request(t)' = Request(t)
  BY <1>1, <1>2, GoIs DEF SInv, Pcs, Making, Request
<1>5. Request(t).entry \in Built
  BY <1>1, <1>2 DEF Routed
<1>6. Routed(t)'
  BY <1>2, <1>4, <1>5 DEF Routed, Making, Caching, Moving
<1>7. HoldsEntry(t)'
  BY <1>4 DEF HoldsEntry, Moving
<1> QED
  BY <1>1, <1>2, <1>3, <1>6, <1>7, EntryGoes DEF Making

\* An archive packed from a directory that has what was installed, from version v
\* of the tree, and every further file, in no older version.
LEMMA PackedIs ==
  ASSUME StoreTypeOK, NEW t \in Threads, Request(t).entry \in Built, NEW v \in 1 .. tree, NEW directory,
         \A path \in Paths(Request(t).entry) :
           path \in DOMAIN directory /\ directory[path] = <<path[1], v>>,
         \A f \in Request(t).resources :
           /\ f.path \in DOMAIN directory
           /\ directory[f.path][1] = f.file /\ directory[f.path][2] \in v .. tree
  PROVE  Whole(Packed(t, directory)[3], Request(t))
<1> DEFINE r == Request(t)
           kept == [path \in {path \in DOMAIN directory : path[1] \notin {"bin", "dist-info"}} |->
                      directory[path]]
<1>1. CASE r.entry = "python"
  <2>1. PICK archive : archive = Put(kept, <<"entrypoint.sh">>, <<"entrypoint", 0>>)
    OBVIOUS
  <2>2. Packed(t, directory)[3] = archive
    BY <1>1, <2>1 DEF Packed
  <2>3. /\ archive[<<"entrypoint.sh">>] = <<"entrypoint", 0>>
        /\ \A path \in DOMAIN directory :
             path[1] \notin {"bin", "dist-info"} /\ path # <<"entrypoint.sh">> =>
               archive[path] = directory[path]
    <3>1. PICK k : k = kept
      OBVIOUS
    <3>2. \A path \in DOMAIN directory :
            path[1] \notin {"bin", "dist-info"} => path \in DOMAIN k /\ k[path] = directory[path]
      BY <3>1
    <3>3. archive = Put(k, <<"entrypoint.sh">>, <<"entrypoint", 0>>)
      BY <2>1, <3>1
    <3> QED
      BY <3>2, <3>3 DEF Put
  <2>4. archive[<<"package">>] = <<"package", v>>
    <3>1. <<"package">> \in Paths("python")
      BY DEF Paths
    <3>2. directory[<<"package">>] = <<"package", v>> /\ <<"package">> \in DOMAIN directory
      BY <1>1, <3>1
    <3> QED
      BY <2>3, <3>2
  <2>5. ASSUME NEW f \in r.resources, f.path[1] \notin {"bin", "dist-info", "entrypoint.sh"}
        PROVE  archive[f.path][1] = f.file /\ archive[f.path][2] \in v .. tree
    <3>1. f.path # <<"entrypoint.sh">>
      BY <2>5
    <3> QED
      BY <2>3, <2>5, <3>1
  <2> QED
    BY <1>1, <2>2, <2>3, <2>4, <2>5 DEF Whole
<1>2. CASE r.entry \in {"pex", "universal"}
  <2>1. Packed(t, directory)[3] = directory
    BY <1>2 DEF Packed
  <2>2. PICK body : body = (CASE r.entry = "python" -> <<"package">> [] r.entry = "pex" -> <<"name.pex">>
                              [] OTHER -> <<"run">>)
    OBVIOUS
  <2>3. body \in Paths(r.entry)
    BY <1>2, <2>2 DEF Paths
  <2>4. directory[body][1] = body[1] /\ directory[body][2] = v
    BY <2>3
  <2> QED
    BY <1>2, <2>1, <2>2, <2>4 DEF Whole
<1> QED
  BY <1>1, <1>2 DEF Built

LEMMA ArchiveStep == ASSUME SInv, NEW t \in Threads, Archive(t) PROVE SInv'
<1>1. /\ pc[t] = "archive" /\ Mild
      /\ UNCHANGED <<calls, cache, requests, added, tree, batch, built, overlapped, files>>
  BY DEF Archive, Mild, author, calls, cache
<1>2. Onward /\ Stored' /\ IsFunction(files')
  BY <1>1, MildIs DEF SInv, StoreTypeOK
<1>3. Busy(t) /\ Routed(t) /\ IsReg(reg[t]) /\ reg[t].part = "entry" /\ reg[t].open # "temporary"
  BY <1>1, BusyIs DEF Ends, Making, Routed
<1>4. Request(t).entry \in Built
  BY <1>1, <1>3 DEF Routed
<1>5. tree \in 1 .. tree /\ tree' = tree
  BY <1>1 DEF SInv, StoreTypeOK
<1>6. Request(t)' = Request(t)
  BY <1>1 DEF Request
<1>7. CASE Request(t).entry = "universal"
  <2>1. PICK archive : archive = Packed(t, Made(Request(t).entry))
    OBVIOUS
  <2>2. PICK new : new = [reg[t] EXCEPT !.content = archive]
    OBVIOUS
  <2>3. IsReg(new) /\ new.content = archive /\ new.part = "entry" /\ new.open # "temporary"
    BY <1>3, <2>2, ContentIs
  <2>4. Go(t, "hash", new)
    BY <1>7, <2>1, <2>2 DEF Archive
  <2>5. pc'[t] = "hash" /\ reg'[t] = new
    BY <2>3, <2>4, GoIs DEF SInv, Pcs, Moving
  <2>6. Routed(t)'
    BY <1>4, <1>6, <2>3, <2>5 DEF Routed, Making, Caching, Moving
  <2>7. Request(t).resources = {}
    BY <1>3, <1>7, RequestIs, StoreAssumption DEF SInv, StoreTypeOK
  <2>8. Whole(archive[3], Request(t))
    <3>1. \A path \in Paths(Request(t).entry) :
            path \in DOMAIN Made(Request(t).entry) /\ Made(Request(t).entry)[path] = <<path[1], tree>>
      BY DEF Made
    <3>2. PICK directory : directory = Made(Request(t).entry)
      OBVIOUS
    <3> QED
      BY <1>4, <1>5, <2>1, <2>7, <3>1, <3>2, PackedIs DEF SInv
  <2>9. HoldsEntry(t)'
    <3>1. Whole(archive[3], Request(t))'
      BY <1>5, <1>6, <2>8 DEF Whole
    <3>2. Whole(reg[t].content[3], Request(t))'
      BY <2>3, <2>5, <3>1 DEF Whole
    <3> QED
      BY <1>6, <1>7, <2>5, <3>2 DEF HoldsEntry, Moving, Built
  <2> QED
    BY <1>1, <1>2, <1>3, <2>3, <2>4, <2>6, <2>9, EntryGoes DEF Moving
<1>8. CASE Request(t).entry # "universal"
  <2>1. PICK made : made = Made(Request(t).entry)
    OBVIOUS
  <2>2. PICK new : new = [reg[t] EXCEPT !.content = made]
    OBVIOUS
  <2>3. IsReg(new) /\ new.content = made /\ new.part = "entry" /\ new.open # "temporary"
    BY <1>3, <2>2, ContentIs
  <2>4. Go(t, "resources", new)
    BY <1>8, <2>1, <2>2 DEF Archive
  <2>5. pc'[t] = "resources" /\ reg'[t] = new
    BY <2>3, <2>4, GoIs DEF SInv, Pcs, Making
  <2>6. Routed(t)'
    BY <1>4, <1>6, <1>8, <2>3, <2>5 DEF Routed, Making, Caching, Moving
  <2>7. HoldsEntry(t)'
    <3>1. \E v \in 1 .. tree' : reg'[t].content = [path \in Paths(Request(t).entry) |-> <<path[1], v>>]
      BY <1>5, <2>1, <2>3, <2>5 DEF Made
    <3> QED
      BY <1>6, <2>5, <3>1 DEF HoldsEntry, Moving
  <2> QED
    BY <1>1, <1>2, <1>3, <2>3, <2>4, <2>6, <2>7, EntryGoes DEF Making
<1> QED
  BY <1>7, <1>8

LEMMA CopyResourcesStep == ASSUME SInv, NEW t \in Threads, CopyResources(t) PROVE SInv'
<1>1. /\ pc[t] = "resources" /\ Mild
      /\ UNCHANGED <<cache, requests, added, tree, overlapped, files>>
  BY DEF CopyResources, Mild, author, cache
<1>2. Onward /\ Stored' /\ IsFunction(files')
  BY <1>1, MildIs DEF SInv, StoreTypeOK
<1>3. Busy(t) /\ Routed(t) /\ IsReg(reg[t]) /\ reg[t].part = "entry" /\ reg[t].open # "temporary"
      /\ HoldsEntry(t)
  BY <1>1, BusyIs DEF Ends, Making, Routed
<1>4. Request(t).entry \in Built
  BY <1>1, <1>3 DEF Routed
<1>5. PICK v \in 1 .. tree : reg[t].content = [path \in Paths(Request(t).entry) |-> <<path[1], v>>]
  BY <1>1, <1>3 DEF HoldsEntry
<1>6. PICK made, resources : made = reg[t].content /\ resources = Request(t).resources
  OBVIOUS
<1>7. CASE Copyable(reg[t].content, Request(t).resources)
  <2>1. PICK directory : directory = _copy_resources(made, resources)
    OBVIOUS
  <2>2. PICK archive : archive = Packed(t, directory)
    OBVIOUS
  <2>3. PICK new : new = [reg[t] EXCEPT !.content = archive]
    OBVIOUS
  <2>4. IsReg(new) /\ new.content = archive /\ new.part = "entry" /\ new.open # "temporary"
    BY <1>3, <2>3, ContentIs
  <2>5. Go(t, "hash", new) /\ UNCHANGED <<calls, batch, built>>
    BY <1>6, <1>7, <2>1, <2>2, <2>3 DEF CopyResources, calls
  <2>6. pc'[t] = "hash" /\ reg'[t] = new /\ Request(t)' = Request(t)
    BY <1>1, <2>4, <2>5, GoIs DEF SInv, Pcs, Moving, Request
  <2>7. Routed(t)'
    BY <1>4, <2>4, <2>6 DEF Routed, Making, Caching, Moving
  <2>8. \A path \in Paths(Request(t).entry) :
          path \in DOMAIN directory /\ directory[path] = <<path[1], v>>
    BY <1>5, <1>6, <2>1 DEF _copy_resources
  <2>9. ASSUME NEW f \in resources
        PROVE  f.path \in DOMAIN directory /\ directory[f.path][1] = f.file
               /\ directory[f.path][2] \in v .. tree
    <3>1. tree \in v .. tree
      BY DEF SInv, StoreTypeOK
    <3>2. f.path \in DOMAIN directory
      BY <2>1 DEF _copy_resources
    <3>3. CASE f.path \in DOMAIN made
      <4>1. directory[f.path] = made[f.path]
        BY <2>1, <3>3 DEF _copy_resources
      <4>2. made[f.path] = <<f.file, tree>>
        BY <1>6, <1>7, <3>3 DEF Copyable
      <4> QED
        BY <3>1, <3>2, <4>1, <4>2
    <3>4. CASE f.path \notin DOMAIN made
      <4>1. PICK g : g = CHOOSE r \in resources : r.path = f.path
        OBVIOUS
      <4>2. g \in resources /\ g.path = f.path
        BY <4>1
      <4>3. g.file = f.file
        BY <1>6, <1>7, <4>2 DEF Copyable
      <4>4. directory[f.path] = <<g.file, tree>>
        BY <2>1, <3>2, <3>4, <4>1 DEF _copy_resources
      <4> QED
        BY <3>1, <3>2, <4>3, <4>4
    <3> QED
      BY <3>3, <3>4
  <2>10. Whole(archive[3], Request(t))
    BY <1>4, <1>6, <2>2, <2>8, <2>9, PackedIs DEF SInv
  <2>11. HoldsEntry(t)'
    <3>1. Whole(archive[3], Request(t))'
      BY <1>1, <2>6, <2>10 DEF Whole
    <3>2. Whole(reg[t].content[3], Request(t))'
      BY <2>4, <2>6, <3>1 DEF Whole
    <3> QED
      BY <1>4, <2>6, <3>2 DEF HoldsEntry, Moving, Built
  <2> QED
    BY <1>1, <1>2, <1>3, <2>4, <2>5, <2>7, <2>11, EntryGoes DEF Moving
<1>8. CASE ~Copyable(reg[t].content, Request(t).resources)
  BY <1>1, <1>8, RaiseBy DEF CopyResources
<1> QED
  BY <1>7, <1>8

-----------------------------------------------------------------------------
(* Staging a file. *)

\* What a thread reads for the first part of a request, and where that goes ...
LEMMA LocalEntryIs ==
  ASSUME SInv, NEW t \in Threads, pc[t] \in Moving, reg[t].part = "entry"
  PROVE  LET entry == Request(t).entry
         IN  /\ entry \in Built => Local(t) = reg[t].content /\ Directory(t) = "archives"
             /\ entry \in {"tree", "frozen"} => Local(t) = SourceId(t) /\ Directory(t) = "archives"
             /\ entry = "input" => Directory(t) = "inputs"
             /\ pc[t] = "hash" => entry \in Built \cup {"tree", "frozen"}
             /\ entry \in Built \cup {"tree", "frozen", "input"}
             /\ pc[t] \in {"upload", "move"} => Local(t) = reg[t].name
<1> DEFINE entry == Request(t).entry
<1>1. Routed(t) /\ HoldsEntry(t)
  BY BusyIs DEF Moving, Ends
<1>2. /\ pc[t] = "hash" => entry \in Built \cup {"tree", "frozen"}
      /\ entry \in Built \cup {"tree", "frozen", "input"}
  BY <1>1 DEF Routed
<1>3. entry \in Built => Local(t) = reg[t].content /\ Directory(t) = "archives"
  BY DEF Local, Directory, Built, Direct
<1>4. entry \in {"tree", "frozen"} => Local(t) = SourceId(t) /\ Directory(t) = "archives"
  <2>1. entry \in {"tree", "frozen"} => Local(t) = At(Retained(t)) /\ Directory(t) = "archives"
    BY DEF Local, Directory, Built, Direct
  <2>2. entry \in {"tree", "frozen"} => Good(Retained(t))
    BY <1>1 DEF HoldsEntry
  <2> QED
    BY <2>1, <2>2 DEF Good, At, Retained
<1>5. entry = "input" => Directory(t) = "inputs"
  BY DEF Directory
<1>6. entry = "input" /\ pc[t] \in {"upload", "move"} => Local(t) = Artifact
  <2>1. entry = "input" => Local(t) = At(<<"artifacts", Artifact>>)
    BY DEF Local, Direct, Built
  <2>2. entry = "input" /\ pc[t] \in {"upload", "move"} => Good(<<"artifacts", Artifact>>)
    BY <1>1 DEF HoldsEntry
  <2> QED
    BY <2>1, <2>2 DEF Good, At
<1>7. pc[t] \in {"upload", "move"} =>
        /\ entry \in Built => reg[t].name = reg[t].content
        /\ entry \in {"tree", "frozen"} => reg[t].name = SourceId(t)
        /\ entry = "input" => reg[t].name = Artifact
  BY <1>1 DEF HoldsEntry, Built
<1>8. pc[t] \in {"upload", "move"} => Local(t) = reg[t].name
  BY <1>2, <1>3, <1>4, <1>6, <1>7
<1> QED
  BY <1>2, <1>3, <1>4, <1>5, <1>8

\* ... and that the part is done when it is there.
LEMMA EntryIsDone ==
  ASSUME SInv, Onward, NEW t \in Threads, pc[t] \in Moving, reg[t].part = "entry",
         NEW i, i = batch[t][Len(built[t]) + 1], NEW n, n = Local(t), NEW dir, dir = Directory(t),
         Good(<<dir, n>>)', pc[t] = "hash" \/ n = reg[t].name
  PROVE  EntryDone(i, n)'
<1> DEFINE entry == Request(t).entry
<1>1. /\ entry \in Built => n = reg[t].content /\ dir = "archives"
      /\ entry \in {"tree", "frozen"} => n = SourceId(t) /\ dir = "archives"
      /\ entry = "input" => dir = "inputs"
      /\ entry \in Built \cup {"tree", "frozen", "input"}
  BY LocalEntryIs
<1>2. HoldsEntry(t) /\ Busy(t)
  BY BusyIs DEF Moving, Ends
<1>3. Request(t) = requests[i] /\ requests' = requests
  BY <1>2, RequestIs DEF Onward
<1>4. entry \in Built => Whole(n[3], requests[i])'
  <2>1. entry \in Built => Whole(n[3], requests[i])
    BY <1>1, <1>2, <1>3 DEF HoldsEntry
  <2>2. PICK archive : archive = n[3]
    OBVIOUS
  <2>3. Whole(archive, requests[i]) => Whole(archive, requests[i])'
    BY WholeStays DEF SInv
  <2> QED
    BY <2>1, <2>2, <2>3
<1>5. entry = "frozen" => n = Tree(1)
  BY <1>1 DEF SourceId
<1>6. entry = "tree" => n \in Trees'
  <2>1. entry = "tree" => n \in Trees
    BY <1>1, <1>2 DEF HoldsEntry, SourceId
  <2>2. Trees \subseteq Trees'
    BY DEF Trees, Tree, SInv, StoreTypeOK, Onward
  <2> QED
    BY <2>1, <2>2
<1>7. entry \in {"tree", "frozen"} => Good(<<"sources", n>>)'
  <2>1. entry \in {"tree", "frozen"} => Good(<<"sources", n>>)
    BY <1>1, <1>2 DEF HoldsEntry, Retained
  <2>2. Lasting(<<"sources", n>>)'
    BY DEF Lasting
  <2> QED
    BY <2>1, <2>2 DEF Onward
<1>8. /\ entry \in Built \cup {"tree", "frozen"} => entry \notin {"input", "capture", "fetch", "fetchdir"}
      /\ entry = "input" => entry \notin Built
      /\ HasSource(i)' <=> entry \in {"tree", "frozen", "capture"}
  BY <1>3 DEF Built, HasSource
<1>9. requests'[i].entry = entry
  BY <1>3
<1> QED
  BY <1>1, <1>3, <1>4, <1>5, <1>6, <1>7, <1>8, <1>9 DEF EntryDone

\* The same for an image.
LEMMA LocalImageIs ==
  ASSUME SInv, NEW t \in Threads, pc[t] \in Moving, reg[t].part = "image"
  PROVE  /\ Directory(t) = "containers" /\ HoldsImage(t)
         /\ Request(t).image \in {"sif", "daemon", "built"}
         /\ ~Cached(t) => Local(t) = Sif
         /\ Cached(t) /\ Local(t) # Nothing => Local(t) # Sif
         /\ Cached(t) /\ ~overlapped =>
              /\ link \in DOMAIN blobs /\ Local(t) = blobs[link] /\ link = reg[t].digest
              /\ reg[t].digest \in Nat /\ Local(t) \in Images(reg[t].digest)
<1>1. Routed(t) /\ HoldsImage(t)
  BY BusyIs DEF Moving, Ends
<1>2. Request(t).image \in {"sif", "daemon", "built"}
  BY <1>1 DEF Routed
<1>3. Directory(t) = "containers"
  BY DEF Directory
<1>4. ~Cached(t) => Local(t) = Sif
  BY <1>2 DEF Cached, Local, Sif
<1>5. Cached(t) => Local(t) = IF link \in DOMAIN blobs THEN blobs[link] ELSE Nothing
  BY DEF Cached, Local
<1>6. Cached(t) /\ Local(t) # Nothing => Local(t) # Sif
  BY <1>5 DEF SInv, CacheInv
<1>7. Cached(t) /\ ~overlapped => link \in DOMAIN blobs /\ link = reg[t].digest
  BY <1>1 DEF HoldsImage
<1>8. ~overlapped => \A d \in DOMAIN blobs : d \in Nat \ {0} /\ blobs[d] \in Images(d)
  BY DEF SInv, CacheInv
<1>9. ASSUME Cached(t), ~overlapped
      PROVE  reg[t].digest \in Nat /\ blobs[link] \in Images(reg[t].digest)
  BY <1>7, <1>8, <1>9
<1> QED
  BY <1>1, <1>2, <1>3, <1>4, <1>5, <1>6, <1>7, <1>9

LEMMA ImageIsDone ==
  ASSUME SInv, Onward, overlapped' = overlapped, NEW t \in Threads, pc[t] \in Moving,
         reg[t].part = "image", NEW i, i = batch[t][Len(built[t]) + 1], NEW n,
         ~(Cached(t) /\ overlapped) => n = Local(t) /\ Good(<<"containers", n>>)',
         NEW entry, entry = reg[t].entry, NEW digest, digest = reg[t].digest
  PROVE  EntryDone(i, entry)' /\ ImageDone(i, n, digest)'
<1>1. /\ HoldsImage(t) /\ Request(t).image \in {"sif", "daemon", "built"}
      /\ ~Cached(t) => Local(t) = Sif
      /\ Cached(t) /\ ~overlapped => digest \in Nat /\ Local(t) \in Images(digest)
  BY LocalImageIs
<1>2. Busy(t) /\ Request(t) = requests[i] /\ requests' = requests
  BY BusyIs, RequestIs DEF Moving, Ends, Onward
<1>3. EntryDone(i, entry)'
  <2>1. EntryDone(i, entry)
    BY <1>1 DEF HoldsImage
  <2> QED
    BY <2>1, EntryStays DEF SInv
<1>4. Cached(t) <=> requests[i].image \in {"daemon", "built"}
  BY <1>2 DEF Cached
<1>5. requests[i].image = "sif" => n = Sif /\ Good(<<"containers", n>>)'
  BY <1>1, <1>4
<1>6. requests[i].image \in {"daemon", "built"} /\ ~overlapped =>
        digest \in Nat /\ n \in Images(digest)' /\ Good(<<"containers", n>>)'
  <2>1. digest \in Nat => Images(digest) \subseteq Images(digest)'
    BY ImagesStay DEF SInv
  <2> QED
    BY <1>1, <1>4, <2>1
<1> QED
  BY <1>2, <1>3, <1>5, <1>6 DEF ImageDone, Sif

LEMMA ImageGoes ==
  ASSUME SInv, Onward, NEW t \in Threads, Busy(t), pc[t] # "query", reg[t].part = "image",
         NEW step \in Caching \cup Moving, NEW new, IsReg(new), new.part = "image", Go(t, step, new),
         UNCHANGED <<calls, added, cache>>, IsFunction(files'), Stored', Routed(t)', HoldsImage(t)',
         step = "move" => new.copy = new.name \/ (Cached(t)' /\ overlapped'),
         new.open = "temporary" => step = "copied"
  PROVE  SInv'
<1>1. step \in Pcs \ Ends
  BY DEF Pcs, Caching, Moving, Ends
<1>2. reg'[t] = new /\ \A u \in Threads \ {t} : pc'[u] = pc[u] /\ reg'[u] = reg[u]
  BY <1>1, GoIs DEF SInv
<1>3. UNCHANGED <<blobs, temporary, link, overlapped>> /\ UNCHANGED <<batch, futures, built>>
  BY DEF cache, calls
<1>4. CacheInv'
  <2>1. InCache(t)' => InCache(t)
    <3>1. Request(t)' = Request(t)
      BY <1>3 DEF Request, Onward
    <3> QED
      BY <1>2, <3>1 DEF InCache, Busy, Ends
  <2>2. \A u \in Threads \ {t} : Same(u)
    BY <1>2, <1>3 DEF Same
  <2> QED
    BY <2>1, <2>2, CacheStays
<1>5. Data'
  BY <1>3 DEF SInv, StoreTypeOK, Data
<1> QED
  BY <1>1, <1>2, <1>3, <1>4, <1>5, GoBy

\* A file found in a store has the content it names, but for a cached image.
LEMMA FoundIs ==
  ASSUME SInv, NEW dir, NEW n, <<dir, n>> \in DOMAIN files, dir \in {"archives", "inputs", "containers"},
         dir = "containers" /\ n # Sif => ~overlapped
  PROVE  Good(<<dir, n>>)
<1>1. PICK f : f = <<dir, n>> /\ f[1] = dir /\ f[2] = n
  OBVIOUS
<1>2. f \notin DOMAIN Earlier
  BY <1>1 DEF Earlier
<1>3. f # Destination
  BY <1>1 DEF Destination
<1>4. files[f] = f[2]
  BY <1>1, <1>2, <1>3 DEF SInv, Stored
<1> QED
  BY <1>1, <1>4 DEF Good

LEMMA HashStep == ASSUME SInv, NEW t \in Threads, Hash(t) PROVE SInv'
<1>1. /\ pc[t] = "hash" /\ Mild /\ UNCHANGED <<author, tag, cache, sources>>
      /\ UNCHANGED <<requests, added, tree, overlapped, files, tag, blobs, link>>
  BY DEF Hash, Mild, author, cache
<1>2. Onward /\ Stored' /\ IsFunction(files')
  BY <1>1, MildIs DEF SInv, StoreTypeOK
<1>3. Busy(t) /\ Routed(t) /\ IsReg(reg[t]) /\ reg[t].part \in {"entry", "image"} /\ reg[t].open # "temporary"
  BY <1>1, BusyIs DEF Ends
<1>4. PICK n, dir, new, i : /\ n = Local(t) /\ dir = Directory(t) /\ new = [reg[t] EXCEPT !.name = Local(t)]
                            /\ i = batch[t][Len(built[t]) + 1]
  OBVIOUS
<1>5. /\ IsReg(new) /\ new.name = n /\ new.part = reg[t].part /\ new.content = reg[t].content
      /\ new.copy = reg[t].copy /\ new.digest = reg[t].digest /\ new.open = reg[t].open
      /\ new.entry = reg[t].entry
  BY <1>3, <1>4, NameIs
<1>6. CASE n = Nothing
  BY <1>1, <1>4, <1>6, RaiseBy DEF Hash
<1>7. CASE n # Nothing /\ <<dir, n>> \in DOMAIN files
  <2>1. PartDone(t, new) /\ UNCHANGED <<author, tag, cache, sources, called>>
    BY <1>1, <1>4, <1>7 DEF Hash
  <2>2. CASE reg[t].part = "entry"
    <3>1. dir \in {"archives", "inputs"}
      BY <1>1, <1>4, <2>2, LocalEntryIs DEF Moving
    <3>2. Good(<<dir, n>>)
      BY <1>7, <3>1, FoundIs
    <3>3. Good(<<dir, n>>)'
      BY <1>1, <3>2 DEF Good
    <3>4. EntryDone(i, n)'
      BY <1>1, <1>2, <1>4, <2>2, <3>3, EntryIsDone DEF Moving
    <3>5. EntryDone(i, new.name)'
      BY <1>5, <3>4
    <3>7. new.part = "entry" /\ i = batch[t][Len(built[t]) + 1] /\ Busy(t)
      BY <1>3, <1>4, <1>5, <2>2
    <3> QED
      BY <1>2, <2>1, <3>5, <3>7, PartDoneBy
  <2>3. CASE reg[t].part = "image"
    <3>1. dir = "containers" /\ (~Cached(t) => n = Sif)
      BY <1>1, <1>4, <2>3, LocalImageIs DEF Moving
    <3>2. ~(Cached(t) /\ overlapped) => Good(<<"containers", n>>)
      BY <1>7, <3>1, FoundIs
    <3>3. ~(Cached(t) /\ overlapped) => Good(<<"containers", n>>)'
      BY <1>1, <3>2 DEF Good
    <3>4. PICK entry, digest : entry = reg[t].entry /\ digest = reg[t].digest
      OBVIOUS
    <3>5. EntryDone(i, entry)' /\ ImageDone(i, n, digest)'
      BY <1>1, <1>2, <1>4, <2>3, <3>3, <3>4, ImageIsDone DEF Moving
    <3>6. EntryDone(i, new.entry)' /\ ImageDone(i, new.name, new.digest)'
      BY <1>5, <3>4, <3>5
    <3>7. new.part = "image" /\ i = batch[t][Len(built[t]) + 1] /\ Busy(t)
      BY <1>3, <1>4, <1>5, <2>3
    <3> QED
      BY <1>2, <2>1, <3>6, <3>7, PartDoneBy
  <2> QED
    BY <1>3, <2>2, <2>3
<1>8. CASE n # Nothing /\ <<dir, n>> \notin DOMAIN files
  <2>1. Go(t, "upload", new) /\ UNCHANGED calls
    BY <1>4, <1>8 DEF Hash
  <2>2. pc'[t] = "upload" /\ reg'[t] = new
    BY <1>3, <1>5, <2>1, GoIs DEF SInv, Pcs, Moving
  <2>3. UNCHANGED <<batch, built>> /\ Request(t)' = Request(t)
    BY <1>1, <2>1 DEF calls, Request
  <2>4. Routed(t)'
    BY <1>1, <1>3, <1>5, <2>2, <2>3 DEF Routed, Making, Caching, Moving
  <2>5. CASE reg[t].part = "entry"
    <3>1. HoldsEntry(t) /\ Request(t).entry \in Built \cup {"tree", "frozen"}
      BY <1>1, <1>3, <2>5, BusyIs DEF Busy, Routed, Moving
    <3>2. /\ Request(t).entry \in Built => n = reg[t].content
          /\ Request(t).entry \in {"tree", "frozen"} => n = SourceId(t)
      BY <1>1, <1>4, <2>5, LocalEntryIs DEF Moving
    <3>3. SourceId(t)' = SourceId(t) /\ Retained(t)' = Retained(t)
      BY <1>5, <2>2, <2>3 DEF SourceId, Retained, Tree
    <3>4. Good(Retained(t)) => Good(Retained(t))'
      BY <1>1, <3>3 DEF Good
    <3>5. Whole(reg[t].content[3], Request(t)) => Whole(reg[t].content[3], Request(t))'
      BY <1>1, <1>5, <2>2, <2>3 DEF Whole
    <3>6. Trees' = Trees
      BY <1>1 DEF Trees, Tree
    <3>7. HoldsEntry(t)'
      <4>1. Request(t).entry \in Built =>
              Whole(reg[t].content[3], Request(t))' /\ Request(t).entry \notin {"tree", "frozen", "input"}
        BY <1>1, <3>1, <3>5 DEF HoldsEntry, Moving, Built
      <4>2. Request(t).entry \in {"tree", "frozen"} =>
              Good(Retained(t))' /\ (Request(t).entry = "tree" => reg[t].content \in Trees)
              /\ Request(t).entry # "input"
        BY <1>1, <3>1, <3>4 DEF HoldsEntry, Moving
      <4> QED
        BY <1>5, <2>2, <2>3, <3>1, <3>2, <3>3, <3>6, <4>1, <4>2 DEF HoldsEntry, Moving
    <3> QED
      BY <1>2, <1>3, <1>1, <1>5, <2>1, <2>2, <2>4, <2>5, <3>7, EntryGoes DEF Moving
  <2>6. CASE reg[t].part = "image"
    <3>1. /\ HoldsImage(t) /\ (~Cached(t) => n = Sif) /\ (Cached(t) => n # Sif)
          /\ Cached(t) /\ ~overlapped => n = blobs[link]
      BY <1>1, <1>4, <1>8, <2>6, LocalImageIs DEF Moving
    <3>2. Cached(t)' <=> Cached(t)
      BY <1>5, <2>2, <2>3 DEF Cached
    <3>3. EntryDone(batch[t][Len(built[t]) + 1], reg[t].entry)'
      <4>1. PICK entry : entry = reg[t].entry
        OBVIOUS
      <4>2. EntryDone(i, entry)'
        <5>1. EntryDone(i, entry)
          BY <1>4, <3>1, <4>1 DEF HoldsImage
        <5> QED
          BY <1>2, <5>1, EntryStays DEF SInv
      <4> QED
        BY <1>4, <1>5, <2>2, <2>3, <4>1, <4>2
    <3>4. HoldsImage(t)'
      BY <1>1, <1>5, <2>2, <3>1, <3>2, <3>3 DEF HoldsImage, Caching, Moving, Sif
    <3> QED
      BY <1>2, <1>3, <1>1, <1>5, <2>1, <2>2, <2>4, <2>6, <3>4, ImageGoes DEF Moving
  <2> QED
    BY <1>3, <2>5, <2>6
<1> QED
  BY <1>6, <1>7, <1>8

LEMMA UploadStep == ASSUME SInv, NEW t \in Threads, Upload(t) PROVE SInv'
<1>1. /\ pc[t] = "upload" /\ Mild /\ UNCHANGED <<cache, requests, added, tree, overlapped, files, tag, blobs, link>>
  BY DEF Upload, Mild, author, cache
<1>2. Onward /\ Stored' /\ IsFunction(files')
  BY <1>1, MildIs DEF SInv, StoreTypeOK
<1>3. Busy(t) /\ Routed(t) /\ IsReg(reg[t]) /\ reg[t].part \in {"entry", "image"} /\ reg[t].open # "temporary"
  BY <1>1, BusyIs DEF Ends
<1>4. CASE Local(t) = Nothing
  BY <1>1, <1>4, RaiseBy DEF Upload
<1>5. CASE Local(t) # Nothing
  <2>1. PICK n, new : n = Local(t) /\ new = [reg[t] EXCEPT !.copy = Local(t)]
    OBVIOUS
  <2>2. /\ IsReg(new) /\ new.copy = n /\ new.part = reg[t].part /\ new.content = reg[t].content
        /\ new.name = reg[t].name /\ new.digest = reg[t].digest /\ new.open = reg[t].open
        /\ new.entry = reg[t].entry
    BY <1>3, <2>1, CopyIs
  <2>3. Go(t, "move", new) /\ UNCHANGED calls
    BY <1>5, <2>1 DEF Upload
  <2>4. pc'[t] = "move" /\ reg'[t] = new
    BY <1>3, <2>2, <2>3, GoIs DEF SInv, Pcs, Moving
  <2>5. UNCHANGED <<batch, built>> /\ Request(t)' = Request(t)
    BY <1>1, <2>3 DEF calls, Request
  <2>6. Routed(t)'
    BY <1>1, <1>3, <2>2, <2>4, <2>5 DEF Routed, Making, Caching, Moving
  <2>7. CASE reg[t].part = "entry"
    <3>1. HoldsEntry(t) /\ n = reg[t].name
      BY <1>1, <2>1, <2>7, BusyIs, LocalEntryIs DEF Moving, Ends
    <3>2. SourceId(t)' = SourceId(t) /\ Retained(t)' = Retained(t)
      BY <2>2, <2>4, <2>5 DEF SourceId, Retained, Tree
    <3>3. /\ Good(Retained(t)) => Good(Retained(t))'
          /\ Good(<<"artifacts", Artifact>>) => Good(<<"artifacts", Artifact>>)'
      BY <1>1, <3>2 DEF Good, Artifact
    <3>4. Whole(reg[t].content[3], Request(t)) => Whole(reg[t].content[3], Request(t))'
      BY <1>1, <2>2, <2>4, <2>5 DEF Whole
    <3>5. Trees' = Trees
      BY <1>1 DEF Trees, Tree
    <3>6. HoldsEntry(t)'
      <4>1. Request(t).entry \in Built => Whole(reg[t].content[3], Request(t))'
        BY <1>1, <3>1, <3>4 DEF HoldsEntry, Moving
      <4>2. Request(t).entry \in {"tree", "frozen"} =>
              Good(Retained(t))' /\ (Request(t).entry = "tree" => reg[t].content \in Trees)
        BY <1>1, <3>1, <3>3 DEF HoldsEntry, Moving
      <4>3. Request(t).entry = "input" => Good(<<"artifacts", Artifact>>)'
        BY <1>1, <3>1, <3>3 DEF HoldsEntry
      <4>4. reg[t].name = CASE Request(t).entry \in Built -> reg[t].content
                            [] Request(t).entry \in {"tree", "frozen"} -> SourceId(t)
                            [] Request(t).entry = "input" -> Artifact
        BY <1>1, <3>1 DEF HoldsEntry
      <4> QED
        BY <2>2, <2>4, <2>5, <3>2, <3>5, <4>1, <4>2, <4>3, <4>4 DEF HoldsEntry, Moving
    <3>7. new.part = "entry" /\ new.copy = new.name /\ new.open # "temporary" /\ "move" \in Moving
      BY <1>3, <2>2, <2>7, <3>1 DEF Moving
    <3> QED
      BY <1>1, <1>2, <1>3, <2>2, <2>3, <2>6, <3>6, <3>7, EntryGoes
  <2>8. CASE reg[t].part = "image"
    <3>1. HoldsImage(t) /\ (~(Cached(t) /\ overlapped) => n = reg[t].name)
      <4>1. /\ HoldsImage(t) /\ (~Cached(t) => n = Sif) /\ (Cached(t) /\ ~overlapped => n = blobs[link])
        BY <1>1, <2>1, <2>8, LocalImageIs DEF Moving
      <4> QED
        BY <1>1, <4>1 DEF HoldsImage, Moving
    <3>2. Cached(t)' <=> Cached(t)
      BY <2>2, <2>4, <2>5 DEF Cached
    <3>3. EntryDone(batch[t][Len(built[t]) + 1], reg[t].entry)'
      <4>1. PICK entry, i : entry = reg[t].entry /\ i = batch[t][Len(built[t]) + 1]
        OBVIOUS
      <4>2. EntryDone(i, entry)'
        <5>1. EntryDone(i, entry)
          BY <3>1, <4>1 DEF HoldsImage
        <5> QED
          BY <1>2, <5>1, EntryStays DEF SInv
      <4> QED
        BY <2>2, <2>4, <2>5, <4>1, <4>2
    <3>4. HoldsImage(t)'
      BY <1>1, <2>2, <2>4, <3>1, <3>2, <3>3 DEF HoldsImage, Caching, Moving, Sif
    <3>5. new.part = "image" /\ (new.copy = new.name \/ (Cached(t)' /\ overlapped'))
          /\ new.open # "temporary" /\ "move" \in Moving
      BY <1>1, <1>3, <2>2, <2>8, <3>1, <3>2 DEF Moving
    <3> QED
      BY <1>1, <1>2, <1>3, <2>2, <2>3, <2>6, <2>8, <3>4, <3>5, ImageGoes
  <2> QED
    BY <1>3, <2>7, <2>8
<1> QED
  BY <1>4, <1>5

LEMMA MoveStep == ASSUME SInv, NEW t \in Threads, Move(t) PROVE SInv'
<1>1. /\ pc[t] = "move" /\ UNCHANGED <<author, tag, cache, sources, called>>
      /\ files' = Put(files, <<Directory(t), reg[t].name>>, reg[t].copy) /\ PartDone(t, reg[t])
      /\ overlapped' = overlapped
  BY DEF Move, cache
<1>2. /\ Busy(t) /\ Routed(t) /\ reg[t].part \in {"entry", "image"}
      /\ reg[t].copy = reg[t].name \/ (Cached(t) /\ overlapped)
  BY <1>1, BusyIs DEF Ends
<1>3. PICK n, dir, copy, i, f : n = reg[t].name /\ dir = Directory(t) /\ copy = reg[t].copy
                                /\ i = batch[t][Len(built[t]) + 1] /\ f = <<dir, n>>
  OBVIOUS
<1>4. files' = Put(files, f, copy) /\ f[1] = dir /\ f[2] = n
  BY <1>1, <1>3
<1>5. copy = n \/ (dir = "containers" /\ n # Sif /\ overlapped)
  <2>1. CASE reg[t].part = "entry"
    BY <1>2, <1>3, <2>1 DEF Cached
  <2>2. CASE reg[t].part = "image"
    <3>1. dir = "containers" /\ HoldsImage(t)
      BY <1>1, <1>3, <2>2, LocalImageIs DEF Moving
    <3>2. Cached(t) => n # Sif
      BY <1>1, <1>3, <3>1 DEF HoldsImage
    <3> QED
      BY <1>2, <1>3, <3>1, <3>2
  <2> QED
    BY <1>2, <2>1, <2>2
<1>6. Onward /\ IsFunction(files') /\ Stored' /\ (copy = n => Good(f)')
  BY <1>1, <1>4, <1>5, PutBy
<1>7. CASE reg[t].part = "entry"
  <2>1. n = Local(t) /\ copy = n
    BY <1>1, <1>2, <1>3, <1>7, LocalEntryIs DEF Moving, Cached
  <2>2. EntryDone(i, n)'
    BY <1>1, <1>3, <1>6, <1>7, <2>1, EntryIsDone DEF Moving
  <2>3. PICK r : r = reg[t]
    OBVIOUS
  <2>4. EntryDone(i, r.name)' /\ r.part = "entry" /\ PartDone(t, r)
    BY <1>1, <1>3, <1>7, <2>2, <2>3
  <2>5. i = batch[t][Len(built[t]) + 1] /\ Busy(t)
    BY <1>2, <1>3
  <2> QED
    BY <1>1, <1>6, <2>4, <2>5, PartDoneBy
<1>8. CASE reg[t].part = "image"
  <2>1. ~(Cached(t) /\ overlapped) => n = Local(t) /\ copy = n
    <3>1. /\ HoldsImage(t) /\ (~Cached(t) => Local(t) = Sif)
          /\ Cached(t) /\ ~overlapped => Local(t) = blobs[link]
      BY <1>1, <1>8, LocalImageIs DEF Moving
    <3> QED
      BY <1>1, <1>2, <1>3, <3>1 DEF HoldsImage, Moving
  <2>2. dir = "containers"
    BY <1>1, <1>3, <1>8, LocalImageIs DEF Moving
  <2>3. ~(Cached(t) /\ overlapped) => n = Local(t) /\ Good(<<"containers", n>>)'
    BY <1>3, <1>6, <2>1, <2>2
  <2>4. PICK r, entry, digest : r = reg[t] /\ entry = r.entry /\ digest = r.digest
    OBVIOUS
  <2>5. EntryDone(i, entry)' /\ ImageDone(i, n, digest)'
    BY <1>1, <1>3, <1>6, <1>8, <2>3, <2>4, ImageIsDone DEF Moving
  <2>6. EntryDone(i, r.entry)' /\ ImageDone(i, r.name, r.digest)'
    BY <1>3, <2>4, <2>5
  <2>7. r.part = "image" /\ PartDone(t, r)
    BY <1>1, <1>8, <2>4
  <2> QED
    BY <1>1, <1>2, <1>3, <1>6, <2>6, <2>7, PartDoneBy
<1> QED
  BY <1>2, <1>7, <1>8

LEMMA NamedStep == ASSUME SInv, NEW t \in Threads, Named(t) PROVE SInv'
<1>1. /\ pc[t] = "named" /\ Mild /\ UNCHANGED <<author, tag, cache, sources, called>>
      /\ PartDone(t, [reg[t] EXCEPT !.name = <<"named">>])
  BY DEF Named, Mild
<1>2. Onward /\ Stored' /\ IsFunction(files')
  BY <1>1, MildIs DEF SInv, StoreTypeOK, Mild, cache
<1>3. Busy(t) /\ IsReg(reg[t]) /\ reg[t].part = "image" /\ Request(t).image = "named" /\ HoldsImage(t)
  BY <1>1, BusyIs DEF Ends, Routed
<1>4. PICK new, i : new = [reg[t] EXCEPT !.name = <<"named">>] /\ i = batch[t][Len(built[t]) + 1]
  OBVIOUS
<1>5. new.part = "image" /\ new.entry = reg[t].entry
  BY <1>3, <1>4, NameIs
<1>6. EntryDone(i, new.entry)'
  <2>1. EntryDone(i, new.entry)
    BY <1>3, <1>4, <1>5 DEF HoldsImage
  <2> QED
    BY <1>2, <2>1, EntryStays DEF SInv
<1>7. ImageDone(i, new.name, new.digest)'
  <2>1. requests'[i].image = "named"
    BY <1>2, <1>3, <1>4, RequestIs DEF Onward
  <2> QED
    BY <2>1 DEF ImageDone
<1>8. PartDone(t, new) /\ i = batch[t][Len(built[t]) + 1]
  BY <1>1, <1>4
<1>9. UNCHANGED <<author, tag, cache, sources, called>> /\ Busy(t)
  BY <1>1, <1>3
<1> QED
  BY <1>2, <1>5, <1>6, <1>7, <1>8, <1>9, PartDoneBy

-----------------------------------------------------------------------------
(* Retained artifacts. *)

LEMMA StageStep == ASSUME SInv, NEW t \in Threads, Stage(t) PROVE SInv'
<1>1. /\ pc[t] = "stage" /\ Mild /\ UNCHANGED <<author, tag, cache, sources>>
      /\ UNCHANGED <<requests, added, tree, overlapped, files>>
  BY DEF Stage, Mild, author, cache
<1>2. Onward /\ Stored' /\ IsFunction(files')
  BY <1>1, MildIs DEF SInv, StoreTypeOK
<1>3. Busy(t) /\ IsReg(reg[t]) /\ reg[t].part = "entry" /\ Request(t).entry = "input"
      /\ reg[t].open # "temporary"
  BY <1>1, BusyIs DEF Ends, Making, Routed
<1>4. PICK new, i : new = [reg[t] EXCEPT !.name = Artifact] /\ i = batch[t][Len(built[t]) + 1]
  OBVIOUS
<1>5. IsReg(new) /\ new.part = "entry" /\ new.name = Artifact /\ new.open # "temporary"
  BY <1>3, <1>4, NameIs
<1>6. CASE <<"inputs", Artifact>> \in DOMAIN files
  <2>1. PartDone(t, new) /\ UNCHANGED <<author, tag, cache, sources, called>>
    BY <1>1, <1>4, <1>6 DEF Stage
  <2>2. Good(<<"inputs", Artifact>>)'
    <3>1. Good(<<"inputs", Artifact>>)
      BY <1>6, FoundIs
    <3> QED
      BY <1>1, <3>1 DEF Good, Artifact
  <2>3. requests'[i].entry = "input"
    BY <1>1, <1>3, <1>4, RequestIs
  <2>4. EntryDone(i, new.name)'
    BY <1>5, <2>2, <2>3 DEF EntryDone, Built, HasSource, Artifact
  <2>5. i = batch[t][Len(built[t]) + 1] /\ Busy(t)
    BY <1>3, <1>4
  <2> QED
    BY <1>2, <1>5, <2>1, <2>4, <2>5, PartDoneBy
<1>7. CASE <<"inputs", Artifact>> \notin DOMAIN files /\ Local(t) = Artifact
  <2>1. Go(t, "upload", new) /\ UNCHANGED <<calls, added, cache>>
    BY <1>1, <1>4, <1>7 DEF Stage
  <2>2. pc'[t] = "upload" /\ reg'[t] = new
    BY <1>5, <2>1, GoIs DEF SInv, Pcs, Moving
  <2>3. Request(t)' = Request(t)
    BY <1>1, <2>1 DEF calls, Request
  <2>4. Routed(t)'
    BY <1>3, <1>5, <2>2, <2>3 DEF Routed, Making, Caching, Moving
  <2>5. Good(<<"artifacts", Artifact>>)'
    <3>1. At(<<"artifacts", Artifact>>) = Artifact
      BY <1>3, <1>7 DEF Local, Direct, Built
    <3> QED
      BY <1>1, <3>1 DEF At, Good, Artifact, Nothing
  <2>6. HoldsEntry(t)'
    BY <1>3, <1>5, <2>2, <2>3, <2>5 DEF HoldsEntry, Moving, Built, Artifact
  <2>7. "upload" \in Making \cup Moving
    BY DEF Moving
  <2> QED
    BY <1>2, <1>3, <1>5, <2>1, <2>4, <2>6, <2>7, EntryGoes
<1>8. CASE <<"inputs", Artifact>> \notin DOMAIN files /\ Local(t) # Artifact
  BY <1>1, <1>8, RaiseBy DEF Stage
<1> QED
  BY <1>6, <1>7, <1>8

LEMMA FetchStep == ASSUME SInv, NEW t \in Threads, Fetch(t) PROVE SInv'
<1>1. /\ pc[t] = "fetch" /\ Mild /\ UNCHANGED <<author, tag, cache, sources>>
      /\ UNCHANGED <<requests, added, tree, overlapped, files>>
  BY DEF Fetch, Mild, author, cache
<1>2. Onward /\ Stored' /\ IsFunction(files')
  BY <1>1, MildIs DEF SInv, StoreTypeOK
<1>3. Busy(t) /\ IsReg(reg[t]) /\ reg[t].part = "entry" /\ Request(t).entry \in {"fetch", "fetchdir"}
      /\ reg[t].open # "temporary"
  BY <1>1, BusyIs DEF Ends, Making, Routed
<1>4. CASE Destination \in DOMAIN files \/ Local(t) # Artifact
  BY <1>1, <1>4, RaiseBy DEF Fetch
<1>5. CASE ~(Destination \in DOMAIN files \/ Local(t) # Artifact)
  <2>1. PICK new : new = [reg[t] EXCEPT !.name = Artifact]
    OBVIOUS
  <2>2. IsReg(new) /\ new.part = "entry" /\ new.name = Artifact /\ new.open # "temporary"
    BY <1>3, <2>1, NameIs
  <2>3. Go(t, "expose", new) /\ UNCHANGED <<calls, added, cache>>
    BY <1>1, <1>5, <2>1 DEF Fetch
  <2>4. pc'[t] = "expose" /\ reg'[t] = new
    BY <2>2, <2>3, GoIs DEF SInv, Pcs, Making
  <2>5. Request(t)' = Request(t)
    BY <1>1, <2>3 DEF calls, Request
  <2>6. Routed(t)'
    BY <1>3, <2>2, <2>4, <2>5 DEF Routed, Making, Caching, Moving
  <2>7. HoldsEntry(t)'
    BY <2>2, <2>4 DEF HoldsEntry, Moving, Artifact
  <2> QED
    BY <1>2, <1>3, <2>2, <2>3, <2>6, <2>7, EntryGoes DEF Making
<1> QED
  BY <1>4, <1>5

\* The artifact is at its new place.
LEMMA FetchedBy ==
  ASSUME SInv, NEW t \in Threads, pc[t] \in {"expose", "copytree"},
         files' = Put(files, Destination, Artifact), PartDone(t, reg[t]),
         UNCHANGED <<author, tag, cache, sources, called>>
  PROVE  SInv'
<1>1. Busy(t) /\ reg[t].part = "entry" /\ Request(t).entry \in {"fetch", "fetchdir"} /\ HoldsEntry(t)
  BY BusyIs DEF Ends, Making, Routed
<1>2. PICK i, r, f : i = batch[t][Len(built[t]) + 1] /\ r = reg[t] /\ f = Destination
  OBVIOUS
<1>3. r.name = Artifact /\ r.part = "entry" /\ f[2] = Artifact
  BY <1>1, <1>2 DEF HoldsEntry, Destination
<1>4. Onward /\ IsFunction(files') /\ Stored' /\ Good(f)'
  BY <1>2, <1>3, PutBy
<1>5. requests'[i].entry \in {"fetch", "fetchdir"}
  BY <1>1, <1>2, <1>4, RequestIs DEF Onward
<1>6. EntryDone(i, r.name)'
  BY <1>2, <1>3, <1>4, <1>5 DEF EntryDone, Built, HasSource, Destination, Artifact
<1>7. PartDone(t, r)
  BY <1>2
<1> QED
  BY <1>1, <1>2, <1>3, <1>4, <1>6, <1>7, PartDoneBy

LEMMA CopyTreeStep == ASSUME SInv, NEW t \in Threads, CopyTree(t) PROVE SInv'
BY FetchedBy DEF CopyTree

LEMMA ExposeStep == ASSUME SInv, NEW t \in Threads, Expose(t) PROVE SInv'
<1>1. pc[t] = "expose" /\ UNCHANGED <<author, tag, cache, sources>> /\ UNCHANGED <<requests, added>>
  BY DEF Expose, author
<1>2. Busy(t) /\ IsReg(reg[t]) /\ reg[t].part = "entry" /\ Request(t).entry \in {"fetch", "fetchdir"}
      /\ reg[t].open # "temporary" /\ HoldsEntry(t)
  BY <1>1, BusyIs DEF Ends, Making, Routed
<1>3. CASE Destination \in DOMAIN files
  <2>1. Raise(t) /\ Mild
    BY <1>1, <1>3 DEF Expose, Mild
  <2> QED
    BY <1>1, <2>1, RaiseBy
<1>4. CASE Destination \notin DOMAIN files /\ Request(t).entry = "fetch"
  <2>1. files' = Put(files, Destination, Artifact) /\ PartDone(t, reg[t])
        /\ UNCHANGED <<author, tag, cache, sources, called>>
    BY <1>1, <1>4 DEF Expose
  <2> QED
    BY <1>1, <2>1, FetchedBy
<1>5. CASE Destination \notin DOMAIN files /\ Request(t).entry = "fetchdir"
  <2>1. files' = Put(files, Destination, Partial) /\ Go(t, "copytree", reg[t])
        /\ UNCHANGED <<calls, added, cache>>
    BY <1>1, <1>5 DEF Expose
  <2>2. \E i \in added : requests[i].entry = "fetchdir"
    BY <1>2, <1>5, RequestIs
  <2>3. PICK f, content : f = Destination /\ content = Partial
    OBVIOUS
  <2>4. Onward /\ IsFunction(files') /\ Stored'
    BY <1>1, <1>5, <2>1, <2>2, <2>3, PutBy
  <2>5. pc'[t] = "copytree" /\ reg'[t] = reg[t]
    BY <1>2, <2>1, GoIs DEF SInv, Pcs, Making
  <2>6. Request(t)' = Request(t)
    BY <1>1, <2>1 DEF calls, Request
  <2>7. Routed(t)'
    BY <1>2, <1>5, <2>5, <2>6 DEF Routed, Making, Caching, Moving
  <2>8. HoldsEntry(t)'
    BY <1>1, <1>2, <2>5 DEF HoldsEntry, Moving, Artifact
  <2> QED
    BY <1>2, <2>1, <2>4, <2>7, <2>8, EntryGoes DEF Making
<1> QED
  BY <1>2, <1>3, <1>4, <1>5

-----------------------------------------------------------------------------
(* The image cache. *)

\* A thread at a step in the cache.
LEMMA CachingIs ==
  ASSUME SInv, NEW t \in Threads, pc[t] \in Caching
  PROVE  /\ Busy(t) /\ InCache(t) /\ Cached(t) /\ IsReg(reg[t]) /\ reg[t].part = "image" /\ HoldsImage(t)
         /\ Request(t).image \in {"daemon", "built"} /\ pc[t] # "query"
         /\ pc[t] # "copied" => reg[t].open # "temporary"
         /\ ~overlapped => reg[t].digest \in 1 .. tag /\ reg[t].digest \in Nat \ {0}
<1>1. /\ Busy(t) /\ Routed(t) /\ IsReg(reg[t])
      /\ reg[t].part = "image" => HoldsImage(t)
      /\ pc[t] # "copied" => reg[t].open # "temporary"
  BY BusyIs DEF Caching, Ends
<1>2. Cached(t)
  BY <1>1 DEF Routed
<1>3. InCache(t) /\ pc[t] # "query"
  BY <1>2 DEF Cached, InCache, Caching
<1>4. ~overlapped => reg[t].digest \in 1 .. tag /\ reg[t].digest \in Nat \ {0}
  BY <1>1, <1>2 DEF HoldsImage, Cached, SInv, StoreTypeOK
<1> QED
  BY <1>1, <1>2, <1>3, <1>4 DEF Cached

\* What stays of what it holds: the first part, and the kind of the request.
LEMMA CachingStays ==
  ASSUME SInv, Onward, NEW t \in Threads, pc[t] \in Caching \cup {"query"}, UNCHANGED <<batch, built>>,
         reg'[t].part = reg[t].part, reg'[t].entry = reg[t].entry
  PROVE  /\ Request(t)' = Request(t) /\ Cached(t)'
         /\ EntryDone(batch[t][Len(built[t]) + 1], reg[t].entry)'
<1>1. Busy(t) /\ Cached(t) /\ HoldsImage(t)
  BY BusyIs DEF Routed, Caching, Ends, Cached
<1>2. Request(t)' = Request(t)
  BY DEF Request, Onward
<1>3. PICK i, entry : i = batch[t][Len(built[t]) + 1] /\ entry = reg[t].entry
  OBVIOUS
<1>4. EntryDone(i, entry)'
  <2>1. EntryDone(i, entry)
    BY <1>1, <1>3 DEF HoldsImage
  <2> QED
    BY <2>1, EntryStays DEF SInv
<1>5. EntryDone(batch[t][Len(built[t]) + 1], reg[t].entry)'
  BY <1>3, <1>4
<1> QED
  BY <1>1, <1>2, <1>5 DEF Cached

\* It is alone in the cache, or two have met.
LEMMA AloneStays ==
  ASSUME SInv, Onward, NEW t \in Threads, \A u \in Threads \ {t} : Same(u), UNCHANGED overlapped,
         InCache(t), ~overlapped
  PROVE  \A x, u \in Threads : InCache(x)' /\ InCache(u)' => x = u
<1>1. ASSUME NEW u \in Threads \ {t} PROVE ~InCache(u)'
  <2>1. Request(u)' = Request(u) /\ reg'[u].part = reg[u].part /\ pc'[u] = pc[u]
    BY SameRequest, SameReg DEF SInv, Same
  <2>2. ~InCache(u)
    BY DEF SInv, CacheInv
  <2> QED
    BY <2>1, <2>2 DEF InCache
<1> QED
  BY <1>1

LEMMA QueryStep == ASSUME SInv, NEW t \in Threads, Query(t) PROVE SInv'
<1>1. /\ pc[t] = "query" /\ Mild /\ Go(t, "look", [reg[t] EXCEPT !.digest = tag])
      /\ overlapped' = (overlapped \/ \E u \in Threads \ {t} : InCache(u))
      /\ UNCHANGED <<calls, added, tag, blobs, temporary, link, batch, built, futures>>
  BY DEF Query, Mild, author, calls
<1>2. Onward /\ Stored'
  BY <1>1, MildIs DEF SInv, StoreTypeOK
<1>3. Busy(t) /\ Routed(t) /\ IsReg(reg[t]) /\ reg[t].part = "image" /\ HoldsImage(t)
      /\ Cached(t) /\ reg[t].open # "temporary"
  BY <1>1, BusyIs DEF Ends, Routed, Cached
<1>4. PICK new : new = [reg[t] EXCEPT !.digest = tag]
  OBVIOUS
<1>5. IsReg(new) /\ new.part = "image" /\ new.digest = tag /\ new.open # "temporary"
      /\ new.entry = reg[t].entry
  BY <1>3, <1>4, DigestIs
<1>6. Go(t, "look", new) /\ "look" \in Pcs \ Ends
  BY <1>1, <1>4 DEF Pcs, Caching, Ends
<1>7. pc'[t] = "look" /\ reg'[t] = new /\ \A u \in Threads \ {t} : pc'[u] = pc[u] /\ reg'[u] = reg[u]
  BY <1>5, <1>6, GoIs DEF SInv
<1>8. Request(t)' = Request(t) /\ Cached(t)' /\ EntryDone(batch[t][Len(built[t]) + 1], reg[t].entry)'
  BY <1>1, <1>2, <1>3, <1>5, <1>7, CachingStays
<1>9. Routed(t)'
  BY <1>7, <1>8 DEF Routed, Making, Caching, Moving
<1>10. HoldsImage(t)'
  <2>1. tag \in 1 .. tag
    BY DEF SInv, StoreTypeOK
  <2> QED
    BY <1>1, <1>5, <1>7, <1>8, <2>1 DEF HoldsImage, Moving
<1>11. CacheInv'
  <2>1. \A u \in Threads \ {t} : Same(u)
    BY <1>1, <1>7 DEF Same
  <2>2. ASSUME ~overlapped' PROVE \A x, u \in Threads : InCache(x)' /\ InCache(u)' => x = u
    <3>1. ASSUME NEW u \in Threads \ {t} PROVE ~InCache(u)'
      <4>1. Request(u)' = Request(u) /\ reg'[u].part = reg[u].part /\ pc'[u] = pc[u]
        BY <1>2, <2>1, SameRequest, SameReg DEF SInv, Same
      <4>2. ~InCache(u)
        BY <1>1, <2>2
      <4> QED
        BY <4>1, <4>2 DEF InCache
    <3> QED
      BY <3>1
  <2>3. ~overlapped' => ~overlapped
    BY <1>1
  <2>4. \A d : Images(d)' = Images(d)
    BY <1>1 DEF Images, Image
  <2>5. CacheInv
    BY DEF SInv
  <2> QED
    BY <1>1, <2>2, <2>3, <2>4, <2>5 DEF CacheInv, Sif
<1>12. Data'
  BY <1>1 DEF SInv, StoreTypeOK, Data, Mild
<1> QED
  BY <1>1, <1>2, <1>3, <1>5, <1>6, <1>9, <1>10, <1>11, <1>12, GoBy

LEMMA LookStep == ASSUME SInv, NEW t \in Threads, Look(t) PROVE SInv'
<1>1. /\ pc[t] = "look" /\ Mild
      /\ UNCHANGED <<calls, added, cache, tag, blobs, temporary, link, batch, built, overlapped, files>>
  BY DEF Look, Mild, author, calls, cache
<1>2. Onward /\ Stored' /\ IsFunction(files')
  BY <1>1, MildIs DEF SInv, StoreTypeOK
<1>3. /\ Busy(t) /\ IsReg(reg[t]) /\ reg[t].part = "image" /\ HoldsImage(t) /\ pc[t] # "query"
      /\ reg[t].open # "temporary" /\ (~overlapped => reg[t].digest \in 1 .. tag /\ reg[t].digest \in Nat \ {0})
  BY <1>1, CachingIs DEF Caching
<1>4. PICK step : step = CASE Current(t) -> "got" [] ~Current(t) /\ reg[t].digest \in DOMAIN blobs -> "remove"
                           [] OTHER -> "bootstrap"
  OBVIOUS
<1>5. Go(t, step, reg[t])
  BY <1>4 DEF Look
<1>6. \/ step = "got" /\ link = reg[t].digest
      \/ step = "remove" /\ reg[t].digest \in DOMAIN blobs
      \/ step = "bootstrap"
  BY <1>4 DEF Current
<1>7. step \in Caching /\ step \in Pcs
  BY <1>6 DEF Caching, Pcs
<1>8. pc'[t] = step /\ reg'[t] = reg[t]
  BY <1>3, <1>5, <1>7, GoIs DEF SInv
<1>9. Request(t)' = Request(t) /\ Cached(t)' /\ EntryDone(batch[t][Len(built[t]) + 1], reg[t].entry)'
  BY <1>1, <1>2, <1>3, <1>8, CachingStays DEF Caching
<1>10. Routed(t)'
  BY <1>6, <1>8, <1>9 DEF Routed, Making, Caching, Moving
<1>11. ~overlapped /\ link # 0 => link \in DOMAIN blobs
  BY DEF SInv, CacheInv
<1>12. HoldsImage(t)'
  BY <1>1, <1>3, <1>6, <1>8, <1>9, <1>11 DEF HoldsImage, Moving, Caching
<1> QED
  BY <1>1, <1>2, <1>3, <1>5, <1>6, <1>7, <1>10, <1>12, ImageGoes

LEMMA BootstrapStep == ASSUME SInv, NEW t \in Threads, Bootstrap(t) PROVE SInv'
<1>1. /\ pc[t] = "bootstrap" /\ Mild /\ Go(t, "copy", [reg[t] EXCEPT !.content = Image(tag)])
      /\ UNCHANGED <<calls, added, cache, tag, blobs, temporary, link, batch, built, overlapped, files>>
  BY DEF Bootstrap, Mild, author, calls, cache
<1>2. Onward /\ Stored' /\ IsFunction(files')
  BY <1>1, MildIs DEF SInv, StoreTypeOK
<1>3. /\ Busy(t) /\ IsReg(reg[t]) /\ reg[t].part = "image" /\ HoldsImage(t) /\ pc[t] # "query"
      /\ reg[t].open # "temporary" /\ (~overlapped => reg[t].digest \in 1 .. tag /\ reg[t].digest \in Nat \ {0})
  BY <1>1, CachingIs DEF Caching
<1>4. PICK new : new = [reg[t] EXCEPT !.content = Image(tag)]
  OBVIOUS
<1>5. IsReg(new) /\ new.part = "image" /\ new.content = Image(tag) /\ new.open # "temporary"
      /\ new.digest = reg[t].digest /\ new.entry = reg[t].entry
  BY <1>3, <1>4, ContentIs
<1>6. Go(t, "copy", new) /\ "copy" \in Pcs /\ "copy" \in Caching
  BY <1>1, <1>4 DEF Pcs, Caching
<1>7. pc'[t] = "copy" /\ reg'[t] = new
  BY <1>5, <1>6, GoIs DEF SInv
<1>8. Request(t)' = Request(t) /\ Cached(t)' /\ EntryDone(batch[t][Len(built[t]) + 1], reg[t].entry)'
  BY <1>1, <1>2, <1>3, <1>5, <1>7, CachingStays DEF Caching
<1>9. Routed(t)'
  BY <1>7, <1>8 DEF Routed, Making, Caching, Moving
<1>10. Image(tag) # Sif
  BY DEF Image, Sif
<1>11. ~overlapped => Image(tag) \in Images(reg[t].digest)'
  BY <1>1, <1>3, <1>5, <1>7 DEF Images, Image, SInv, StoreTypeOK
<1>12. HoldsImage(t)'
  <2>1. Sif' = Sif
    BY DEF Sif
  <2> QED
    BY <1>1, <1>3, <1>5, <1>7, <1>8, <1>10, <1>11, <2>1 DEF HoldsImage, Moving, Caching
<1> QED
  BY <1>1, <1>2, <1>3, <1>5, <1>6, <1>9, <1>12, ImageGoes

\* A step in the cache that changes what is there.
LEMMA CacheChanges ==
  ASSUME SInv, Mild, UNCHANGED <<calls, overlapped>>, NEW t \in Threads, pc[t] \in Caching,
         NEW step \in Caching, NEW new, IsReg(new), new.part = "image", new.entry = reg[t].entry,
         Go(t, step, new), IsFunction(blobs'), IsFunction(temporary'),
         new.open = "temporary" => step = "copied",
         step \in {"copy", "copied"} => new.content # Sif,
         \A d \in DOMAIN blobs' : blobs'[d] # Sif, \A d \in DOMAIN temporary' : temporary'[d] # Sif,
         ~overlapped =>
           /\ new.digest \in 1 .. tag
           /\ step \in {"copy", "copied", "rename"} => new.content \in Images(new.digest)
           /\ step = "copied" => new.open = "temporary"
           /\ step = "rename" /\ new.digest \in DOMAIN temporary' => temporary'[new.digest] = new.content
           /\ step \in {"remove", "symlink"} => new.digest \in DOMAIN blobs'
           /\ step = "got" => link' = new.digest
           /\ \A d \in DOMAIN blobs' : d \in Nat \ {0} /\ blobs'[d] \in Images(d)
           /\ link' # 0 => link' \in DOMAIN blobs'
  PROVE  SInv'
<1>1. UNCHANGED <<requests, added, tree, files, tag, sources, queue, result, batch, futures, built>>
  BY DEF Mild, author, calls
<1>2. Onward /\ Stored'
  BY MildIs DEF SInv, StoreTypeOK
<1>3. /\ Busy(t) /\ InCache(t) /\ pc[t] # "query"
  BY CachingIs
<1>4. step \in Pcs \ Ends
  BY DEF Pcs, Caching, Ends
<1>5. pc'[t] = step /\ reg'[t] = new /\ \A u \in Threads \ {t} : pc'[u] = pc[u] /\ reg'[u] = reg[u]
  BY <1>4, GoIs DEF SInv
<1>6. /\ Request(t)' = Request(t) /\ Cached(t)' /\ EntryDone(batch[t][Len(built[t]) + 1], reg[t].entry)'
  <2>1. reg[t].part = "image"
    BY CachingIs
  <2> QED
    BY <1>1, <1>2, <1>5, <2>1, CachingStays DEF Caching
<1>7. Routed(t)'
  BY <1>5, <1>6 DEF Routed, Making, Caching, Moving
<1>8. \A d : Images(d)' = Images(d)
  BY <1>1 DEF Images, Image
<1>9. HoldsImage(t)'
  <2>1. new.digest # 0 \/ overlapped
    BY DEF SInv, StoreTypeOK
  <2>2. Images(reg[t].digest)' = Images(new.digest)
    BY <1>1, <1>5 DEF Images, Image
  <2>3. Sif' = Sif
    BY DEF Sif
  <2> QED
    BY <1>1, <1>5, <1>6, <2>1, <2>2, <2>3 DEF HoldsImage, Caching, Moving
<1>10. CacheInv'
  <2>1. \A u \in Threads \ {t} : Same(u)
    BY <1>1, <1>2, <1>3, <1>5, OthersSame DEF Same
  <2>2. ~overlapped => \A x, u \in Threads : InCache(x)' /\ InCache(u)' => x = u
    BY <1>2, <1>3, <2>1, AloneStays
  <2> QED
    BY <1>8, <2>2 DEF CacheInv, Sif
<1>11. Data'
  BY <1>1 DEF SInv, StoreTypeOK, Data
<1>12. step # "move"
  BY DEF Caching
<1> QED
  BY <1>1, <1>2, <1>3, <1>4, <1>7, <1>9, <1>10, <1>11, <1>12, GoBy

LEMMA CacheIs ==
  ASSUME SInv
  PROVE  /\ IsFunction(blobs) /\ IsFunction(temporary)
         /\ \A d \in DOMAIN blobs : blobs[d] # Sif
         /\ \A d \in DOMAIN temporary : temporary[d] # Sif
         /\ ~overlapped =>
              /\ \A d \in DOMAIN blobs : d \in Nat \ {0} /\ blobs[d] \in Images(d)
              /\ link # 0 => link \in DOMAIN blobs
BY DEF SInv, StoreTypeOK, CacheInv

LEMMA CopyStep == ASSUME SInv, NEW t \in Threads, Copy(t) PROVE SInv'
<1>1. /\ pc[t] = "copy" /\ pc[t] \in Caching /\ Mild
      /\ temporary' = Put(temporary, reg[t].digest, Partial)
      /\ Go(t, "copied", [reg[t] EXCEPT !.open = "temporary"])
      /\ UNCHANGED <<calls, overlapped>> /\ UNCHANGED <<blobs, link>>
  BY DEF Copy, Mild, Caching
<1>2. /\ IsReg(reg[t]) /\ reg[t].part = "image" /\ HoldsImage(t) /\ Cached(t)
      /\ ~overlapped => reg[t].digest \in 1 .. tag
  BY <1>1, CachingIs
<1>3. PICK new, d : new = [reg[t] EXCEPT !.open = "temporary"] /\ d = reg[t].digest
  OBVIOUS
<1>4. IsReg(new) /\ new.part = "image" /\ new.open = "temporary" /\ new.content = reg[t].content
      /\ new.digest = d /\ new.entry = reg[t].entry
  BY <1>2, <1>3, OpenIs
<1>5. new.content # Sif /\ (~overlapped => new.content \in Images(new.digest))
  BY <1>1, <1>2, <1>3, <1>4 DEF HoldsImage
<1>6. IsFunction(temporary') /\ \A e \in DOMAIN temporary' : temporary'[e] # Sif
  <2>1. Partial # Sif
    BY DEF Partial, Sif
  <2>2. temporary' = Put(temporary, d, Partial)
    BY <1>1, <1>3
  <2>3. \A e \in DOMAIN temporary : temporary[e] # Sif
    BY CacheIs
  <2> QED
    BY <2>1, <2>2, <2>3 DEF Put, IsFunction
<1>7. Go(t, "copied", new) /\ "copied" \in Caching
  BY <1>1, <1>3 DEF Caching
<1>8. IsFunction(blobs') /\ \A e \in DOMAIN blobs' : blobs'[e] # Sif
  BY <1>1, CacheIs
<1>9. ~overlapped =>
        /\ \A e \in DOMAIN blobs' : e \in Nat \ {0} /\ blobs'[e] \in Images(e)
        /\ link' # 0 => link' \in DOMAIN blobs'
  BY <1>1, CacheIs
<1> QED
  BY <1>1, <1>2, <1>3, <1>4, <1>5, <1>6, <1>7, <1>8, <1>9, CacheChanges

LEMMA CopiedStep == ASSUME SInv, NEW t \in Threads, Copied(t) PROVE SInv'
<1>1. /\ pc[t] = "copied" /\ pc[t] \in Caching /\ Mild
      /\ Go(t, "rename", [reg[t] EXCEPT !.open = "none"])
      /\ UNCHANGED <<calls, overlapped>> /\ UNCHANGED link
  BY DEF Copied, Mild, Caching
<1>2. /\ IsReg(reg[t]) /\ reg[t].part = "image" /\ HoldsImage(t) /\ Cached(t)
      /\ ~overlapped => reg[t].digest \in 1 .. tag
  BY <1>1, CachingIs
<1>3. PICK new, d, content : new = [reg[t] EXCEPT !.open = "none"] /\ d = reg[t].digest /\ content = reg[t].content
  OBVIOUS
<1>4. IsReg(new) /\ new.part = "image" /\ new.open = "none" /\ new.content = content
      /\ new.digest = d /\ new.entry = reg[t].entry
  BY <1>2, <1>3, OpenIs
<1>5. content # Sif /\ (~overlapped => content \in Images(d) /\ reg[t].open = "temporary")
  BY <1>1, <1>2, <1>3 DEF HoldsImage
<1>6. \/ temporary' = Put(temporary, d, content) /\ blobs' = blobs
      \/ overlapped /\ blobs' = Put(blobs, d, content) /\ temporary' = temporary
  BY <1>3, <1>5 DEF Copied
<1>7. /\ IsFunction(temporary') /\ \A e \in DOMAIN temporary' : temporary'[e] # Sif
      /\ IsFunction(blobs') /\ \A e \in DOMAIN blobs' : blobs'[e] # Sif
  <2>1. /\ IsFunction(blobs) /\ IsFunction(temporary)
        /\ \A e \in DOMAIN blobs : blobs[e] # Sif
        /\ \A e \in DOMAIN temporary : temporary[e] # Sif
    BY CacheIs
  <2> QED
    BY <1>5, <1>6, <2>1 DEF Put, IsFunction
<1>8. ~overlapped => temporary'[d] = content /\ blobs' = blobs
  BY <1>6 DEF Put
<1>9. Go(t, "rename", new) /\ "rename" \in Caching
  BY <1>1, <1>3 DEF Caching
<1>10. ~overlapped =>
        /\ \A e \in DOMAIN blobs' : e \in Nat \ {0} /\ blobs'[e] \in Images(e)
        /\ link' # 0 => link' \in DOMAIN blobs'
  BY <1>1, <1>8, CacheIs
<1> QED
  BY <1>1, <1>2, <1>3, <1>4, <1>5, <1>7, <1>8, <1>9, <1>10, CacheChanges

LEMMA RemoveStep == ASSUME SInv, NEW t \in Threads, Remove(t) PROVE SInv'
<1>1. /\ pc[t] = "remove" /\ pc[t] \in Caching /\ Mild /\ Go(t, "symlink", reg[t]) /\ link' = 0
      /\ UNCHANGED <<calls, overlapped>> /\ UNCHANGED <<blobs, temporary>> /\ "symlink" \in Caching
  BY DEF Remove, Mild, Caching
<1>2. /\ IsReg(reg[t]) /\ reg[t].part = "image" /\ HoldsImage(t) /\ reg[t].open # "temporary"
      /\ ~overlapped => reg[t].digest \in 1 .. tag
  BY <1>1, CachingIs
<1>3. ~overlapped => reg[t].digest \in DOMAIN blobs
  BY <1>1, <1>2 DEF HoldsImage
<1>4. /\ IsFunction(blobs') /\ IsFunction(temporary')
      /\ \A d \in DOMAIN blobs' : blobs'[d] # Sif
      /\ \A d \in DOMAIN temporary' : temporary'[d] # Sif
      /\ ~overlapped => \A d \in DOMAIN blobs' : d \in Nat \ {0} /\ blobs'[d] \in Images(d)
  BY <1>1, CacheIs
<1>5. PICK new : new = reg[t]
  OBVIOUS
<1> QED
  BY <1>1, <1>2, <1>3, <1>4, <1>5, CacheChanges

LEMMA SymlinkStep == ASSUME SInv, NEW t \in Threads, Symlink(t) PROVE SInv'
<1>1. /\ pc[t] = "symlink" /\ pc[t] \in Caching /\ Mild
      /\ UNCHANGED <<blobs, temporary, overlapped>> /\ "got" \in Caching
  BY DEF Symlink, Mild, Caching
<1>2. /\ IsReg(reg[t]) /\ reg[t].part = "image" /\ HoldsImage(t) /\ reg[t].open # "temporary"
      /\ ~overlapped => reg[t].digest \in 1 .. tag
  BY <1>1, CachingIs
<1>3. CASE link # 0
  <2>1. Raise(t) /\ UNCHANGED cache
    BY <1>1, <1>3 DEF Symlink, cache
  <2> QED
    BY <1>1, <2>1, RaiseBy
<1>4. CASE link = 0
  <2>1. link' = reg[t].digest /\ Go(t, "got", reg[t]) /\ UNCHANGED <<calls, overlapped>>
    BY <1>1, <1>4 DEF Symlink
  <2>2. ~overlapped => reg[t].digest \in DOMAIN blobs
    BY <1>1, <1>2 DEF HoldsImage
  <2>3. /\ IsFunction(blobs') /\ IsFunction(temporary')
        /\ \A d \in DOMAIN blobs' : blobs'[d] # Sif
        /\ \A d \in DOMAIN temporary' : temporary'[d] # Sif
        /\ ~overlapped => \A d \in DOMAIN blobs' : d \in Nat \ {0} /\ blobs'[d] \in Images(d)
    BY <1>1, CacheIs
  <2>4. PICK new : new = reg[t]
    OBVIOUS
  <2> QED
    BY <1>1, <1>2, <2>1, <2>2, <2>3, <2>4, CacheChanges
<1> QED
  BY <1>3, <1>4

LEMMA GotStep == ASSUME SInv, NEW t \in Threads, Got(t) PROVE SInv'
<1>1. /\ pc[t] = "got" /\ pc[t] \in Caching /\ Mild
      /\ UNCHANGED <<added, cache, tag, blobs, temporary, link, overlapped, files>>
  BY DEF Got, Mild, Caching, cache, author
<1>2. Onward /\ Stored' /\ IsFunction(files')
  BY <1>1, MildIs DEF SInv, StoreTypeOK
<1>3. /\ Busy(t) /\ IsReg(reg[t]) /\ reg[t].part = "image" /\ HoldsImage(t) /\ pc[t] # "query"
      /\ Request(t).image \in {"daemon", "built"} /\ reg[t].open # "temporary" /\ Cached(t)
  BY <1>1, CachingIs
<1>4. CASE link = 0
  BY <1>1, <1>4, RaiseBy DEF Got
<1>5. CASE link # 0
  <2>1. Go(t, "hash", reg[t]) /\ UNCHANGED <<calls, batch, built>>
    BY <1>5 DEF Got, calls
  <2>2. pc'[t] = "hash" /\ reg'[t] = reg[t]
    BY <1>3, <2>1, GoIs DEF SInv, Pcs, Moving
  <2>3. Request(t)' = Request(t) /\ Cached(t)' /\ EntryDone(batch[t][Len(built[t]) + 1], reg[t].entry)'
    BY <1>1, <1>2, <1>3, <2>1, <2>2, CachingStays
  <2>4. Routed(t)'
    BY <1>3, <2>2, <2>3 DEF Routed, Making, Caching, Moving
  <2>5. HoldsImage(t)'
    BY <1>1, <1>3, <2>2, <2>3 DEF HoldsImage, Moving, Caching
  <2>6. "hash" \in Caching \cup Moving
    BY DEF Moving
  <2> QED
    BY <1>1, <1>2, <1>3, <2>1, <2>4, <2>5, <2>6, ImageGoes
<1> QED
  BY <1>4, <1>5

LEMMA RenameStep == ASSUME SInv, NEW t \in Threads, Rename(t) PROVE SInv'
<1>1. /\ pc[t] = "rename" /\ pc[t] \in Caching /\ Mild
      /\ UNCHANGED <<requests, added, tree, tag, files, sources, link, overlapped>>
  BY DEF Rename, Mild, Caching, author
<1>2. Onward /\ Stored'
  BY <1>1, MildIs DEF SInv, StoreTypeOK
<1>3. /\ Busy(t) /\ InCache(t) /\ Cached(t) /\ IsReg(reg[t]) /\ reg[t].part = "image" /\ HoldsImage(t)
      /\ reg[t].open # "temporary" /\ (~overlapped => reg[t].digest \in 1 .. tag /\ reg[t].digest \in Nat \ {0})
  BY <1>1, CachingIs
<1>4. PICK d : d = reg[t].digest
  OBVIOUS
<1>5. CASE d \notin DOMAIN temporary
  <2>1. Raise(t) /\ UNCHANGED <<blobs, temporary>>
    BY <1>4, <1>5 DEF Rename
  <2> QED
    BY <1>1, <2>1, RaiseBy DEF cache
<1>6. CASE d \in DOMAIN temporary
  <2>1. /\ blobs' = Put(blobs, d, temporary[d])
        /\ temporary' = [e \in DOMAIN temporary \ {d} |-> temporary[e]]
        /\ pc' = [pc EXCEPT ![t] = "remove"]
        /\ reg' = [u \in Threads |-> IF reg[u].digest = d /\ reg[u].open = "temporary"
                                     THEN [reg[u] EXCEPT !.open = "blob"] ELSE reg[u]]
        /\ UNCHANGED calls
    BY <1>4, <1>6 DEF Rename
  <2>2. /\ pc' \in [Threads -> Pcs] /\ pc'[t] = "remove" /\ \A u \in Threads \ {t} : pc'[u] = pc[u]
        /\ "remove" \in Pcs \ Ends
    BY <2>1 DEF SInv, StoreTypeOK, Pcs, Caching, Ends
  <2>3. IsFunction(reg') /\ DOMAIN reg' = Threads /\ reg'[t] = reg[t]
    BY <1>3, <2>1 DEF IsFunction
  <2>4. ASSUME NEW u \in Threads
        PROVE  /\ reg'[u] = reg[u] \/ (overlapped /\ reg'[u] = [reg[u] EXCEPT !.open = "blob"])
               /\ IsReg(reg'[u]) /\ reg'[u].part \in {"entry", "image"}
    <3>1. IsReg(reg[u]) /\ reg[u].part \in {"entry", "image"}
      BY DEF SInv, StoreTypeOK
    <3>2. CASE reg[u].digest = d /\ reg[u].open = "temporary"
      <4>1. reg'[u] = [reg[u] EXCEPT !.open = "blob"]
        BY <2>1, <3>2
      <4>2. IsReg(reg'[u]) /\ reg'[u].part = reg[u].part
        BY <3>1, <4>1, OpenIs
      <4>3. pc[u] = "copied"
        BY <3>2 DEF SInv, ThreadInv
      <4>4. InCache(u) /\ u # t
        BY <1>1, <4>3, CachingIs DEF Caching
      <4>5. overlapped
        BY <1>3, <4>4 DEF SInv, CacheInv
      <4> QED
        BY <3>1, <4>1, <4>2, <4>5
    <3>3. CASE ~(reg[u].digest = d /\ reg[u].open = "temporary")
      BY <2>1, <3>1, <3>3
    <3> QED
      BY <3>2, <3>3
  <2>5. UNCHANGED <<batch, futures, built>>
    BY <2>1 DEF calls
  <2>6. \A u \in Threads \ {t} : Same(u)
    BY <1>2, <1>3, <2>2, <2>4, <2>5, OthersSame DEF Same
  <2>7. /\ Request(t)' = Request(t) /\ Cached(t)' /\ EntryDone(batch[t][Len(built[t]) + 1], reg[t].entry)'
    BY <1>1, <1>2, <2>3, <2>5, CachingStays
  <2>8. Routed(t)'
    BY <2>2, <2>7 DEF Routed, Making, Caching, Moving
  <2>9. IsFunction(blobs') /\ IsFunction(temporary')
    BY <2>1 DEF Put, IsFunction
  <2>10. HoldsImage(t)'
    <3>1. ~overlapped => d \in 1 .. tag'
      BY <1>1, <1>3, <1>4
    <3>2. d \in DOMAIN blobs'
      BY <2>1 DEF Put
    <3> QED
      BY <1>1, <1>4, <2>2, <2>3, <2>7, <3>1, <3>2 DEF HoldsImage, Moving, Caching
  <2>11. CacheInv'
    <3>1. ~overlapped => \A x, u \in Threads : InCache(x)' /\ InCache(u)' => x = u
      BY <1>1, <1>2, <1>3, <2>6, AloneStays
    <3>2. \A e : Images(e)' = Images(e)
      BY <1>1 DEF Images, Image
    <3>3. temporary[d] # Sif /\ \A e \in DOMAIN blobs : blobs[e] # Sif
      BY <1>6, CacheIs
    <3>4. \A e \in DOMAIN blobs' : blobs'[e] # Sif
      BY <2>1, <3>3 DEF Put
    <3>5. \A e \in DOMAIN temporary' : temporary'[e] # Sif
      BY <2>1, CacheIs
    <3>6. ASSUME ~overlapped
          PROVE  /\ \A e \in DOMAIN blobs' : e \in Nat \ {0} /\ blobs'[e] \in Images(e)
                 /\ link # 0 => link \in DOMAIN blobs'
      <4>1. temporary[d] \in Images(d) /\ d \in Nat \ {0}
        BY <1>1, <1>3, <1>4, <1>6, <3>6 DEF HoldsImage
      <4>2. /\ \A e \in DOMAIN blobs : e \in Nat \ {0} /\ blobs[e] \in Images(e)
            /\ link # 0 => link \in DOMAIN blobs
        BY <3>6, CacheIs
      <4> QED
        BY <2>1, <4>1, <4>2 DEF Put
    <3> QED
      BY <1>1, <3>1, <3>2, <3>4, <3>5, <3>6 DEF CacheInv, Sif
  <2>12. Data'
    BY <1>1, <2>9 DEF SInv, StoreTypeOK, Data
  <2>13. reg[t].open # "temporary" /\ reg[t].part = "image"
    BY <1>3
  <2>14. PICK new, step : new = reg[t] /\ step = "remove"
    OBVIOUS
  <2>15. UNCHANGED <<calls, added>>
    BY <1>1, <2>1
  <2>16. /\ IsFunction(reg') /\ DOMAIN reg' = Threads /\ reg'[t] = new /\ pc'[t] = step
         /\ \A u \in Threads : IsReg(reg'[u]) /\ reg'[u].part \in {"entry", "image"}
         /\ new.part = "image" /\ new.open # "temporary" /\ step # "move" /\ step \in Pcs \ Ends
         /\ pc' \in [Threads -> Pcs]
    BY <2>2, <2>3, <2>4, <2>13, <2>14
  <2> QED
    BY <1>2, <1>3, <2>6, <2>8, <2>10, <2>11, <2>12, <2>15, <2>16, SettleBy
<1> QED
  BY <1>5, <1>6

-----------------------------------------------------------------------------
(* The call of package(). *)

LEMMA RestIs ==
  ASSUME NEW s, IsSequence(s), NEW n \in Nat, n <= Len(s), NEW rest, rest = SubSeq(s, n + 1, Len(s))
  PROVE  /\ DOMAIN rest = 1 .. (Len(s) - n)
         /\ \A k \in DOMAIN rest : rest[k] = s[n + k] /\ n + k \in 1 .. Len(s)
<1>1. Len(s) \in Nat /\ DOMAIN s = 1 .. Len(s)
  BY SequenceIs
<1> DEFINE S == {s[k] : k \in DOMAIN s}
<1>2. /\ rest \in Seq(S) /\ Len(rest) = IF n + 1 <= Len(s) THEN Len(s) - (n + 1) + 1 ELSE 0
      /\ \A i \in 1 .. Len(s) - (n + 1) + 1 : rest[i] = s[n + 1 + i - 1]
  <2>1. \A i \in n + 1 .. Len(s) : s[i] \in S
    BY <1>1
  <2>2. n + 1 \in Int /\ Len(s) \in Int
    BY <1>1
  <2> HIDE DEF S
  <2> QED
    BY <2>1, <2>2, SubSeqProperties
<1> HIDE DEF S
<1>3. PICK m \in Nat : m = Len(s)
  BY <1>1
<1>4. n <= m /\ (IF n + 1 <= m THEN m - (n + 1) + 1 ELSE 0) = m - n /\ m - (n + 1) + 1 = m - n
  BY <1>3
<1>5. Len(rest) = m - n /\ DOMAIN rest = 1 .. (m - n)
  <2>1. Len(rest) = m - n
    BY <1>2, <1>3, <1>4
  <2>2. DOMAIN rest = 1 .. Len(rest)
    BY <1>2, LenProperties
  <2> QED
    BY <2>1, <2>2
<1>6. ASSUME NEW k \in 1 .. (m - n)
      PROVE  rest[k] = s[n + k] /\ n + k \in 1 .. m
  <2>1. n + 1 + k - 1 = n + k /\ n + k \in 1 .. m
    BY <1>4
  <2>2. rest[k] = s[n + 1 + k - 1]
    BY <1>2, <1>3, <1>4
  <2> QED
    BY <2>1, <2>2
<1> QED
  BY <1>3, <1>5, <1>6

LEMMA RecordStep == ASSUME SInv, NEW t \in Threads, Record(t) PROVE SInv'
<1>1. /\ pc[t] = "record" /\ pc' = [pc EXCEPT ![t] = "finish"] /\ sources \subseteq sources'
      /\ UNCHANGED <<author, calls, reg, files, tag, cache>>
      /\ \A k \in DOMAIN built[t] : HasSource(batch[t][k]) => <<Process(t), built[t][k].entry>> \in sources'
  BY DEF Record
<1>2. UNCHANGED <<requests, added, tree, tag, files, queue, result, batch, futures, built, reg>>
      /\ UNCHANGED <<blobs, temporary, link, overlapped>>
  BY <1>1 DEF author, calls, cache
<1>3. Onward
  BY <1>1, <1>2 DEF SInv, StoreTypeOK, Onward, Good
<1>4. /\ pc' \in [Threads -> Pcs] /\ pc'[t] = "finish" /\ \A u \in Threads \ {t} : pc'[u] = pc[u]
  BY <1>1 DEF SInv, StoreTypeOK, Pcs, Ends
<1>5. StoreTypeOK'
  <2>1. StoreTypeOK
    BY DEF SInv
  <2>2. requests' \in Scripts /\ added' \subseteq DOMAIN requests'
        /\ tree' \in Nat \ {0} /\ tag' \in Nat \ {0} /\ overlapped' \in BOOLEAN
    BY <1>2, <2>1 DEF StoreTypeOK
  <2>3. /\ queue' \in [Processes -> Seq(added')]
        /\ batch' \in [Threads -> Seq(added')] /\ futures' \in [Threads -> Seq(added')]
    BY <1>2, <2>1 DEF StoreTypeOK
  <2>4. /\ IsFunction(result') /\ DOMAIN result' = DOMAIN requests'
        /\ IsFunction(built') /\ DOMAIN built' = Threads
        /\ \A u \in Threads : IsSequence(built'[u])
        /\ IsFunction(reg') /\ DOMAIN reg' = Threads
        /\ \A u \in Threads : IsReg(reg'[u]) /\ reg'[u].part \in {"entry", "image"}
        /\ IsFunction(files') /\ IsFunction(blobs') /\ IsFunction(temporary')
    BY <1>2, <2>1 DEF StoreTypeOK
  <2> QED
    BY <1>4, <2>2, <2>3, <2>4 DEF StoreTypeOK
<1>6. \A u \in Threads \ {t} : Same(u)
  BY <1>2, <1>4 DEF Same
<1>7. Queues' /\ Answered' /\ Stored'
  <2>1. Queues'
    BY <1>2 DEF SInv, Queues
  <2>2. Stored'
    BY <1>2 DEF SInv, Stored, Sif, Destination
  <2> QED
    BY <1>2, <1>3, <2>1, <2>2, AnswersStay DEF SInv
<1>8. Called(t)'
  BY <1>1, <1>2, <1>4 DEF SInv, ThreadInv, Called, Busy, Ends
<1>9. Finished(t)'
  <2> SUFFICES ASSUME NEW k \in 1 .. Len(built[t])
               PROVE  /\ built[t][k].request = batch[t][k]
                      /\ EntryDone(batch[t][k], built[t][k].entry)'
                      /\ ImageDone(batch[t][k], built[t][k].image, built[t][k].digest)'
                      /\ HasSource(batch[t][k])' => <<Process(t), built[t][k].entry>> \in sources'
    BY <1>2 DEF Finished
  <2>1. PICK i, entry, image, digest :
          /\ i = batch[t][k] /\ entry = built[t][k].entry
          /\ image = built[t][k].image /\ digest = built[t][k].digest
    OBVIOUS
  <2>2. EntryDone(i, entry) /\ ImageDone(i, image, digest) /\ built[t][k].request = i
    BY <2>1 DEF SInv, ThreadInv, Finished
  <2>3. EntryDone(i, entry)' /\ ImageDone(i, image, digest)'
    BY <1>3, <2>2, EntryStays, ImageStays DEF SInv
  <2>4. batch'[t][k] = i /\ built'[t][k].entry = entry /\ built'[t][k].image = image
        /\ built'[t][k].digest = digest
    BY <1>2, <2>1
  <2>5. HasSource(batch[t][k])' => HasSource(batch[t][k])
    BY <1>2 DEF HasSource
  <2>6. k \in DOMAIN built[t]
    BY SequenceIs DEF SInv, StoreTypeOK
  <2>7. HasSource(batch[t][k])' => <<Process(t), built[t][k].entry>> \in sources'
    BY <1>1, <2>5, <2>6
  <2> QED
    BY <1>2, <2>1, <2>2, <2>3, <2>4, <2>7
<1>10. reg[t].open # "temporary"
  BY <1>1 DEF SInv, ThreadInv
<1>11. ThreadInv(t)'
  BY <1>2, <1>4, <1>8, <1>9, <1>10 DEF ThreadInv, Busy, Ends
<1>12. CacheInv'
  <2>1. InCache(t)' => InCache(t)
    BY <1>4 DEF InCache
  <2> QED
    BY <1>1, <1>3, <1>6, <2>1, CacheStays
<1> QED
  BY <1>3, <1>5, <1>6, <1>7, <1>11, <1>12, SInvBy

LEMMA FinishStep == ASSUME SInv, NEW t \in Threads, Finish(t) PROVE SInv'
<1> DEFINE rest == SubSeq(built[t], Len(futures[t]) + 1, Len(built[t]))
<1>1. /\ pc[t] = "finish" /\ Returned(t) /\ Mild /\ UNCHANGED <<cache, overlapped>> /\ UNCHANGED <<requests, added>>
  BY DEF Finish, Mild, author, cache
<1>2. Onward
  BY <1>1, MildIs DEF SInv, StoreTypeOK
<1>3. IsFunction(result') /\ DOMAIN result' = DOMAIN requests /\ DOMAIN result' = DOMAIN result
  BY DEF Finish, IsFunction, SInv, StoreTypeOK
<1>4. /\ IsSequence(built[t]) /\ Len(built[t]) \in Nat /\ DOMAIN built[t] = 1 .. Len(built[t])
      /\ batch[t] \in Seq(added) /\ futures[t] \in Seq(added)
      /\ Len(batch[t]) \in Nat /\ DOMAIN batch[t] = 1 .. Len(batch[t])
      /\ Len(futures[t]) \in Nat /\ DOMAIN futures[t] = 1 .. Len(futures[t])
  BY SequenceIs, LenProperties DEF SInv, StoreTypeOK
<1>5. /\ Len(futures[t]) <= Len(batch[t]) /\ Len(built[t]) = Len(batch[t])
      /\ \A k \in 1 .. Len(futures[t]) : futures[t][k] = batch[t][k]
      /\ \A k \in 1 .. Len(batch[t]) : requests[batch[t][k]].process = Process(t)
  BY <1>1 DEF SInv, ThreadInv, Called
<1>6. ASSUME NEW k \in 1 .. Len(built[t]), NEW i, i = batch[t][k], NEW answer, answer = built[t][k]
      PROVE  RightAnswer(i, answer)'
  <2>1. /\ EntryDone(i, answer.entry) /\ ImageDone(i, answer.image, answer.digest)
        /\ answer.request = i /\ (HasSource(i) => <<Process(t), answer.entry>> \in sources)
    BY <1>1, <1>6 DEF SInv, ThreadInv, Finished
  <2>2. requests[i].process = Process(t)
    BY <1>5, <1>6
  <2>3. RightAnswer(i, answer)
    BY <2>1, <2>2 DEF RightAnswer
  <2> QED
    BY <1>2, <2>3, AnswerStays DEF SInv
<1>7. /\ DOMAIN rest = 1 .. (Len(built[t]) - Len(futures[t]))
      /\ \A k \in DOMAIN rest : rest[k] = built[t][Len(futures[t]) + k]
                                /\ Len(futures[t]) + k \in 1 .. Len(built[t])
  BY <1>4, <1>5, RestIs
<1>8. /\ DOMAIN Extra(t) = 1 .. (Len(batch[t]) - Len(futures[t]))
      /\ \A k \in DOMAIN Extra(t) : Extra(t)[k] = batch[t][Len(futures[t]) + k]
  <2>1. IsSequence(batch[t])
    BY <1>4, SeqOfRange, RangeEquality DEF IsSequence
  <2>2. PICK s, n, extra : s = batch[t] /\ n = Len(futures[t]) /\ extra = Extra(t)
    OBVIOUS
  <2>3. extra = SubSeq(s, n + 1, Len(s)) /\ n \in Nat /\ n <= Len(s) /\ IsSequence(s)
    BY <1>4, <1>5, <2>1, <2>2 DEF Extra
  <2>4. /\ DOMAIN extra = 1 .. (Len(s) - n)
        /\ \A k \in DOMAIN extra : extra[k] = s[n + k]
    BY <2>3, RestIs
  <2> QED
    BY <2>2, <2>4
<1>9. Answered'
  <2> SUFFICES ASSUME NEW i \in DOMAIN result, result'[i] \notin {Nothing, <<"error">>}
               PROVE  RightAnswer(i, result[i])'
    BY <1>3 DEF Answered
  <2>1. PICK answer : answer = result'[i]
    OBVIOUS
  <2> HIDE DEF rest
  <2>2. CASE \E k \in DOMAIN futures[t] : k \in DOMAIN built[t] /\ futures[t][k] = i
    <3>1. PICK k : k = CHOOSE j \in DOMAIN futures[t] : futures[t][j] = i
      OBVIOUS
    <3>2. k \in DOMAIN futures[t] /\ futures[t][k] = i
      BY <2>2, <3>1
    <3>3. answer = built[t][k]
      BY <2>1, <2>2, <3>1 DEF Finish
    <3>4. k \in 1 .. Len(built[t]) /\ i = batch[t][k]
      BY <1>4, <1>5, <3>2
    <3>5. RightAnswer(i, answer)'
      BY <1>6, <3>3, <3>4
    <3> QED
      BY <2>1, <3>5
  <2>3. CASE /\ ~(\E k \in DOMAIN futures[t] : k \in DOMAIN built[t] /\ futures[t][k] = i)
             /\ \E k \in DOMAIN Extra(t) : k \in DOMAIN rest /\ Extra(t)[k] = i
    <3>1. PICK k : k = CHOOSE j \in DOMAIN rest : Extra(t)[j] = i
      OBVIOUS
    <3>2. k \in DOMAIN rest /\ Extra(t)[k] = i
      BY <2>3, <3>1
    <3>3. answer = rest[k]
      BY <2>1, <2>3, <3>1 DEF Finish, rest
    <3>4. PICK j : j = Len(futures[t]) + k
      OBVIOUS
    <3>5. j \in 1 .. Len(built[t]) /\ answer = built[t][j] /\ i = batch[t][j]
      BY <1>5, <1>7, <1>8, <3>2, <3>3, <3>4
    <3>6. RightAnswer(i, answer)'
      BY <1>6, <3>5
    <3> QED
      BY <2>1, <3>6
  <2>4. CASE /\ ~(\E k \in DOMAIN futures[t] : k \in DOMAIN built[t] /\ futures[t][k] = i)
             /\ ~(\E k \in DOMAIN Extra(t) : k \in DOMAIN rest /\ Extra(t)[k] = i)
    <3>1. answer = result[i]
      BY <2>1, <2>4 DEF Finish, rest
    <3>2. RightAnswer(i, answer)
      BY <2>1, <3>1 DEF SInv, Answered
    <3>3. RightAnswer(i, answer)'
      BY <1>2, <3>2, AnswerStays DEF SInv
    <3> QED
      BY <2>1, <3>3
  <2> QED
    BY <2>2, <2>3, <2>4
<1> QED
  BY <1>1, <1>3, <1>9, ReturnBy

LEMMA FailsStep == ASSUME SInv, NEW t \in Threads, Fails(t) PROVE SInv'
BY RaiseBy DEF Fails, Mild

\* A thread takes up a batch.
LEMMA BatchBy ==
  ASSUME SInv, NEW t \in Threads, pc[t] = "idle", NEW b, NEW f,
         UNCHANGED <<requests, tree, result, built, reg, files, tag, cache, sources>>,
         added \subseteq added', added' \subseteq DOMAIN requests,
         queue' \in [Processes -> Seq(added')], Queues',
         batch' = [batch EXCEPT ![t] = b], b \in Seq(added'),
         futures' = [futures EXCEPT ![t] = f], f \in Seq(added'),
         0 < Len(b), Len(f) <= Len(b), \A k \in 1 .. Len(f) : f[k] = b[k],
         \A k \in 1 .. Len(b) : requests[b[k]].process = Process(t),
         pc' = [pc EXCEPT ![t] = RouteEntry(requests[b[1]])]
  PROVE  SInv'
<1>1. StoreTypeOK /\ UNCHANGED <<blobs, temporary, link, overlapped>>
  BY DEF SInv, cache
<1>2. Onward
  BY <1>1 DEF StoreTypeOK, Onward, Good
<1>3. batch[t] = <<>> /\ built[t] = <<>> /\ reg[t].part = "entry" /\ Len(<<>>) = 0
      /\ reg[t].open # "temporary"
  BY EmptySeq DEF SInv, ThreadInv, Called
<1>4. Len(b) \in Nat /\ b[1] \in DOMAIN requests /\ 1 \in 1 .. Len(b)
  <2>1. Len(b) \in Nat
    BY LenProperties
  <2>2. 1 \in 1 .. Len(b)
    BY <2>1
  <2> QED
    BY <2>1, <2>2, ElementOfSeq
<1>5. PICK i \in DOMAIN requests : i = b[1]
  BY <1>4
<1>6. PICK step : step = RouteEntry(requests[i])
  OBVIOUS
<1>7. step \in Making
  BY <1>1, <1>6, RouteEntryIs DEF StoreTypeOK, Making
<1>8. /\ pc' \in [Threads -> Pcs] /\ pc'[t] = step /\ \A u \in Threads \ {t} : pc'[u] = pc[u]
  BY <1>1, <1>5, <1>6, <1>7 DEF StoreTypeOK, Pcs
<1>9. /\ batch' \in [Threads -> Seq(added')] /\ futures' \in [Threads -> Seq(added')]
      /\ batch'[t] = b /\ futures'[t] = f
      /\ \A u \in Threads \ {t} : batch'[u] = batch[u] /\ futures'[u] = futures[u]
  <2>1. Seq(added) \subseteq Seq(added')
    BY SeqMonotonic
  <2>2. batch \in [Threads -> Seq(added)] /\ futures \in [Threads -> Seq(added)]
    BY <1>1 DEF StoreTypeOK
  <2> QED
    BY <2>1, <2>2
<1>10. StoreTypeOK'
  <2>1. requests' \in Scripts /\ added' \subseteq DOMAIN requests'
        /\ tree' \in Nat \ {0} /\ tag' \in Nat \ {0} /\ overlapped' \in BOOLEAN
    BY <1>1 DEF StoreTypeOK
  <2>2. /\ IsFunction(result') /\ DOMAIN result' = DOMAIN requests'
        /\ IsFunction(built') /\ DOMAIN built' = Threads
        /\ \A u \in Threads : IsSequence(built'[u])
        /\ IsFunction(reg') /\ DOMAIN reg' = Threads
        /\ \A u \in Threads : IsReg(reg'[u]) /\ reg'[u].part \in {"entry", "image"}
        /\ IsFunction(files') /\ IsFunction(blobs') /\ IsFunction(temporary')
    BY <1>1 DEF StoreTypeOK
  <2> QED
    BY <1>8, <1>9, <2>1, <2>2 DEF StoreTypeOK
<1>11. \A u \in Threads \ {t} : Same(u)
  BY <1>1, <1>8, <1>9 DEF Same
<1>12. Answered' /\ Stored'
  <2>1. Stored'
    BY <1>1 DEF SInv, Stored, Sif, Destination
  <2> QED
    BY <1>1, <1>2, <2>1, AnswersStay DEF SInv
<1>13. Request(t)' = requests[i]
  BY <1>3, <1>5, <1>9 DEF Request
<1>14. Routed(t)' /\ HoldsEntry(t)' /\ pc'[t] \in Making /\ pc'[t] \notin {"move", "copied"}
  BY <1>3, <1>5, <1>6, <1>8, <1>13, StartIs
<1>15. Called(t)'
  BY <1>3, <1>7, <1>8, <1>9 DEF Called, Busy, Ends, Making
<1>16. Finished(t)'
  BY <1>3 DEF Finished
<1>17. ThreadInv(t)'
  BY <1>3, <1>14, <1>15, <1>16 DEF ThreadInv
<1>18. CacheInv'
  <2>1. ~InCache(t)'
    BY <1>3 DEF InCache
  <2> QED
    BY <1>2, <1>11, <2>1, CacheStays
<1> QED
  BY <1>2, <1>10, <1>11, <1>12, <1>17, <1>18, SInvBy

LEMMA AskStep == ASSUME SInv, NEW t \in Threads, Ask(t) PROVE SInv'
<1>1. PICK i \in DOMAIN requests :
        /\ Asked(i, Process(t)) /\ added' = added \cup {i} /\ batch' = [batch EXCEPT ![t] = <<i>>]
        /\ pc' = [pc EXCEPT ![t] = RouteEntry(requests[i])]
  BY DEF Ask
<1>2. /\ pc[t] = "idle"
      /\ UNCHANGED <<requests, tree, queue, futures, result, built, reg, files, tag, cache, sources>>
  BY DEF Ask
<1>3. PICK b, f : b = <<i>> /\ f = futures[t]
  OBVIOUS
<1>4. b \in Seq(added') /\ Len(b) = 1 /\ b[1] = i
  BY <1>1, <1>3
<1>5. f = <<>> /\ f \in Seq(added') /\ Len(f) = 0
  <2>1. f \in Seq(added) /\ Len(f) <= Len(batch[t]) /\ batch[t] = <<>>
    BY <1>2, <1>3 DEF SInv, ThreadInv, Called, StoreTypeOK
  <2> QED
    BY <2>1, EmptySeq, LenProperties
<1>6. futures' = [futures EXCEPT ![t] = f]
  BY <1>2, <1>3 DEF SInv, StoreTypeOK
<1>7. queue' \in [Processes -> Seq(added')] /\ Queues'
  <2>1. Seq(added) \subseteq Seq(added')
    BY <1>1, SeqMonotonic
  <2>2. queue \in [Processes -> Seq(added)] /\ Queues
    BY DEF SInv, StoreTypeOK
  <2>3. Queues'
    BY <1>2, <2>2 DEF Queues
  <2> QED
    BY <1>2, <2>1, <2>2, <2>3
<1>8. added \subseteq added' /\ added' \subseteq DOMAIN requests /\ requests[i].process = Process(t)
  BY <1>1 DEF SInv, StoreTypeOK, Asked
<1>9. /\ batch' = [batch EXCEPT ![t] = b] /\ pc' = [pc EXCEPT ![t] = RouteEntry(requests[b[1]])]
      /\ 0 < Len(b) /\ Len(f) <= Len(b) /\ \A k \in 1 .. Len(f) : f[k] = b[k]
      /\ \A k \in 1 .. Len(b) : requests[b[k]].process = Process(t)
  BY <1>1, <1>3, <1>4, <1>5, <1>8
<1> QED
  BY <1>2, <1>4, <1>5, <1>6, <1>7, <1>8, <1>9, BatchBy

\* The queue of the thread's process, and perhaps one request more.
LEMMA TakeBy ==
  ASSUME SInv, NEW t \in Threads, pc[t] = "idle", NEW extra \in Seq(added'), Take(t, extra),
         UNCHANGED <<requests, tree, result, built, reg, files, tag, cache, sources>>,
         added \subseteq added', added' \subseteq DOMAIN requests,
         \A k \in 1 .. Len(extra) : requests[extra[k]].process = Process(t),
         batch'[t] # <<>>, pc' = [pc EXCEPT ![t] = RouteEntry(requests[batch'[t][1]])]
  PROVE  SInv'
<1>1. PICK p, b, f : p = Process(t) /\ b = queue[p] \o extra /\ f = queue[p]
  OBVIOUS
<1>2. p \in Processes
  BY <1>1 DEF Processes
<1>3. Seq(added) \subseteq Seq(added')
  BY SeqMonotonic
<1>4. queue \in [Processes -> Seq(added)] /\ batch \in [Threads -> Seq(added)] /\ Queues
  BY DEF SInv, StoreTypeOK
<1>5. f \in Seq(added') /\ Len(f) \in Nat /\ Len(extra) \in Nat
  BY <1>1, <1>2, <1>3, <1>4, LenProperties
<1>6. /\ b \in Seq(added') /\ Len(b) = Len(f) + Len(extra)
      /\ \A k \in 1 .. Len(f) + Len(extra) : b[k] = IF k <= Len(f) THEN f[k] ELSE extra[k - Len(f)]
  <2>1. b = f \o extra
    BY <1>1
  <2> QED
    BY <1>5, <2>1, ConcatProperties
<1>7. /\ batch' = [batch EXCEPT ![t] = b] /\ futures' = [futures EXCEPT ![t] = f]
      /\ queue' = [queue EXCEPT ![p] = <<>>]
  BY <1>1 DEF Take
<1>8. batch'[t] = b
  BY <1>4, <1>7
<1>9. 0 < Len(b)
  <2>1. b # <<>>
    BY <1>8
  <2> QED
    BY <1>5, <1>6, <2>1, EmptySeq
<1>10. Len(f) <= Len(b) /\ \A k \in 1 .. Len(f) : f[k] = b[k]
  BY <1>5, <1>6
<1>11. \A k \in 1 .. Len(b) : requests[b[k]].process = Process(t)
  <2>1. \A k \in 1 .. Len(f) : requests[f[k]].process = Process(t)
    BY <1>1, <1>2, <1>4 DEF Queues
  <2> SUFFICES ASSUME NEW k \in 1 .. Len(b) PROVE requests[b[k]].process = Process(t)
    OBVIOUS
  <2>2. CASE k <= Len(f)
    BY <1>5, <1>6, <2>1, <2>2
  <2>3. CASE ~(k <= Len(f))
    <3>1. k - Len(f) \in 1 .. Len(extra) /\ b[k] = extra[k - Len(f)]
      BY <1>5, <1>6, <2>3
    <3> QED
      BY <3>1
  <2> QED
    BY <2>2, <2>3
<1>12. queue' \in [Processes -> Seq(added')] /\ Queues'
  <2>1. queue' \in [Processes -> Seq(added')]
    BY <1>3, <1>4, <1>7, EmptySeq
  <2>2. Queues'
    BY <1>2, <1>4, <1>7, EmptySeq DEF Queues
  <2> QED
    BY <2>1, <2>2
<1>13. pc' = [pc EXCEPT ![t] = RouteEntry(requests[b[1]])]
  BY <1>8
<1> QED
  BY <1>5, <1>6, <1>7, <1>9, <1>10, <1>11, <1>12, <1>13, BatchBy

LEMMA PackageStep == ASSUME SInv, NEW t \in Threads, Package(t) PROVE SInv'
<1>1. /\ pc[t] = "idle" /\ batch'[t] # <<>>
      /\ pc' = [pc EXCEPT ![t] = RouteEntry(requests[batch'[t][1]])]
      /\ UNCHANGED <<requests, tree, result, built, reg, files, tag, cache, sources>>
  BY DEF Package
<1>2. added \subseteq DOMAIN requests
  BY DEF SInv, StoreTypeOK
<1>3. CASE Take(t, <<>>) /\ UNCHANGED added
  <2>1. PICK extra : extra = <<>>
    OBVIOUS
  <2>2. extra \in Seq(added') /\ Len(extra) = 0 /\ Take(t, extra)
    BY <1>3, <2>1, EmptySeq
  <2>3. added \subseteq added' /\ added' \subseteq DOMAIN requests
        /\ \A k \in 1 .. Len(extra) : requests[extra[k]].process = Process(t)
    BY <1>2, <1>3, <2>2
  <2> QED
    BY <1>1, <2>2, <2>3, TakeBy
<1>4. CASE \E i \in DOMAIN requests :
             /\ Asked(i, Process(t)) /\ requests[i].entry \notin Direct
             /\ added' = added \cup {i} /\ Take(t, <<i>>)
  <2>1. PICK i \in DOMAIN requests :
          Asked(i, Process(t)) /\ added' = added \cup {i} /\ Take(t, <<i>>)
    BY <1>4
  <2>2. PICK extra : extra = <<i>>
    OBVIOUS
  <2>3. extra \in Seq(added') /\ Len(extra) = 1 /\ extra[1] = i /\ Take(t, extra)
    BY <2>1, <2>2
  <2>4. added \subseteq added' /\ added' \subseteq DOMAIN requests
        /\ \A k \in 1 .. Len(extra) : requests[extra[k]].process = Process(t)
    BY <1>2, <2>1, <2>3 DEF Asked
  <2> QED
    BY <1>1, <2>3, <2>4, TakeBy
<1> QED
  BY <1>3, <1>4 DEF Package

-----------------------------------------------------------------------------
(* The author, the world and a process that dies. *)

LEMMA QuietBy ==
  ASSUME SInv, Onward, \A u \in Threads : ThreadInv(u)', StoreTypeOK', Queues',
         UNCHANGED <<result, cache, files>>, \A u \in Threads : InCache(u)' => InCache(u)
  PROVE  SInv'
<1>1. Answered'
  BY AnswersStay DEF SInv
<1>2. CacheInv'
  BY CacheKept
<1>3. Stored'
  BY DEF SInv, Stored, Sif, Destination, Onward, cache
<1> QED
  BY <1>1, <1>2, <1>3 DEF SInv

\* No thread moves.
LEMMA StillBy ==
  ASSUME SInv, Onward, UNCHANGED <<result, cache, files, pc, reg, batch, futures, built>>,
         queue' \in [Processes -> Seq(added')], Queues'
  PROVE  SInv'
<1>1. StoreTypeOK /\ UNCHANGED <<blobs, temporary, link, overlapped>>
  BY DEF SInv, cache
<1>2. \A u \in Threads : Same(u)
  BY <1>1 DEF Same
<1>3. \A u \in Threads : ThreadInv(u)'
  BY <1>2, ThreadStays DEF SInv
<1>4. StoreTypeOK'
  <2>1. Seq(added) \subseteq Seq(added')
    BY SeqMonotonic DEF Onward
  <2>2. requests' \in Scripts /\ added' \subseteq DOMAIN requests'
        /\ tree' \in Nat \ {0} /\ tag' \in Nat \ {0} /\ overlapped' \in BOOLEAN
    BY <1>1 DEF StoreTypeOK, Onward
  <2>3. pc' \in [Threads -> Pcs] /\ batch' \in [Threads -> Seq(added')] /\ futures' \in [Threads -> Seq(added')]
    BY <1>1, <2>1 DEF StoreTypeOK
  <2>4. /\ IsFunction(result') /\ DOMAIN result' = DOMAIN requests'
        /\ IsFunction(built') /\ DOMAIN built' = Threads
        /\ \A u \in Threads : IsSequence(built'[u])
        /\ IsFunction(reg') /\ DOMAIN reg' = Threads
        /\ \A u \in Threads : IsReg(reg'[u]) /\ reg'[u].part \in {"entry", "image"}
        /\ IsFunction(files') /\ IsFunction(blobs') /\ IsFunction(temporary')
    BY <1>1 DEF StoreTypeOK, Onward
  <2> QED
    BY <2>2, <2>3, <2>4 DEF StoreTypeOK
<1>5. \A u \in Threads : InCache(u)' => InCache(u)
  BY DEF InCache, Request, Onward
<1> QED
  BY <1>3, <1>4, <1>5, QuietBy

LEMMA WorldStep == ASSUME SInv, EditTree \/ RebuildImage PROVE SInv'
<1>1. /\ UNCHANGED <<requests, added, queue, result, cache, files, pc, reg, batch, futures, built, sources>>
      /\ tree' \in {tree, tree + 1} /\ tag' \in {tag, tag + 1}
  BY DEF EditTree, RebuildImage, author, calls
<1>2. Onward
  <2>1. overlapped' = overlapped
    BY <1>1 DEF cache
  <2> QED
    BY <1>1, <2>1 DEF SInv, StoreTypeOK, Onward, Good
<1>3. queue' \in [Processes -> Seq(added')] /\ Queues'
  BY <1>1 DEF SInv, StoreTypeOK, Queues
<1> QED
  BY <1>1, <1>2, <1>3, StillBy

LEMMA AddRequestStep == ASSUME SInv, AddRequest PROVE SInv'
<1>1. PICK i \in DOMAIN requests :
        /\ added' = added \cup {i}
        /\ queue' = [queue EXCEPT ![requests[i].process] = Append(@, i)]
  BY DEF AddRequest
<1>2. UNCHANGED <<requests, tree, tag, result, cache, files, pc, reg, batch, futures, built, sources>>
  BY DEF AddRequest
<1>3. Onward
  <2>1. overlapped' = overlapped
    BY <1>2 DEF cache
  <2> QED
    BY <1>1, <1>2, <2>1 DEF SInv, StoreTypeOK, Onward, Good
<1>4. PICK p : p = requests[i].process
  OBVIOUS
<1>5. p \in Processes
  BY <1>4, StoreAssumption DEF SInv, StoreTypeOK
<1>6. queue \in [Processes -> Seq(added)] /\ Queues /\ Seq(added) \subseteq Seq(added') /\ i \in added'
  BY <1>1, SeqMonotonic DEF SInv, StoreTypeOK
<1>7. /\ Append(queue[p], i) \in Seq(added') /\ Len(queue[p]) \in Nat
      /\ Len(Append(queue[p], i)) = Len(queue[p]) + 1
      /\ \A k \in 1 .. Len(queue[p]) : Append(queue[p], i)[k] = queue[p][k]
      /\ Append(queue[p], i)[Len(queue[p]) + 1] = i
  <2>1. PICK q : q = queue[p]
    OBVIOUS
  <2>2. q \in Seq(added')
    BY <1>5, <1>6, <2>1
  <2>3. /\ Append(q, i) \in Seq(added') /\ Len(q) \in Nat /\ Len(Append(q, i)) = Len(q) + 1
        /\ \A k \in 1 .. Len(q) : Append(q, i)[k] = q[k]
        /\ Append(q, i)[Len(q) + 1] = i
    BY <1>6, <2>2, AppendProperties, LenProperties
  <2> QED
    BY <2>1, <2>3
<1>8. queue' \in [Processes -> Seq(added')] /\ Queues'
  <2>1. /\ queue'[p] = Append(queue[p], i) /\ \A o \in Processes \ {p} : queue'[o] = queue[o]
    BY <1>1, <1>4, <1>5, <1>6
  <2>2. queue' \in [Processes -> Seq(added')]
    BY <1>1, <1>4, <1>6, <1>7
  <2>3. \A k \in 1 .. Len(queue'[p]) : requests[queue'[p][k]].process = p
    <3>1. \A k \in 1 .. Len(queue[p]) : requests[queue[p][k]].process = p
      BY <1>5, <1>6 DEF Queues
    <3> QED
      BY <1>4, <1>7, <2>1, <3>1
  <2>4. Queues'
    BY <1>2, <1>6, <2>1, <2>3 DEF Queues
  <2> QED
    BY <2>2, <2>4
<1> QED
  BY <1>2, <1>3, <1>8, StillBy

LEMMA DiesStep == ASSUME SInv, Dies PROVE SInv'
<1>1. PICK p \in Processes :
        /\ queue' = [queue EXCEPT ![p] = <<>>]
        /\ pc' = [t \in Threads |-> IF Process(t) = p THEN "idle" ELSE pc[t]]
        /\ reg' = [t \in Threads |-> IF Process(t) = p THEN Idle ELSE reg[t]]
        /\ batch' = [t \in Threads |-> IF Process(t) = p THEN <<>> ELSE batch[t]]
        /\ futures' = [t \in Threads |-> IF Process(t) = p THEN <<>> ELSE futures[t]]
        /\ built' = [t \in Threads |-> IF Process(t) = p THEN <<>> ELSE built[t]]
  BY Zenon DEF Dies
<1>2. UNCHANGED <<requests, added, tree, result, cache, files, tag, sources, blobs, temporary,
                  link, overlapped>>
  BY DEF Dies, author, cache
<1>3. Onward
  BY <1>2 DEF SInv, StoreTypeOK, Onward, Good
<1>4. IsReg(Idle) /\ Idle.part = "entry" /\ Idle.open = "none"
  BY DEF Idle, Begun, IsReg
<1>5. \A u \in Threads : Process(u) = p =>
        /\ pc'[u] = "idle" /\ reg'[u] = Idle
        /\ batch'[u] = <<>> /\ futures'[u] = <<>> /\ built'[u] = <<>>
  BY <1>1
<1>6. \A u \in Threads : Process(u) # p =>
        /\ pc'[u] = pc[u] /\ reg'[u] = reg[u]
        /\ batch'[u] = batch[u] /\ futures'[u] = futures[u] /\ built'[u] = built[u]
  BY <1>1
<1>7. \A u \in Threads : Process(u) # p => Same(u)
  BY <1>2, <1>6 DEF Same
<1>8. \A u \in Threads : ThreadInv(u)'
  <2> SUFFICES ASSUME NEW u \in Threads PROVE ThreadInv(u)'
    OBVIOUS
  <2>1. CASE Process(u) = p
    BY <1>4, <1>5, <2>1, EmptyIs DEF ThreadInv, Called, Finished, Busy, Ends
  <2>2. CASE Process(u) # p
    BY <1>3, <1>7, <2>2, ThreadStays DEF SInv
  <2> QED
    BY <2>1, <2>2
<1>9. queue' \in [Processes -> Seq(added')] /\ Queues'
  <2>1. queue \in [Processes -> Seq(added)] /\ Queues /\ <<>> \in Seq(added)
    BY EmptySeq DEF SInv, StoreTypeOK
  <2>2. queue'[p] = <<>> /\ \A o \in Processes \ {p} : queue'[o] = queue[o]
    BY <1>1, <2>1
  <2>3. queue' \in [Processes -> Seq(added')]
    BY <1>1, <1>2, <2>1
  <2>4. Queues'
    BY <1>2, <2>1, <2>2, EmptyIs DEF Queues
  <2> QED
    BY <2>3, <2>4
<1>10. StoreTypeOK'
  <2>1. StoreTypeOK
    BY DEF SInv
  <2>2. requests' \in Scripts /\ added' \subseteq DOMAIN requests'
        /\ IsFunction(result') /\ DOMAIN result' = DOMAIN requests'
        /\ IsFunction(files') /\ IsFunction(blobs') /\ IsFunction(temporary')
        /\ tree' \in Nat \ {0} /\ tag' \in Nat \ {0} /\ overlapped' \in BOOLEAN
    BY <1>2, <2>1 DEF StoreTypeOK
  <2>3. pc' \in [Threads -> Pcs]
    BY <1>1, <2>1 DEF StoreTypeOK, Pcs, Ends
  <2>4. batch' \in [Threads -> Seq(added')] /\ futures' \in [Threads -> Seq(added')]
    BY <1>1, <1>2, <2>1, EmptySeq DEF StoreTypeOK
  <2>5. IsFunction(built') /\ DOMAIN built' = Threads /\ IsFunction(reg') /\ DOMAIN reg' = Threads
    BY <1>1 DEF IsFunction
  <2>6. \A u \in Threads : IsSequence(built'[u])
    BY <1>5, <1>6, <2>1, EmptyIs DEF StoreTypeOK
  <2>7. \A u \in Threads : IsReg(reg'[u]) /\ reg'[u].part \in {"entry", "image"}
    BY <1>4, <1>5, <1>6, <2>1 DEF StoreTypeOK
  <2> QED
    BY <2>2, <2>3, <2>4, <2>5, <2>6, <2>7, <1>9 DEF StoreTypeOK
<1>11. \A u \in Threads : InCache(u)' => InCache(u)
  BY <1>2, <1>5, <1>6 DEF InCache, Request
<1> QED
  BY <1>2, <1>3, <1>8, <1>9, <1>10, <1>11, QuietBy

LEMMA StutterStep == ASSUME SInv, UNCHANGED store PROVE SInv'
<1>1. /\ UNCHANGED <<requests, added, queue, result, cache, files, pc, reg, batch, futures, built, sources,
                     tree, tag, overlapped>>
  BY DEF store, author, calls, cache
<1>2. Onward
  BY <1>1 DEF SInv, StoreTypeOK, Onward, Good
<1>3. queue' \in [Processes -> Seq(added')] /\ Queues'
  BY <1>1 DEF SInv, StoreTypeOK, Queues
<1> QED
  BY <1>1, <1>2, <1>3, StillBy

LEMMA InitSInv == Init => SInv
<1> SUFFICES ASSUME Init PROVE SInv
  OBVIOUS
<1>1. IsFunction(Nothing) /\ DOMAIN Nothing = {} /\ Nothing = <<>>
  BY DEF Nothing, IsFunction
<1>2. IsReg(Idle) /\ Idle.part = "entry" /\ Idle.open = "none"
  BY DEF Idle, Begun, IsReg
<1>3. /\ IsFunction(files)
      /\ \A f \in DOMAIN files : files[f] = f[2] \/ (f \in DOMAIN Earlier /\ files[f] = Corrupt)
  <2>1. CASE files = Nothing
    BY <1>1, <2>1
  <2>2. CASE files = Earlier
    BY <2>2 DEF Earlier, IsFunction
  <2>3. CASE files = [f \in DOMAIN Earlier |-> Corrupt]
    BY <2>3 DEF IsFunction
  <2> QED
    BY <2>1, <2>2, <2>3 DEF Init
<1>4. StoreTypeOK
  <2>1. requests \in Scripts /\ added \subseteq DOMAIN requests
    BY DEF Init
  <2>2. /\ queue \in [Processes -> Seq(added)]
        /\ batch \in [Threads -> Seq(added)] /\ futures \in [Threads -> Seq(added)]
    BY EmptySeq DEF Init
  <2>3. /\ IsFunction(result) /\ DOMAIN result = DOMAIN requests
        /\ IsFunction(built) /\ DOMAIN built = Threads
        /\ IsFunction(reg) /\ DOMAIN reg = Threads
    BY DEF Init, IsFunction
  <2>4. pc \in [Threads -> Pcs]
    BY DEF Init, Pcs, Ends
  <2>5. \A t \in Threads : IsSequence(built[t])
    BY EmptyIs DEF Init
  <2>6. \A t \in Threads : IsReg(reg[t]) /\ reg[t].part \in {"entry", "image"}
    BY <1>2 DEF Init
  <2>7. IsFunction(blobs) /\ IsFunction(temporary)
    BY <1>1 DEF Init
  <2>8. tree = 1 /\ tag = 1 /\ overlapped = FALSE
    BY DEF Init
  <2>9. tree \in Nat \ {0} /\ tag \in Nat \ {0}
    BY <2>8
  <2>10. overlapped \in BOOLEAN
    BY <2>8
  <2> QED
    BY <1>3, <2>1, <2>2, <2>3, <2>4, <2>5, <2>6, <2>7, <2>9, <2>10 DEF StoreTypeOK
<1>5. Queues
  BY EmptyIs DEF Init, Queues
<1>6. Answered
  BY DEF Init, Answered
<1>7. Stored
  BY <1>3 DEF Stored
<1>8. CacheInv
  BY <1>1 DEF Init, CacheInv, InCache
<1>9. ASSUME NEW t \in Threads PROVE ThreadInv(t)
  <2>1. pc[t] = "idle" /\ reg[t] = Idle /\ batch[t] = <<>> /\ futures[t] = <<>> /\ built[t] = <<>>
    BY DEF Init
  <2> QED
    BY <1>2, <2>1, EmptyIs DEF ThreadInv, Called, Finished, Busy, Ends
<1> QED
  BY <1>4, <1>5, <1>6, <1>7, <1>8, <1>9 DEF SInv

-----------------------------------------------------------------------------
(* The theorems. *)

LEMMA NextSInv == SInv /\ [Next]_store => SInv'
<1> SUFFICES ASSUME SInv, [Next]_store PROVE SInv'
  OBVIOUS
<1>1. CASE AddRequest
  BY <1>1, AddRequestStep
<1>2. CASE EditTree \/ RebuildImage
  BY <1>2, WorldStep
<1>3. CASE Dies
  BY <1>3, DiesStep
<1>4. ASSUME NEW t \in Threads, Package(t) \/ Ask(t) \/ Fails(t) PROVE SInv'
  BY <1>4, PackageStep, AskStep, FailsStep
<1>5. ASSUME NEW t \in Threads, Step(t) PROVE SInv'
  <2>1. CASE Record(t) \/ Finish(t) \/ Named(t) \/ Freeze(t) \/ Retain(t) \/ Archive(t) \/ CopyResources(t)
    BY <2>1, RecordStep, FinishStep, NamedStep, FreezeStep, RetainStep, ArchiveStep, CopyResourcesStep
  <2>2. CASE Verify(t) \/ Hash(t) \/ Upload(t) \/ Move(t) \/ Stage(t) \/ Fetch(t) \/ Expose(t) \/ CopyTree(t)
    BY <2>2, VerifyStep, HashStep, UploadStep, MoveStep, StageStep, FetchStep, ExposeStep, CopyTreeStep
  <2>3. CASE Dockerize(t) \/ Query(t) \/ Look(t) \/ Bootstrap(t) \/ Copy(t) \/ Copied(t) \/ Rename(t)
    BY <2>3, DockerizeStep, QueryStep, LookStep, BootstrapStep, CopyStep, CopiedStep, RenameStep
  <2>4. CASE Remove(t) \/ Symlink(t) \/ Got(t)
    BY <2>4, RemoveStep, SymlinkStep, GotStep
  <2> QED
    BY <1>5, <2>1, <2>2, <2>3, <2>4 DEF Step
<1>6. CASE UNCHANGED store
  BY <1>6, StutterStep
<1> QED
  BY <1>1, <1>2, <1>3, <1>4, <1>5, <1>6 DEF Next

\* Whatever threads, processes and requests there are, and however they meet in
\* the queues, the stores and the image cache: each thread relies on what is so.
THEOREM StoreInvariance == StoreSpec => []SInv
BY InitSInv, NextSInv, PTL DEF StoreSpec

\* AsyncPackager: a future gets the executable of its own request or an error,
\* whatever calls of package() and failures of other requests it meets in the queue.
THEOREM FuturesGetTheirOwnHolds == StoreSpec => []FuturesGetTheirOwn
<1>1. SInv => FuturesGetTheirOwn
  BY DEF SInv, Answered, RightAnswer, FuturesGetTheirOwn
<1> QED
  BY <1>1, StoreInvariance, PTL

\* artifacts.py, source.py, inputs.py, outputs.py: every name in the stores has the
\* content it names, with the exceptions StoredByContent names and no other.
THEOREM StoredByContentHolds == StoreSpec => []StoredByContent
<1>1. SInv => StoredByContent
  BY DEF SInv, Stored, StoredByContent
<1> QED
  BY <1>1, StoreInvariance, PTL

\* The router: what an executable names is in the stores, whole, and as old as the
\* request; its source is retained and recorded; and it stays so after the answer.
THEOREM AnswersAreStagedHolds == StoreSpec => []AnswersAreStaged
<1>1. SInv => AnswersAreStaged
  <2> SUFFICES ASSUME SInv, NEW i \in DOMAIN result, result[i] \notin {Nothing, <<"error">>},
                      NEW answer, answer = result[i]
               PROVE
        LET r == requests[i]  entry == answer.entry  image == answer.image
        IN  /\ files[CASE r.entry = "input"   -> <<"inputs", entry>>
                        [] r.entry = "capture" -> <<"sources", entry>>
                        [] r.entry \in {"fetch", "fetchdir"} -> <<"fetched", entry>>
                        [] OTHER -> <<"archives", entry>>] = entry
            /\ r.entry \in Built => Whole(entry[3], r)
            /\ r.entry = "frozen" => entry = Tree(1)
            /\ r.entry \in {"tree", "capture"} => entry \in {Tree(v) : v \in 1..tree}
            /\ HasSource(i) => files[<<"sources", entry>>] = entry /\ entry \in SourcesOf(r.process)
            /\ r.image = "sif" => files[<<"containers", image>>] = <<"sif">>
            /\ (r.image \in {"daemon", "built"} /\ ~overlapped) =>
                 /\ files[<<"containers", image>>] = image
                 /\ \E v \in answer.digest..tag : image = Image(v)
    BY Zenon DEF AnswersAreStaged
  <2>1. EntryDone(i, answer.entry) /\ ImageDone(i, answer.image, answer.digest)
        /\ (HasSource(i) => <<requests[i].process, answer.entry>> \in sources)
    BY DEF SInv, Answered, RightAnswer
  <2>2. HasSource(i) => answer.entry \in SourcesOf(requests[i].process)
    BY <2>1 DEF SourcesOf
  <2>3. files[CASE requests[i].entry = "input"   -> <<"inputs", answer.entry>>
                [] requests[i].entry = "capture" -> <<"sources", answer.entry>>
                [] requests[i].entry \in {"fetch", "fetchdir"} -> <<"fetched", answer.entry>>
                [] OTHER -> <<"archives", answer.entry>>] = answer.entry
    BY <2>1 DEF EntryDone, Good
  <2>4. /\ requests[i].entry \in Built => Whole(answer.entry[3], requests[i])
        /\ requests[i].entry = "frozen" => answer.entry = Tree(1)
        /\ requests[i].entry \in {"tree", "capture"} => answer.entry \in {Tree(v) : v \in 1..tree}
        /\ HasSource(i) => files[<<"sources", answer.entry>>] = answer.entry
    BY <2>1 DEF EntryDone, Good, Trees
  <2>5. requests[i].image = "sif" => files[<<"containers", answer.image>>] = <<"sif">>
    BY <2>1 DEF ImageDone, Good, Sif
  <2>6. requests[i].image \in {"daemon", "built"} /\ ~overlapped =>
          /\ files[<<"containers", answer.image>>] = answer.image
          /\ \E v \in answer.digest..tag : answer.image = Image(v)
    BY <2>1 DEF ImageDone, Good, Images
  <2> QED
    BY <2>2, <2>3, <2>4, <2>5, <2>6
<1> QED
  BY <1>1, StoreInvariance, PTL

=============================================================================
