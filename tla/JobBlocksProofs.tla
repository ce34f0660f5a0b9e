-------------------------- MODULE JobBlocksProofs --------------------------
(***************************************************************************)
(* What is proved of the arguments of a job, for collections of any length *)
(* and values of any kind.  A fold is an induction over data: each is      *)
(* done with the smallest position at which it would go wrong.             *)
(***************************************************************************)
EXTENDS JobBlocks, FiniteSetTheorems, SequenceTheorems, WellFoundedInduction, TLAPS

---------------------------------------------------------------------------
(* Numbers *)

Less == {p \in Nat \X Nat : p[1] < p[2]}
LEMMA SmallestOf ==
  ASSUME NEW S \in SUBSET Nat, S # {} PROVE \E m \in S : \A k \in S : m <= k
<1>1. Less = OpToRel(<,Nat)
  BY Zenon DEF Less, OpToRel
<1>2. IsWellFoundedOn(Less, Nat)
  BY <1>1, NatLessThanWellFounded
<1>3. PICK m \in S : \A y \in S : ~ (<<y, m>> \in Less)
  BY <1>2, WFMin
<1>4. ASSUME NEW k \in S PROVE m <= k
  <2>1. m \in Nat /\ k \in Nat
    OBVIOUS
  <2>2. ~(k < m)
    BY <1>3, <2>1 DEF Less
  <2> QED BY <2>1, <2>2
<1> QED BY <1>4

LEMMA LargestOf ==
  ASSUME NEW S \in SUBSET Nat, S # {}, NEW n \in Nat, \A k \in S : k <= n
  PROVE  \E m \in S : \A k \in S : k <= m
<1> DEFINE T == {m \in Nat : \A k \in S : k <= m}
<1>1. n \in T /\ T \in SUBSET Nat
  OBVIOUS
<1> HIDE DEF T
<1>2. PICK m \in T : \A k \in T : m <= k
  BY <1>1, SmallestOf
<1>3. m \in Nat /\ \A k \in S : k \in Nat /\ k <= m
  BY DEF T
<1>4. CASE m \in S
  BY <1>3, <1>4
<1>5. CASE m \notin S
  <2>1. PICK least \in S : TRUE
    OBVIOUS
  <2>2. \A k \in S : k <= m - 1
    BY <1>3, <1>5
  <2>3. m - 1 \in Nat
    BY <1>3, <1>5, <2>1
  <2>4. m - 1 \in T
    BY <2>2, <2>3 DEF T
  <2>5. ~(m <= m - 1)
    BY <1>3
  <2> QED BY <1>2, <2>4, <2>5
<1> QED BY <1>4, <1>5

LEMMA MaxOf ==
  ASSUME NEW S \in SUBSET Nat, NEW m \in S, \A k \in S : k <= m PROVE Max(S) = m
<1>1. m \in S /\ \A k \in S : m >= k
  OBVIOUS
<1>2. \A x \in S : (\A k \in S : x >= k) => x = m
  OBVIOUS
<1> QED BY <1>1, <1>2 DEF Max

LEMMA MaxIn ==
  ASSUME NEW n \in Nat, NEW S \in SUBSET (1..n), S # {}
  PROVE  Max(S) \in S /\ \A k \in S : k <= Max(S)
<1>1. S \in SUBSET Nat /\ \A k \in S : k <= n
  OBVIOUS
<1>2. PICK m \in S : \A k \in S : k <= m
  BY <1>1, LargestOf
<1> QED BY <1>1, <1>2, MaxOf

LEMMA MinOf ==
  ASSUME NEW S \in SUBSET Nat, S # {} PROVE Min(S) \in S /\ \A k \in S : Min(S) <= k
<1>1. \E m \in S : \A k \in S : m <= k
  BY SmallestOf
<1> QED BY <1>1 DEF Min

---------------------------------------------------------------------------
(* Folding ingest *)

\* What ingesting a sequence of mentions makes, as the folding of the community modules
\* defines it: by the subsets of the positions, the largest taken first.
IngestBySet(f, start, seq, n) ==
  f = [s \in SUBSET (1..n) |-> IF s = {} THEN start ELSE ingest(f[s \ {Max(s)}], seq[Max(s)])]

LEMMA IngestStep ==
  ASSUME NEW start, NEW seq, NEW n \in Nat, NEW f, IngestBySet(f, start, seq, n)
  PROVE  \E g : IngestBySet(g, start, seq, n + 1)
<1> DEFINE g == [s \in SUBSET (1..n + 1) |->
                   IF n + 1 \in s THEN ingest(f[s \ {n + 1}], seq[n + 1]) ELSE f[s]]
<1>1. ASSUME NEW s \in SUBSET (1..n + 1)
      PROVE  g[s] = IF s = {} THEN start ELSE ingest(g[s \ {Max(s)}], seq[Max(s)])
  <2>1. CASE n + 1 \in s
    <3>1. Max(s) = n + 1
      <4>1. s \in SUBSET Nat /\ \A k \in s : k <= n + 1
        OBVIOUS
      <4> QED BY <2>1, <4>1, MaxOf
    <3>2. s \ {n + 1} \in SUBSET (1..n + 1) /\ n + 1 \notin s \ {n + 1}
      OBVIOUS
    <3> QED BY <2>1, <3>1, <3>2
  <2>2. CASE n + 1 \notin s
    <3>1. s \in SUBSET (1..n)
      BY <2>2
    <3>2. CASE s = {}
      BY <2>2, <3>1, <3>2 DEF IngestBySet
    <3>3. CASE s # {}
      <4>1. Max(s) \in s
        BY <3>1, <3>3, MaxIn
      <4>2. f[s] = ingest(f[s \ {Max(s)}], seq[Max(s)])
        BY <3>1, <3>3 DEF IngestBySet
      <4>3. s \ {Max(s)} \in SUBSET (1..n + 1) /\ n + 1 \notin s \ {Max(s)}
        BY <2>2
      <4>4. g[s \ {Max(s)}] = f[s \ {Max(s)}] /\ g[s] = f[s]
        BY <2>2, <4>3
      <4> QED BY <3>3, <4>2, <4>4
    <3> QED BY <3>2, <3>3
  <2> QED BY <2>1, <2>2
<1> HIDE DEF g
<1>2. DOMAIN g = SUBSET (1..n + 1) /\ g = [s \in DOMAIN g |-> g[s]]
  BY DEF g
<1>3. IngestBySet(g, start, seq, n + 1)
  BY <1>1, <1>2 DEF IngestBySet
<1> QED BY <1>3

LEMMA IngestExists ==
  ASSUME NEW start, NEW seq PROVE \A n \in Nat : \E f : IngestBySet(f, start, seq, n)
<1> DEFINE Bad == {n \in Nat : ~ \E f : IngestBySet(f, start, seq, n)}
<1> SUFFICES ASSUME Bad # {} PROVE FALSE
  OBVIOUS
<1>1. PICK n \in Bad : \A k \in Bad : n <= k
  BY SmallestOf
<1>2. CASE n = 0
  <2> DEFINE f == [s \in SUBSET (1..0) |-> start]
  <2>1. \A s \in SUBSET (1..0) : s = {}
    OBVIOUS
  <2>2. IngestBySet(f, start, seq, 0)
    BY <2>1 DEF IngestBySet
  <2> QED BY <1>2, <2>2
<1>3. CASE n # 0
  <2>1. n - 1 \in Nat /\ n - 1 \notin Bad
    BY <1>1, <1>3
  <2>2. PICK f : IngestBySet(f, start, seq, n - 1)
    BY <2>1
  <2>3. \E g : IngestBySet(g, start, seq, (n - 1) + 1)
    BY <2>1, <2>2, IngestStep
  <2> QED BY <1>1, <2>3
<1> QED BY <1>2, <1>3

\* The same from the left: what has been made after each mention.
IngestRun(run, start, seq) ==
  /\ DOMAIN run = 0..Len(seq) /\ run[0] = start
  /\ \A i \in 1..Len(seq) : run[i] = ingest(run[i - 1], seq[i])
LEMMA IngestFold ==
  ASSUME NEW start, NEW S, NEW seq \in Seq(S)
  PROVE  \E run : /\ IngestRun(run, start, seq)
                  /\ FoldLeft(ingest, start, seq) = run[Len(seq)]
<1> DEFINE n == Len(seq)
           f == CHOOSE f : IngestBySet(f, start, seq, n)
           run == [i \in 0..n |-> f[1..i]]
<1>1. n \in Nat /\ DOMAIN seq = 1..n
  OBVIOUS
<1>2. IngestBySet(f, start, seq, n)
  BY <1>1, IngestExists
<1>3. FoldLeft(ingest, start, seq) = f[1..n]
  BY <1>1 DEF FoldLeft, MapThenFoldSet, IngestBySet
<1> HIDE DEF f
<1>4. run[0] = start
  <2>1. 1..0 = {} /\ {} \in SUBSET (1..n)
    OBVIOUS
  <2> QED BY <1>1, <1>2, <2>1 DEF IngestBySet
<1>5. ASSUME NEW i \in 1..n PROVE run[i] = ingest(run[i - 1], seq[i])
  <2>1. 1..i \in SUBSET (1..n) /\ 1..i # {}
    BY <1>1
  <2>2. Max(1..i) = i
    <3>1. 1..i \in SUBSET Nat /\ i \in 1..i /\ \A k \in 1..i : k <= i
      BY <1>1
    <3> QED BY <3>1, MaxOf
  <2>3. (1..i) \ {i} = 1..i - 1
    BY <1>1
  <2>4. f[1..i] = ingest(f[1..i - 1], seq[i])
    BY <1>2, <2>1, <2>2, <2>3 DEF IngestBySet
  <2> QED BY <1>1, <2>4
<1>6. DOMAIN run = 0..Len(seq) /\ run[n] = f[1..n]
  BY <1>1
<1> HIDE DEF run
<1>7. IngestRun(run, start, seq)
  BY <1>4, <1>5, <1>6 DEF IngestRun
<1> QED BY <1>3, <1>6, <1>7

\* One element more.
LEMMA IngestAppend ==
  ASSUME NEW start, NEW S, NEW seq \in Seq(S), NEW x \in S
  PROVE  FoldLeft(ingest, start, Append(seq, x)) = ingest(FoldLeft(ingest, start, seq), x)
<1> DEFINE more == Append(seq, x)
           n == Len(seq)
<1>1. /\ more \in Seq(S) /\ Len(more) = n + 1 /\ n \in Nat
      /\ more[n + 1] = x /\ \A i \in 1..n : more[i] = seq[i]
  OBVIOUS
<1>2. PICK short : IngestRun(short, start, seq) /\ FoldLeft(ingest, start, seq) = short[n]
  BY IngestFold
<1> HIDE DEF more
<1>3. PICK long : IngestRun(long, start, more) /\ FoldLeft(ingest, start, more) = long[n + 1]
  BY <1>1, IngestFold
<1> DEFINE Bad == {i \in 0..n : short[i] # long[i]}
<1>4. Bad = {}
  <2> SUFFICES ASSUME Bad # {} PROVE FALSE
    OBVIOUS
  <2>1. Bad \in SUBSET Nat
    OBVIOUS
  <2>2. PICK i \in Bad : \A k \in Bad : i <= k
    BY <2>1, SmallestOf
  <2>3. CASE i = 0
    BY <1>2, <1>3, <2>2, <2>3 DEF IngestRun
  <2>4. CASE i # 0
    <3>1. i \in 1..n /\ i \in 1..n + 1 /\ i - 1 \in 0..n /\ i - 1 \notin Bad
      BY <1>1, <2>2, <2>4
    <3>2. short[i - 1] = long[i - 1] /\ more[i] = seq[i]
      BY <1>1, <3>1
    <3>3. short[i] = ingest(short[i - 1], seq[i]) /\ long[i] = ingest(long[i - 1], more[i])
      BY <1>1, <1>2, <1>3, <3>1 DEF IngestRun
    <3> QED BY <2>2, <3>2, <3>3
  <2> QED BY <2>3, <2>4
<1>5. short[n] = long[n]
  BY <1>1, <1>4
<1>6. long[n + 1] = ingest(long[n], x)
  <2>1. n + 1 \in 1..Len(more) /\ (n + 1) - 1 = n
    BY <1>1
  <2>2. long[n + 1] = ingest(long[(n + 1) - 1], more[n + 1])
    BY <1>3, <2>1 DEF IngestRun
  <2> QED BY <1>1, <2>1, <2>2
<1> QED BY <1>2, <1>3, <1>5, <1>6 DEF more

\* Nothing at all.
LEMMA IngestNothing == ASSUME NEW start PROVE FoldLeft(ingest, start, <<>>) = start
<1>1. <<>> \in Seq({}) /\ Len(<<>>) = 0
  OBVIOUS
<1>2. PICK run : IngestRun(run, start, <<>>) /\ FoldLeft(ingest, start, <<>>) = run[Len(<<>>)]
  BY <1>1, IngestFold
<1> QED BY <1>1, <1>2 DEF IngestRun

---------------------------------------------------------------------------
(* Merging collections *)

\* What merging a sequence of collections makes, as the folding of the community modules
\* defines it: by the subsets of the positions, the largest taken first.
MergeBySet(f, start, seq, n) ==
  f = [s \in SUBSET (1..n) |-> IF s = {} THEN start ELSE merge_collection(f[s \ {Max(s)}], seq[Max(s)])]

LEMMA MergeStep ==
  ASSUME NEW start, NEW seq, NEW n \in Nat, NEW f, MergeBySet(f, start, seq, n)
  PROVE  \E g : MergeBySet(g, start, seq, n + 1)
<1> DEFINE g == [s \in SUBSET (1..n + 1) |->
                   IF n + 1 \in s THEN merge_collection(f[s \ {n + 1}], seq[n + 1]) ELSE f[s]]
<1>1. ASSUME NEW s \in SUBSET (1..n + 1)
      PROVE  g[s] = IF s = {} THEN start ELSE merge_collection(g[s \ {Max(s)}], seq[Max(s)])
  <2>1. CASE n + 1 \in s
    <3>1. Max(s) = n + 1
      <4>1. s \in SUBSET Nat /\ \A k \in s : k <= n + 1
        OBVIOUS
      <4> QED BY <2>1, <4>1, MaxOf
    <3>2. s \ {n + 1} \in SUBSET (1..n + 1) /\ n + 1 \notin s \ {n + 1}
      OBVIOUS
    <3> QED BY <2>1, <3>1, <3>2
  <2>2. CASE n + 1 \notin s
    <3>1. s \in SUBSET (1..n)
      BY <2>2
    <3>2. CASE s = {}
      BY <2>2, <3>1, <3>2 DEF MergeBySet
    <3>3. CASE s # {}
      <4>1. Max(s) \in s
        BY <3>1, <3>3, MaxIn
      <4>2. f[s] = merge_collection(f[s \ {Max(s)}], seq[Max(s)])
        BY <3>1, <3>3 DEF MergeBySet
      <4>3. s \ {Max(s)} \in SUBSET (1..n + 1) /\ n + 1 \notin s \ {Max(s)}
        BY <2>2
      <4>4. g[s \ {Max(s)}] = f[s \ {Max(s)}] /\ g[s] = f[s]
        BY <2>2, <4>3
      <4> QED BY <3>3, <4>2, <4>4
    <3> QED BY <3>2, <3>3
  <2> QED BY <2>1, <2>2
<1> HIDE DEF g
<1>2. DOMAIN g = SUBSET (1..n + 1) /\ g = [s \in DOMAIN g |-> g[s]]
  BY DEF g
<1>3. MergeBySet(g, start, seq, n + 1)
  BY <1>1, <1>2 DEF MergeBySet
<1> QED BY <1>3

LEMMA MergeExists ==
  ASSUME NEW start, NEW seq PROVE \A n \in Nat : \E f : MergeBySet(f, start, seq, n)
<1> DEFINE Bad == {n \in Nat : ~ \E f : MergeBySet(f, start, seq, n)}
<1> SUFFICES ASSUME Bad # {} PROVE FALSE
  OBVIOUS
<1>1. PICK n \in Bad : \A k \in Bad : n <= k
  BY SmallestOf
<1>2. CASE n = 0
  <2> DEFINE f == [s \in SUBSET (1..0) |-> start]
  <2>1. \A s \in SUBSET (1..0) : s = {}
    OBVIOUS
  <2>2. MergeBySet(f, start, seq, 0)
    BY <2>1 DEF MergeBySet
  <2> QED BY <1>2, <2>2
<1>3. CASE n # 0
  <2>1. n - 1 \in Nat /\ n - 1 \notin Bad
    BY <1>1, <1>3
  <2>2. PICK f : MergeBySet(f, start, seq, n - 1)
    BY <2>1
  <2>3. \E g : MergeBySet(g, start, seq, (n - 1) + 1)
    BY <2>1, <2>2, MergeStep
  <2> QED BY <1>1, <2>3
<1> QED BY <1>2, <1>3

\* The same from the left: what has been made after each collection.
MergeRun(run, start, seq) ==
  /\ DOMAIN run = 0..Len(seq) /\ run[0] = start
  /\ \A i \in 1..Len(seq) : run[i] = merge_collection(run[i - 1], seq[i])
LEMMA MergeFold ==
  ASSUME NEW start, NEW S, NEW seq \in Seq(S)
  PROVE  \E run : /\ MergeRun(run, start, seq)
                  /\ FoldLeft(merge_collection, start, seq) = run[Len(seq)]
<1> DEFINE n == Len(seq)
           f == CHOOSE f : MergeBySet(f, start, seq, n)
           run == [i \in 0..n |-> f[1..i]]
<1>1. n \in Nat /\ DOMAIN seq = 1..n
  OBVIOUS
<1>2. MergeBySet(f, start, seq, n)
  BY <1>1, MergeExists
<1>3. FoldLeft(merge_collection, start, seq) = f[1..n]
  BY <1>1 DEF FoldLeft, MapThenFoldSet, MergeBySet
<1> HIDE DEF f
<1>4. run[0] = start
  <2>1. 1..0 = {} /\ {} \in SUBSET (1..n)
    OBVIOUS
  <2> QED BY <1>1, <1>2, <2>1 DEF MergeBySet
<1>5. ASSUME NEW i \in 1..n PROVE run[i] = merge_collection(run[i - 1], seq[i])
  <2>1. 1..i \in SUBSET (1..n) /\ 1..i # {}
    BY <1>1
  <2>2. Max(1..i) = i
    <3>1. 1..i \in SUBSET Nat /\ i \in 1..i /\ \A k \in 1..i : k <= i
      BY <1>1
    <3> QED BY <3>1, MaxOf
  <2>3. (1..i) \ {i} = 1..i - 1
    BY <1>1
  <2>4. f[1..i] = merge_collection(f[1..i - 1], seq[i])
    BY <1>2, <2>1, <2>2, <2>3 DEF MergeBySet
  <2> QED BY <1>1, <2>4
<1>6. DOMAIN run = 0..Len(seq) /\ run[n] = f[1..n]
  BY <1>1
<1> HIDE DEF run
<1>7. MergeRun(run, start, seq)
  BY <1>4, <1>5, <1>6 DEF MergeRun
<1> QED BY <1>3, <1>6, <1>7

\* One element more.
LEMMA MergeAppend ==
  ASSUME NEW start, NEW S, NEW seq \in Seq(S), NEW x \in S
  PROVE  FoldLeft(merge_collection, start, Append(seq, x)) = merge_collection(FoldLeft(merge_collection, start, seq), x)
<1> DEFINE more == Append(seq, x)
           n == Len(seq)
<1>1. /\ more \in Seq(S) /\ Len(more) = n + 1 /\ n \in Nat
      /\ more[n + 1] = x /\ \A i \in 1..n : more[i] = seq[i]
  OBVIOUS
<1>2. PICK short : MergeRun(short, start, seq) /\ FoldLeft(merge_collection, start, seq) = short[n]
  BY MergeFold
<1> HIDE DEF more
<1>3. PICK long : MergeRun(long, start, more) /\ FoldLeft(merge_collection, start, more) = long[n + 1]
  BY <1>1, MergeFold
<1> DEFINE Bad == {i \in 0..n : short[i] # long[i]}
<1>4. Bad = {}
  <2> SUFFICES ASSUME Bad # {} PROVE FALSE
    OBVIOUS
  <2>1. Bad \in SUBSET Nat
    OBVIOUS
  <2>2. PICK i \in Bad : \A k \in Bad : i <= k
    BY <2>1, SmallestOf
  <2>3. CASE i = 0
    BY <1>2, <1>3, <2>2, <2>3 DEF MergeRun
  <2>4. CASE i # 0
    <3>1. i \in 1..n /\ i \in 1..n + 1 /\ i - 1 \in 0..n /\ i - 1 \notin Bad
      BY <1>1, <2>2, <2>4
    <3>2. short[i - 1] = long[i - 1] /\ more[i] = seq[i]
      BY <1>1, <3>1
    <3>3. short[i] = merge_collection(short[i - 1], seq[i]) /\ long[i] = merge_collection(long[i - 1], more[i])
      BY <1>1, <1>2, <1>3, <3>1 DEF MergeRun
    <3> QED BY <2>2, <3>2, <3>3
  <2> QED BY <2>3, <2>4
<1>5. short[n] = long[n]
  BY <1>1, <1>4
<1>6. long[n + 1] = merge_collection(long[n], x)
  <2>1. n + 1 \in 1..Len(more) /\ (n + 1) - 1 = n
    BY <1>1
  <2>2. long[n + 1] = merge_collection(long[(n + 1) - 1], more[n + 1])
    BY <1>3, <2>1 DEF MergeRun
  <2> QED BY <1>1, <2>1, <2>2
<1> QED BY <1>2, <1>3, <1>5, <1>6 DEF more

\* Nothing at all.
LEMMA MergeNothing == ASSUME NEW start PROVE FoldLeft(merge_collection, start, <<>>) = start
<1>1. <<>> \in Seq({}) /\ Len(<<>>) = 0
  OBVIOUS
<1>2. PICK run : MergeRun(run, start, <<>>) /\ FoldLeft(merge_collection, start, <<>>) = run[Len(<<>>)]
  BY <1>1, MergeFold
<1> QED BY <1>1, <1>2 DEF MergeRun

---------------------------------------------------------------------------
(* Flattening *)

FlattenRun(f, seqs, n) ==
  f = [i \in 1..n |-> IF i = 1 THEN seqs[i] ELSE f[i - 1] \o seqs[i]]

LEMMA FlattenExists == ASSUME NEW seqs PROVE \A n \in Nat : \E f : FlattenRun(f, seqs, n)
<1> DEFINE Bad == {n \in Nat : ~ \E f : FlattenRun(f, seqs, n)}
<1> SUFFICES ASSUME Bad # {} PROVE FALSE
  OBVIOUS
<1>1. PICK n \in Bad : \A k \in Bad : n <= k
  BY SmallestOf
<1>2. CASE n = 0
  <2> DEFINE f == [i \in 1..0 |-> seqs]
  <2>1. FlattenRun(f, seqs, 0)
    BY DEF FlattenRun
  <2> QED BY <1>2, <2>1
<1>3. CASE n # 0
  <2>1. n - 1 \in Nat /\ n - 1 \notin Bad /\ n \in Nat
    BY <1>1, <1>3
  <2>2. PICK f : FlattenRun(f, seqs, n - 1)
    BY <2>1
  <2> DEFINE g == [i \in 1..n |-> IF i = n THEN (IF n = 1 THEN seqs[n] ELSE f[n - 1] \o seqs[n]) ELSE f[i]]
  <2>3. ASSUME NEW i \in 1..n PROVE g[i] = IF i = 1 THEN seqs[i] ELSE g[i - 1] \o seqs[i]
    <3>1. CASE i = n
      <4>1. n # 1 => n - 1 \in 1..n /\ n - 1 # n
        BY <2>1, <3>1
      <4> QED BY <3>1, <4>1
    <3>2. CASE i # n
      <4>1. i \in 1..n - 1 /\ (i # 1 => i - 1 \in 1..n /\ i - 1 # n)
        BY <2>1, <3>2
      <4>2. f[i] = IF i = 1 THEN seqs[i] ELSE f[i - 1] \o seqs[i]
        BY <2>2, <4>1 DEF FlattenRun
      <4> QED BY <3>2, <4>1, <4>2
    <3> QED BY <3>1, <3>2
  <2>4. DOMAIN g = 1..n /\ g = [i \in DOMAIN g |-> g[i]]
    OBVIOUS
  <2> HIDE DEF g
  <2>5. FlattenRun(g, seqs, n)
    BY <2>3, <2>4 DEF FlattenRun
  <2> QED BY <1>1, <2>5
<1> QED BY <1>2, <1>3

LEMMA FlattenIs ==
  ASSUME NEW S, NEW seqs \in Seq(S), seqs # <<>>
  PROVE  \E f : FlattenRun(f, seqs, Len(seqs)) /\ FlattenSeq(seqs) = f[Len(seqs)]
<1> DEFINE n == Len(seqs)
           f == CHOOSE f : FlattenRun(f, seqs, n)
<1>1. n \in Nat /\ n # 0
  OBVIOUS
<1>2. FlattenRun(f, seqs, n)
  BY <1>1, FlattenExists
<1>3. FlattenSeq(seqs) = f[n]
  BY <1>1 DEF FlattenSeq, FlattenRun
<1> QED BY <1>2, <1>3

LEMMA FlattenType == ASSUME NEW W, NEW seqs \in Seq(Seq(W)) PROVE FlattenSeq(seqs) \in Seq(W)
<1>1. CASE seqs = <<>>
  BY <1>1 DEF FlattenSeq
<1>2. CASE seqs # <<>>
  <2> DEFINE n == Len(seqs)
  <2>1. n \in Nat /\ n # 0
    BY <1>2
  <2>2. PICK f : FlattenRun(f, seqs, n) /\ FlattenSeq(seqs) = f[n]
    BY <1>2, FlattenIs
  <2> DEFINE Bad == {i \in 1..n : f[i] \notin Seq(W)}
  <2>3. Bad = {}
    <3> SUFFICES ASSUME Bad # {} PROVE FALSE
      OBVIOUS
    <3>1. Bad \in SUBSET Nat
      OBVIOUS
    <3>2. PICK i \in Bad : \A k \in Bad : i <= k
      BY <3>1, SmallestOf
    <3>3. seqs[i] \in Seq(W)
      OBVIOUS
    <3>4. CASE i = 1
      BY <2>2, <3>2, <3>3, <3>4 DEF FlattenRun
    <3>5. CASE i # 1
      <4>1. i - 1 \in 1..n /\ i - 1 \notin Bad
        BY <2>1, <3>2, <3>5
      <4>2. f[i] = f[i - 1] \o seqs[i]
        BY <2>2, <3>5 DEF FlattenRun
      <4>3. f[i - 1] \in Seq(W)
        BY <4>1
      <4> DEFINE before == f[i - 1]
                 part == seqs[i]
      <4> HIDE DEF before, part
      <4>4. before \in Seq(W) /\ part \in Seq(W) /\ f[i] = before \o part
        BY <3>3, <4>2, <4>3 DEF before, part
      <4>5. before \o part \in Seq(W)
        BY <4>4
      <4> QED BY <3>2, <4>4, <4>5
    <3> QED BY <3>4, <3>5
  <2> QED BY <2>1, <2>2, <2>3
<1> QED BY <1>1, <1>2

LEMMA FlattenAppend ==
  ASSUME NEW W, NEW seqs \in Seq(Seq(W)), NEW x \in Seq(W)
  PROVE  FlattenSeq(Append(seqs, x)) = FlattenSeq(seqs) \o x
<1> DEFINE more == Append(seqs, x)
           n == Len(seqs)
<1>1. /\ more \in Seq(Seq(W)) /\ Len(more) = n + 1 /\ n \in Nat /\ more # <<>>
      /\ more[n + 1] = x /\ \A i \in 1..n : more[i] = seqs[i]
  BY AppendProperties
<1> HIDE DEF more
<1>2. PICK long : FlattenRun(long, more, n + 1) /\ FlattenSeq(more) = long[n + 1]
  BY <1>1, FlattenIs
<1>3. CASE seqs = <<>>
  <2>1. n = 0 /\ FlattenSeq(seqs) = <<>>
    BY <1>3 DEF FlattenSeq
  <2>2. long[1] = more[1]
    BY <1>2, <2>1 DEF FlattenRun
  <2> QED BY <1>1, <1>2, <2>1, <2>2 DEF more
<1>4. CASE seqs # <<>>
  <2>1. n # 0
    BY <1>4
  <2>2. PICK short : FlattenRun(short, seqs, n) /\ FlattenSeq(seqs) = short[n]
    BY <1>4, FlattenIs
  <2> DEFINE Bad == {i \in 1..n : short[i] # long[i]}
  <2>3. Bad = {}
    <3> SUFFICES ASSUME Bad # {} PROVE FALSE
      OBVIOUS
    <3>1. Bad \in SUBSET Nat
      OBVIOUS
    <3>2. PICK i \in Bad : \A k \in Bad : i <= k
      BY <3>1, SmallestOf
    <3>3. i \in 1..n /\ i \in 1..n + 1 /\ more[i] = seqs[i]
      BY <1>1
    <3>4. CASE i = 1
      BY <1>2, <2>2, <3>2, <3>3, <3>4 DEF FlattenRun
    <3>5. CASE i # 1
      <4>1. i - 1 \in 1..n /\ i - 1 \notin Bad
        BY <1>1, <3>2, <3>3, <3>5
      <4>2. short[i] = short[i - 1] \o seqs[i] /\ long[i] = long[i - 1] \o more[i]
        BY <1>2, <2>2, <3>3, <3>5 DEF FlattenRun
      <4> QED BY <3>2, <3>3, <4>1, <4>2
    <3> QED BY <3>4, <3>5
  <2>4. long[n] = short[n]
    <3>1. n \in 1..n
      BY <1>1, <2>1
    <3>2. ~(n \in 1..n /\ short[n] # long[n])
      BY <2>3
    <3> QED BY <3>1, <3>2
  <2>5. long[n + 1] = long[n] \o more[n + 1]
    <3>1. n + 1 \in 1..n + 1 /\ n + 1 # 1 /\ (n + 1) - 1 = n
      BY <1>1, <2>1
    <3>2. long[n + 1] = long[(n + 1) - 1] \o more[n + 1]
      BY <1>2, <3>1 DEF FlattenRun
    <3> QED BY <3>1, <3>2
  <2> QED BY <1>1, <1>2, <2>2, <2>4, <2>5 DEF more
<1> QED BY <1>3, <1>4

---------------------------------------------------------------------------
(* Mentions, and what is made of them.  N is a set of names and V one of   *)
(* values.                                                                 *)

MentionOf(N, V) == ({"pos"} \X V) \cup ({"kw"} \X N \X V)
ItemOf(N, V) == ({"pos"} \X V) \cup ({"kw"} \X N)
\* The keywords among the items are those that have a value.
ArgsOf(N, V) ==
  {y \in [items : Seq(ItemOf(N, V)), kwvalues : UNION {[D -> V] : D \in SUBSET N}] :
     /\ \A i \in DOMAIN y.items : y.items[i][1] = "kw" => y.items[i][2] \in DOMAIN y.kwvalues
     /\ \A n \in DOMAIN y.kwvalues : \E i \in DOMAIN y.items : y.items[i] = <<"kw", n>>}

LEMMA EmptyType == ASSUME NEW N, NEW V PROVE EmptyArgs \in ArgsOf(N, V)
<1> DEFINE none == <<>>
<1>1. none \in Seq(ItemOf(N, V)) /\ DOMAIN none = {} /\ none \in [{} -> V]
  OBVIOUS
<1>2. EmptyArgs = [items |-> none, kwvalues |-> none]
  BY DEF EmptyArgs
<1> HIDE DEF none
<1>3. none \in UNION {[D -> V] : D \in SUBSET N}
  BY <1>1
<1> QED BY <1>1, <1>2, <1>3 DEF ArgsOf

\* An element of ArgsOf from its parts, and the parts of one.
LEMMA ArgsParts ==
  ASSUME NEW N, NEW V, NEW y \in ArgsOf(N, V)
  PROVE  /\ y = [items |-> y.items, kwvalues |-> y.kwvalues]
         /\ y.items \in Seq(ItemOf(N, V))
         /\ DOMAIN y.kwvalues \in SUBSET N /\ y.kwvalues \in [DOMAIN y.kwvalues -> V]
         /\ \A i \in DOMAIN y.items : y.items[i][1] = "kw" => y.items[i][2] \in DOMAIN y.kwvalues
         /\ \A n \in DOMAIN y.kwvalues : \E i \in DOMAIN y.items : y.items[i] = <<"kw", n>>
BY DEF ArgsOf

LEMMA ArgsMade ==
  ASSUME NEW N, NEW V, NEW items \in Seq(ItemOf(N, V)), NEW D \in SUBSET N, NEW values \in [D -> V],
         \A i \in DOMAIN items : items[i][1] = "kw" => items[i][2] \in D,
         \A n \in D : \E i \in DOMAIN items : items[i] = <<"kw", n>>
  PROVE  [items |-> items, kwvalues |-> values] \in ArgsOf(N, V)
<1>1. values \in UNION {[E -> V] : E \in SUBSET N}
  OBVIOUS
<1> QED BY <1>1 DEF ArgsOf

LEMMA MentionIs ==
  ASSUME NEW N, NEW V, NEW m \in MentionOf(N, V)
  PROVE  \/ m[1] = "pos" /\ m[2] \in V /\ m = <<"pos", m[2]>>
         \/ m[1] = "kw" /\ m[2] \in N /\ m[3] \in V /\ m = <<"kw", m[2], m[3]>>
BY DEF MentionOf

LEMMA ItemIs ==
  ASSUME NEW N, NEW V, NEW item \in ItemOf(N, V)
  PROVE  \/ item[1] = "pos" /\ item[2] \in V /\ item = <<"pos", item[2]>>
         \/ item[1] = "kw" /\ item[2] \in N /\ item = <<"kw", item[2]>>
BY DEF ItemOf

\* What each kind of mention changes.
LEMMA IngestPositional ==
  ASSUME NEW N, NEW V, NEW y \in ArgsOf(N, V), NEW m \in MentionOf(N, V), m[1] = "pos",
         NEW z, z = ingest(y, m)
  PROVE  /\ z \in ArgsOf(N, V)
         /\ z.items = Append(y.items, m) /\ z.kwvalues = y.kwvalues
<1>1. y = [items |-> y.items, kwvalues |-> y.kwvalues]
  BY ArgsParts
<1>2. m = <<"pos", m[2]>> /\ m[2] \in V /\ m \in ItemOf(N, V)
  BY MentionIs DEF ItemOf
<1> DEFINE items == y.items
           values == y.kwvalues
           more == Append(items, m)
<1>3. ingest(y, m) = [y EXCEPT !.items = more]
  BY <1>2 DEF ingest, ingest_regular
<1>4. /\ items \in Seq(ItemOf(N, V)) /\ DOMAIN values \in SUBSET N /\ values \in [DOMAIN values -> V]
      /\ \A i \in DOMAIN items : items[i][1] = "kw" => items[i][2] \in DOMAIN values
      /\ \A n \in DOMAIN values : \E i \in DOMAIN items : items[i] = <<"kw", n>>
  <2>1. \A n \in DOMAIN values : \E i \in DOMAIN items : items[i] = <<"kw", n>>
    BY DEF ArgsOf
  <2> QED BY <2>1, ArgsParts
<1>5. y = [items |-> items, kwvalues |-> values]
  BY <1>1
<1> HIDE DEF items, values
<1>6. /\ more \in Seq(ItemOf(N, V)) /\ DOMAIN more = 1..Len(items) + 1 /\ DOMAIN items = 1..Len(items)
      /\ Len(items) \in Nat
      /\ more[Len(items) + 1] = m /\ \A i \in DOMAIN items : more[i] = items[i]
  BY <1>2, <1>4, AppendProperties
<1> HIDE DEF more
<1>7. ingest(y, m) = [items |-> more, kwvalues |-> values]
  BY <1>3, <1>5
<1>8. [items |-> more, kwvalues |-> values] \in ArgsOf(N, V)
  <2>1. \A i \in DOMAIN more : more[i][1] = "kw" => more[i][2] \in DOMAIN values
    BY <1>2, <1>4, <1>6
  <2>2. ASSUME NEW n \in DOMAIN values PROVE \E i \in DOMAIN more : more[i] = <<"kw", n>>
    <3>1. PICK i \in DOMAIN items : items[i] = <<"kw", n>>
      BY <1>4
    <3>2. i \in DOMAIN more /\ more[i] = <<"kw", n>>
      BY <1>6, <3>1
    <3> QED BY <3>2
  <2> QED BY <1>4, <1>6, <2>1, <2>2, ArgsMade
<1>9. z.items = more /\ z.kwvalues = values
  BY <1>7
<1> QED BY <1>7, <1>8, <1>9 DEF items, values, more

Takes(y, m, z) ==
  /\ z.items = IF m[2] \in DOMAIN y.kwvalues THEN y.items ELSE Append(y.items, <<"kw", m[2]>>)
  /\ DOMAIN z.kwvalues = DOMAIN y.kwvalues \cup {m[2]}
  /\ z.kwvalues[m[2]] = m[3]
  /\ \A n \in DOMAIN y.kwvalues \ {m[2]} : z.kwvalues[n] = y.kwvalues[n]
LEMMA IngestKeyword ==
  ASSUME NEW N, NEW V, NEW y \in ArgsOf(N, V), NEW m \in MentionOf(N, V), m[1] = "kw",
         NEW z, z = ingest(y, m)
  PROVE  z \in ArgsOf(N, V) /\ Takes(y, m, z)
<1> DEFINE name == m[2]
           items == y.items
           values == y.kwvalues
           more == IF name \in DOMAIN values THEN items ELSE Append(items, <<"kw", name>>)
           new == Entry(name, m[3]) ++ values
<1>1. /\ items \in Seq(ItemOf(N, V)) /\ DOMAIN values \in SUBSET N /\ values \in [DOMAIN values -> V]
      /\ \A i \in DOMAIN items : items[i][1] = "kw" => items[i][2] \in DOMAIN values
      /\ \A n \in DOMAIN values : \E i \in DOMAIN items : items[i] = <<"kw", n>>
  <2>1. \A n \in DOMAIN values : \E i \in DOMAIN items : items[i] = <<"kw", n>>
    BY DEF ArgsOf
  <2> QED BY <2>1, ArgsParts
<1>2. name \in N /\ m[3] \in V
  BY MentionIs
<1>3. ingest(y, m) = [items |-> more, kwvalues |-> new]
  BY DEF ingest, ingest_keyword
<1> HIDE DEF items, values, name
<1>4. /\ DOMAIN new = DOMAIN values \cup {name} /\ new[name] = m[3]
      /\ \A n \in DOMAIN values \ {name} : new[n] = values[n]
      /\ new \in [DOMAIN values \cup {name} -> V]
  BY <1>1, <1>2 DEF ++, Entry
<1>5. /\ more \in Seq(ItemOf(N, V))
      /\ \A i \in DOMAIN more : more[i][1] = "kw" => more[i][2] \in DOMAIN new
      /\ \A n \in DOMAIN new : \E i \in DOMAIN more : more[i] = <<"kw", n>>
  <2>1. CASE name \in DOMAIN values
    BY <1>1, <1>4, <2>1
  <2>2. CASE name \notin DOMAIN values
    <3>1. <<"kw", name>> \in ItemOf(N, V)
      BY <1>2 DEF ItemOf
    <3> DEFINE x == <<"kw", name>>
    <3>2. x[1] = "kw" /\ x[2] = name /\ x \in ItemOf(N, V) /\ more = Append(items, x)
      BY <2>2, <3>1
    <3> HIDE DEF x
    <3>3. /\ more \in Seq(ItemOf(N, V)) /\ DOMAIN more = 1..Len(items) + 1 /\ DOMAIN items = 1..Len(items)
          /\ Len(items) \in Nat
          /\ more[Len(items) + 1] = x /\ \A i \in DOMAIN items : more[i] = items[i]
      BY <1>1, <3>2, AppendProperties
    <3> HIDE DEF more
    <3>4. \A i \in DOMAIN more : more[i][1] = "kw" => more[i][2] \in DOMAIN new
      BY <1>1, <1>4, <3>2, <3>3
    <3>5. ASSUME NEW n \in DOMAIN new PROVE \E i \in DOMAIN more : more[i] = <<"kw", n>>
      <4>1. CASE n = name
        BY <3>3, <4>1 DEF x
      <4>2. CASE n # name
        <5>1. PICK i \in DOMAIN items : items[i] = <<"kw", n>>
          BY <1>1, <1>4, <4>2
        <5>2. i \in DOMAIN more /\ more[i] = <<"kw", n>>
          BY <3>3, <5>1
        <5> QED BY <5>2
      <4> QED BY <4>1, <4>2
    <3> QED BY <3>3, <3>4, <3>5
  <2> QED BY <2>1, <2>2
<1> HIDE DEF new, more
<1>6. [items |-> more, kwvalues |-> new] \in ArgsOf(N, V)
  <2>1. DOMAIN new \in SUBSET N /\ new \in [DOMAIN new -> V]
    BY <1>1, <1>2, <1>4
  <2> QED BY <1>5, <2>1, ArgsMade
<1>7. z.items = more /\ z.kwvalues = new
  BY <1>3
<1> QED BY <1>3, <1>4, <1>6, <1>7 DEF more, name, items, values, Takes

LEMMA IngestType ==
  ASSUME NEW N, NEW V, NEW y \in ArgsOf(N, V), NEW m \in MentionOf(N, V)
  PROVE  ingest(y, m) \in ArgsOf(N, V)
<1>1. m[1] = "pos" \/ m[1] = "kw"
  BY MentionIs
<1> QED BY <1>1, IngestPositional, IngestKeyword

LEMMA RunType ==
  ASSUME NEW N, NEW V, NEW start \in ArgsOf(N, V), NEW u \in Seq(MentionOf(N, V)),
         NEW run, IngestRun(run, start, u)
  PROVE  \A i \in 0..Len(u) : run[i] \in ArgsOf(N, V)
<1> DEFINE Bad == {i \in 0..Len(u) : run[i] \notin ArgsOf(N, V)}
<1> SUFFICES ASSUME Bad # {} PROVE FALSE
  OBVIOUS
<1>1. Bad \in SUBSET Nat
  OBVIOUS
<1>2. PICK i \in Bad : \A k \in Bad : i <= k
  BY <1>1, SmallestOf
<1>3. CASE i = 0
  BY <1>2, <1>3 DEF IngestRun
<1>4. CASE i # 0
  <2>1. i \in 1..Len(u) /\ i - 1 \in 0..Len(u) /\ i - 1 \notin Bad
    BY <1>2, <1>4
  <2>2. run[i] = ingest(run[i - 1], u[i]) /\ u[i] \in MentionOf(N, V) /\ run[i - 1] \in ArgsOf(N, V)
    BY <2>1 DEF IngestRun
  <2> QED BY <1>2, <2>2, IngestType
<1> QED BY <1>3, <1>4

\* Everything a sequence mentions, taken in order.
Taken(start, u) == FoldLeft(ingest, start, u)
LEMMA TakenRun ==
  ASSUME NEW start, NEW S, NEW u \in Seq(S)
  PROVE  \E run : IngestRun(run, start, u) /\ Taken(start, u) = run[Len(u)]
<1>1. \E run : IngestRun(run, start, u) /\ FoldLeft(ingest, start, u) = run[Len(u)]
  BY IngestFold
<1>2. Taken(start, u) = FoldLeft(ingest, start, u)
  BY DEF Taken
<1> QED BY <1>1, <1>2

LEMMA TakenAppend ==
  ASSUME NEW start, NEW S, NEW u \in Seq(S), NEW m \in S
  PROVE  Taken(start, Append(u, m)) = ingest(Taken(start, u), m)
BY IngestAppend, Zenon DEF Taken

LEMMA TakenNothing == ASSUME NEW start PROVE Taken(start, <<>>) = start
BY IngestNothing DEF Taken

Canon(u) == Taken(EmptyArgs, u)
LEMMA TakenType ==
  ASSUME NEW N, NEW V, NEW start \in ArgsOf(N, V), NEW u \in Seq(MentionOf(N, V))
  PROVE  Taken(start, u) \in ArgsOf(N, V)
<1>1. PICK run : IngestRun(run, start, u) /\ Taken(start, u) = run[Len(u)]
  BY TakenRun
<1>2. Len(u) \in 0..Len(u)
  OBVIOUS
<1> QED BY <1>1, <1>2, RunType

LEMMA MentionedType ==
  ASSUME NEW N, NEW V, NEW y \in ArgsOf(N, V)
  PROVE  /\ Mentioned(y) \in Seq(MentionOf(N, V)) /\ DOMAIN Mentioned(y) = DOMAIN y.items
         /\ Len(Mentioned(y)) = Len(y.items)
         /\ \A i \in DOMAIN y.items :
              Mentioned(y)[i] = IF y.items[i][1] = "pos" THEN y.items[i]
                                ELSE <<"kw", y.items[i][2], y.kwvalues[y.items[i][2]]>>
<1> DEFINE items == y.items
           values == y.kwvalues
           mention(i) == IF items[i][1] = "pos" THEN items[i] ELSE <<"kw", items[i][2], values[items[i][2]]>>
           said == [i \in DOMAIN items |-> mention(i)]
<1>1. /\ items \in Seq(ItemOf(N, V)) /\ DOMAIN values \in SUBSET N /\ values \in [DOMAIN values -> V]
      /\ \A i \in DOMAIN items : items[i][1] = "kw" => items[i][2] \in DOMAIN values
  BY ArgsParts
<1>2. Mentioned(y) = said
  BY DEF Mentioned
<1> HIDE DEF items, values
<1>3. ASSUME NEW i \in DOMAIN items PROVE mention(i) \in MentionOf(N, V)
  <2>1. items[i] \in ItemOf(N, V)
    BY <1>1
  <2>2. CASE items[i][1] = "pos"
    <3>1. items[i] = <<"pos", items[i][2]>> /\ items[i][2] \in V
      BY <2>1, <2>2, ItemIs
    <3> QED BY <2>2, <3>1 DEF MentionOf
  <2>3. CASE items[i][1] # "pos"
    <3>1. items[i][1] = "kw" /\ items[i][2] \in N
      BY <2>1, <2>3, ItemIs
    <3>2. values[items[i][2]] \in V
      BY <1>1, <3>1
    <3> QED BY <2>3, <3>1, <3>2 DEF MentionOf
  <2> QED BY <2>2, <2>3
<1>4. said \in [1..Len(items) -> MentionOf(N, V)] /\ DOMAIN items = 1..Len(items) /\ Len(items) \in Nat
  BY <1>1, <1>3
<1>5. said \in Seq(MentionOf(N, V)) /\ Len(said) = Len(items)
  BY <1>4
<1> QED BY <1>2, <1>4, <1>5 DEF items, values

LEMMA ArgsEqual ==
  ASSUME NEW N, NEW V, NEW y \in ArgsOf(N, V), NEW z \in ArgsOf(N, V), y.items = z.items,
         DOMAIN y.kwvalues = DOMAIN z.kwvalues,
         \A n \in DOMAIN y.kwvalues : y.kwvalues[n] = z.kwvalues[n]
  PROVE  y = z
<1> DEFINE one == y.kwvalues
           other == z.kwvalues
<1>1. one \in [DOMAIN one -> V] /\ other \in [DOMAIN other -> V]
  BY ArgsParts
<1>2. one = other
  BY <1>1
<1>3. y = [items |-> y.items, kwvalues |-> y.kwvalues] /\ z = [items |-> z.items, kwvalues |-> z.kwvalues]
  BY ArgsParts
<1> QED BY <1>2, <1>3

\* A keyword that is already there may as well have had its new value from the start.
Renewed(w, w2, m) ==
  /\ Len(w2) = Len(w)
  /\ \A i \in 1..Len(w) : w2[i] = IF w[i][1] = "kw" /\ w[i][2] = m[2] THEN m ELSE w[i]
  /\ \E i \in 1..Len(w) : w[i][1] = "kw" /\ w[i][2] = m[2]
LEMMA Override ==
  ASSUME NEW N, NEW V, NEW x \in ArgsOf(N, V), NEW w \in Seq(MentionOf(N, V)),
         NEW m \in MentionOf(N, V), m[1] = "kw",
         NEW w2 \in Seq(MentionOf(N, V)), Renewed(w, w2, m)
  PROVE  Taken(x, w2) = ingest(Taken(x, w), m)
<1> DEFINE n == Len(w)
           name == m[2]
           seen(i) == \E j \in 1..i : w[j][1] = "kw" /\ w[j][2] = name
<1>0. /\ Len(w2) = Len(w)
      /\ \A i \in 1..Len(w) : w2[i] = IF w[i][1] = "kw" /\ w[i][2] = m[2] THEN m ELSE w[i]
      /\ \E i \in 1..Len(w) : w[i][1] = "kw" /\ w[i][2] = m[2]
  BY DEF Renewed
<1>1. n \in Nat
  OBVIOUS
<1>2. PICK r : IngestRun(r, x, w) /\ Taken(x, w) = r[n]
  BY TakenRun
<1>3. PICK s : IngestRun(s, x, w2) /\ Taken(x, w2) = s[Len(w2)]
  BY TakenRun
<1>4. \A i \in 0..n : r[i] \in ArgsOf(N, V) /\ s[i] \in ArgsOf(N, V)
  <2>1. \A i \in 0..Len(w) : r[i] \in ArgsOf(N, V)
    BY <1>2, RunType
  <2>2. \A i \in 0..Len(w2) : s[i] \in ArgsOf(N, V)
    BY <1>3, RunType
  <2> QED BY <1>0, <2>1, <2>2
<1> DEFINE Same(i) == /\ s[i].items = r[i].items /\ DOMAIN s[i].kwvalues = DOMAIN r[i].kwvalues
                      /\ \A k \in DOMAIN r[i].kwvalues \ {name} : s[i].kwvalues[k] = r[i].kwvalues[k]
                      /\ seen(i) => name \in DOMAIN r[i].kwvalues /\ s[i].kwvalues[name] = m[3]
           Bad == {i \in 0..n : ~Same(i)}
<1>5. Bad = {}
  <2> SUFFICES ASSUME Bad # {} PROVE FALSE
    OBVIOUS
  <2>1. Bad \in SUBSET Nat
    OBVIOUS
  <2>2. PICK i \in Bad : \A k \in Bad : i <= k
    BY <2>1, SmallestOf
  <2>3. CASE i = 0
    <3>1. r[0] = x /\ s[0] = x /\ ~seen(0)
      BY <1>2, <1>3 DEF IngestRun
    <3> QED BY <2>2, <2>3, <3>1
  <2>4. CASE i # 0
    <3>1. i \in 1..n /\ i - 1 \in 0..n /\ i - 1 \notin Bad
      BY <2>2, <2>4
    <3> DEFINE y == r[i - 1]
               z == s[i - 1]
    <3>2. /\ y \in ArgsOf(N, V) /\ z \in ArgsOf(N, V) /\ w[i] \in MentionOf(N, V) /\ w2[i] \in MentionOf(N, V)
          /\ r[i] = ingest(y, w[i]) /\ s[i] = ingest(z, w2[i])
          /\ w2[i] = IF w[i][1] = "kw" /\ w[i][2] = name THEN m ELSE w[i]
      BY <1>0, <1>2, <1>3, <1>4, <3>1 DEF IngestRun
    <3>3. /\ z.items = y.items /\ DOMAIN z.kwvalues = DOMAIN y.kwvalues
          /\ \A k \in DOMAIN y.kwvalues \ {name} : z.kwvalues[k] = y.kwvalues[k]
          /\ seen(i - 1) => name \in DOMAIN y.kwvalues /\ z.kwvalues[name] = m[3]
      BY <3>1
    <3>4. seen(i) <=> seen(i - 1) \/ (w[i][1] = "kw" /\ w[i][2] = name)
      BY <1>1, <3>1
    <3> HIDE DEF y, z, seen
    <3>5. Same(i)
      <4>1. CASE w[i][1] = "pos"
        <5>1. w2[i] = w[i]
          BY <3>2, <4>1
        <5>2. r[i].items = Append(y.items, w[i]) /\ r[i].kwvalues = y.kwvalues
          BY <3>2, <4>1, IngestPositional
        <5>3. s[i].items = Append(z.items, w[i]) /\ s[i].kwvalues = z.kwvalues
          BY <3>2, <4>1, <5>1, IngestPositional
        <5> QED BY <3>3, <3>4, <4>1, <5>2, <5>3
      <4>2. CASE w[i][1] = "kw"
        <5>1. w2[i][1] = "kw" /\ w2[i][2] = w[i][2]
          BY <3>2, <4>2
        <5>2. /\ r[i].items = IF w[i][2] \in DOMAIN y.kwvalues THEN y.items ELSE Append(y.items, <<"kw", w[i][2]>>)
              /\ DOMAIN r[i].kwvalues = DOMAIN y.kwvalues \cup {w[i][2]}
              /\ r[i].kwvalues[w[i][2]] = w[i][3]
              /\ \A k \in DOMAIN y.kwvalues \ {w[i][2]} : r[i].kwvalues[k] = y.kwvalues[k]
          BY <3>2, <4>2, IngestKeyword DEF Takes
        <5>3. /\ s[i].items = IF w2[i][2] \in DOMAIN z.kwvalues THEN z.items ELSE Append(z.items, <<"kw", w2[i][2]>>)
              /\ DOMAIN s[i].kwvalues = DOMAIN z.kwvalues \cup {w2[i][2]}
              /\ s[i].kwvalues[w2[i][2]] = w2[i][3]
              /\ \A k \in DOMAIN z.kwvalues \ {w2[i][2]} : s[i].kwvalues[k] = z.kwvalues[k]
          BY <3>2, <5>1, IngestKeyword DEF Takes
        <5>4. s[i].items = r[i].items /\ DOMAIN s[i].kwvalues = DOMAIN r[i].kwvalues
          BY <3>3, <5>1, <5>2, <5>3
        <5>5. CASE w[i][2] = name
          <6>1. w2[i] = m
            BY <3>2, <4>2, <5>5
          <6> QED BY <3>3, <3>4, <5>1, <5>2, <5>3, <5>4, <5>5, <6>1
        <5>6. CASE w[i][2] # name
          <6>1. w2[i] = w[i]
            BY <3>2, <5>6
          <6> QED BY <3>3, <3>4, <5>1, <5>2, <5>3, <5>4, <5>6, <6>1
        <5> QED BY <5>5, <5>6
      <4> QED BY <3>2, <4>1, <4>2, MentionIs
    <3> QED BY <2>2, <3>5
  <2> QED BY <2>3, <2>4
<1>6. n \in 0..n /\ seen(n)
  BY <1>0, <1>1
<1>7. Same(n)
  <2>1. n \notin Bad
    BY <1>5
  <2> QED BY <1>6, <2>1
<1> DEFINE z == ingest(r[n], m)
<1> HIDE DEF z
<1>8. /\ z \in ArgsOf(N, V)
      /\ z.items = r[n].items
      /\ DOMAIN z.kwvalues = DOMAIN r[n].kwvalues
      /\ z.kwvalues[name] = m[3]
      /\ \A k \in DOMAIN r[n].kwvalues \ {name} : z.kwvalues[k] = r[n].kwvalues[k]
  <2>1. r[n] \in ArgsOf(N, V) /\ name \in DOMAIN r[n].kwvalues
    BY <1>4, <1>6, <1>7
  <2>2. /\ z \in ArgsOf(N, V)
        /\ z.items = IF m[2] \in DOMAIN r[n].kwvalues THEN r[n].items ELSE Append(r[n].items, <<"kw", m[2]>>)
        /\ DOMAIN z.kwvalues = DOMAIN r[n].kwvalues \cup {m[2]}
        /\ z.kwvalues[m[2]] = m[3]
        /\ \A k \in DOMAIN r[n].kwvalues \ {m[2]} : z.kwvalues[k] = r[n].kwvalues[k]
    <3>1. z = ingest(r[n], m)
      BY DEF z
    <3>2. Takes(r[n], m, z) /\ z \in ArgsOf(N, V)
      BY <2>1, <3>1, IngestKeyword
    <3> QED BY <3>2 DEF Takes
  <2> QED BY <2>1, <2>2
<1>9. s[n] = z
  BY <1>4, <1>6, <1>7, <1>8, ArgsEqual
<1> QED BY <1>0, <1>2, <1>3, <1>9 DEF z

\* Merging what has one mention more is merging, and then that mention.
LEMMA MergeOne ==
  ASSUME NEW N, NEW V, NEW x \in ArgsOf(N, V), NEW y \in ArgsOf(N, V), NEW m \in MentionOf(N, V)
  PROVE  merge_from(x, ingest(y, m)) = ingest(merge_from(x, y), m)
<1> DEFINE z == ingest(y, m)
           w == Mentioned(y)
           w2 == Mentioned(z)
<1>1. z \in ArgsOf(N, V) /\ z = ingest(y, m)
  BY IngestType
<1>2. /\ w \in Seq(MentionOf(N, V)) /\ DOMAIN w = DOMAIN y.items /\ Len(w) = Len(y.items)
      /\ \A i \in DOMAIN y.items : w[i] = IF y.items[i][1] = "pos" THEN y.items[i]
                                          ELSE <<"kw", y.items[i][2], y.kwvalues[y.items[i][2]]>>
  BY MentionedType
<1>3. /\ w2 \in Seq(MentionOf(N, V)) /\ DOMAIN w2 = DOMAIN z.items /\ Len(w2) = Len(z.items)
      /\ \A i \in DOMAIN z.items : w2[i] = IF z.items[i][1] = "pos" THEN z.items[i]
                                           ELSE <<"kw", z.items[i][2], z.kwvalues[z.items[i][2]]>>
  BY <1>1, MentionedType
<1>4. y.items \in Seq(ItemOf(N, V)) /\ DOMAIN y.items = 1..Len(y.items) /\ Len(y.items) \in Nat
  <2>1. y.items \in Seq(ItemOf(N, V))
    BY ArgsParts
  <2> QED BY <2>1
<1>5. \A i \in DOMAIN y.items : y.items[i][1] = "kw" => y.items[i][2] \in DOMAIN y.kwvalues
  BY ArgsParts
<1>6. \A i \in DOMAIN y.items : y.items[i][1] = "pos" \/ y.items[i][1] = "kw"
  <2>1. ASSUME NEW i \in DOMAIN y.items PROVE y.items[i] \in ItemOf(N, V)
    BY <1>4
  <2> QED BY <2>1, ItemIs
<1>7. merge_from(x, y) = Taken(x, w) /\ merge_from(x, z) = Taken(x, w2)
  BY DEF merge_from, Taken
<1> HIDE DEF w, w2, z
<1>8. CASE m[1] = "pos" \/ (m[1] = "kw" /\ m[2] \notin DOMAIN y.kwvalues)
  <2> DEFINE item == IF m[1] = "pos" THEN m ELSE <<"kw", m[2]>>
  <2>1. /\ z.items = Append(y.items, item) /\ item[1] = m[1] /\ item \in ItemOf(N, V)
        /\ \A n \in DOMAIN y.kwvalues : z.kwvalues[n] = y.kwvalues[n]
        /\ m[1] = "pos" => item = m
        /\ m[1] = "kw" => item[2] = m[2] /\ z.kwvalues[m[2]] = m[3] /\ m = <<"kw", m[2], m[3]>>
    <3>1. CASE m[1] = "pos"
      <4>1. z.items = Append(y.items, m) /\ z.kwvalues = y.kwvalues
        BY <1>1, <3>1, IngestPositional
      <4>2. m \in ItemOf(N, V)
        BY <3>1, MentionIs DEF ItemOf
      <4> QED BY <3>1, <4>1, <4>2
    <3>2. CASE m[1] = "kw" /\ m[2] \notin DOMAIN y.kwvalues
      <4>1. /\ z.items = IF m[2] \in DOMAIN y.kwvalues THEN y.items ELSE Append(y.items, <<"kw", m[2]>>)
            /\ z.kwvalues[m[2]] = m[3]
            /\ \A n \in DOMAIN y.kwvalues \ {m[2]} : z.kwvalues[n] = y.kwvalues[n]
        <5>1. Takes(y, m, z)
          BY <1>1, <3>2, IngestKeyword
        <5> QED BY <5>1 DEF Takes
      <4>2. m[2] \in N /\ m = <<"kw", m[2], m[3]>>
        BY <3>2, MentionIs
      <4>3. item \in ItemOf(N, V) /\ item[1] = "kw" /\ item[2] = m[2]
        BY <3>2, <4>2 DEF ItemOf
      <4> QED BY <3>2, <4>1, <4>2, <4>3
    <3> QED BY <1>8, <3>1, <3>2
  <2> HIDE DEF item
  <2> DEFINE n == Len(y.items)
  <2>2. /\ Len(z.items) = n + 1 /\ DOMAIN z.items = 1..n + 1
        /\ z.items[n + 1] = item /\ \A i \in 1..n : z.items[i] = y.items[i]
    <3>1. z.items \in Seq(ItemOf(N, V))
      BY <1>1, ArgsParts
    <3> QED BY <1>4, <2>1, <3>1, AppendProperties
  <2>3. ASSUME NEW i \in 1..n PROVE w2[i] = w[i]
    <3>1. i \in DOMAIN y.items /\ i \in DOMAIN z.items /\ z.items[i] = y.items[i]
      BY <1>4, <2>2
    <3>2. CASE y.items[i][1] = "pos"
      BY <1>2, <1>3, <3>1, <3>2
    <3>3. CASE y.items[i][1] # "pos"
      <4>1. z.kwvalues[y.items[i][2]] = y.kwvalues[y.items[i][2]]
        BY <1>5, <1>6, <2>1, <3>1, <3>3
      <4> QED BY <1>2, <1>3, <3>1, <3>3, <4>1
    <3> QED BY <3>2, <3>3
  <2>4. w2[n + 1] = m
    <3>1. n + 1 \in DOMAIN z.items /\ z.items[n + 1] = item
      BY <1>4, <2>2
    <3>2. CASE m[1] = "pos"
      BY <1>3, <2>1, <3>1, <3>2
    <3>3. CASE m[1] = "kw"
      BY <1>3, <2>1, <3>1, <3>3
    <3> QED BY <1>8, <3>2, <3>3
  <2>5. w2 = Append(w, m)
    <3>1. Append(w, m) \in Seq(MentionOf(N, V)) /\ Len(Append(w, m)) = n + 1 /\ Append(w, m)[n + 1] = m
          /\ \A i \in 1..n : Append(w, m)[i] = w[i]
      BY <1>2, AppendProperties
    <3>2. Len(w2) = n + 1
      BY <1>3, <2>2
    <3>3. \A i \in 1..n + 1 : w2[i] = Append(w, m)[i]
      BY <1>4, <2>3, <2>4, <3>1
    <3> QED BY <1>3, <3>1, <3>2, <3>3, SeqEqual
  <2>6. Taken(x, Append(w, m)) = ingest(Taken(x, w), m)
    BY <1>2, TakenAppend
  <2> QED BY <1>1, <1>7, <2>5, <2>6
<1>9. CASE m[1] = "kw" /\ m[2] \in DOMAIN y.kwvalues
  <2>1. /\ z.items = y.items
        /\ z.kwvalues[m[2]] = m[3]
        /\ \A n \in DOMAIN y.kwvalues \ {m[2]} : z.kwvalues[n] = y.kwvalues[n]
        /\ m = <<"kw", m[2], m[3]>>
    <3>1. /\ z.items = IF m[2] \in DOMAIN y.kwvalues THEN y.items ELSE Append(y.items, <<"kw", m[2]>>)
          /\ z.kwvalues[m[2]] = m[3]
          /\ \A n \in DOMAIN y.kwvalues \ {m[2]} : z.kwvalues[n] = y.kwvalues[n]
      <4>1. Takes(y, m, z)
        BY <1>1, <1>9, IngestKeyword
      <4> QED BY <4>1 DEF Takes
    <3> QED BY <1>9, <3>1, MentionIs
  <2>2. Len(w2) = Len(w) /\ 1..Len(w) = DOMAIN y.items /\ DOMAIN z.items = DOMAIN y.items
    BY <1>2, <1>3, <1>4, <2>1
  <2>3. ASSUME NEW i \in 1..Len(w) PROVE w2[i] = IF w[i][1] = "kw" /\ w[i][2] = m[2] THEN m ELSE w[i]
    <3>1. i \in DOMAIN y.items /\ i \in DOMAIN z.items /\ z.items[i] = y.items[i]
      BY <2>1, <2>2
    <3>2. CASE y.items[i][1] = "pos"
      <4>1. w[i] = y.items[i] /\ w2[i] = y.items[i]
        BY <1>2, <1>3, <3>1, <3>2
      <4> QED BY <3>2, <4>1
    <3>3. CASE y.items[i][1] = "kw"
      <4> DEFINE name == y.items[i][2]
      <4>1. w[i] = <<"kw", name, y.kwvalues[name]>> /\ w2[i] = <<"kw", name, z.kwvalues[name]>>
        BY <1>2, <1>3, <3>1, <3>3
      <4>2. name \in DOMAIN y.kwvalues
        BY <1>5, <3>1, <3>3
      <4> HIDE DEF name
      <4>3. CASE name = m[2]
        BY <2>1, <4>1, <4>3
      <4>4. CASE name # m[2]
        BY <2>1, <4>1, <4>2, <4>4
      <4> QED BY <4>3, <4>4
    <3> QED BY <1>6, <3>1, <3>2, <3>3
  <2>4. \E i \in 1..Len(w) : w[i][1] = "kw" /\ w[i][2] = m[2]
    <3>1. PICK i \in DOMAIN y.items : y.items[i] = <<"kw", m[2]>>
      BY <1>9 DEF ArgsOf
    <3>2. y.items[i][1] # "pos" /\ y.items[i][2] = m[2]
      BY <3>1
    <3>3. w[i] = <<"kw", m[2], y.kwvalues[m[2]]>>
      BY <1>2, <3>2
    <3> QED BY <2>2, <3>1, <3>3
  <2>5. Taken(x, w2) = ingest(Taken(x, w), m)
    <3>1. /\ w \in Seq(MentionOf(N, V)) /\ w2 \in Seq(MentionOf(N, V)) /\ Len(w2) = Len(w) /\ m[1] = "kw"
          /\ \A i \in 1..Len(w) : w2[i] = IF w[i][1] = "kw" /\ w[i][2] = m[2] THEN m ELSE w[i]
      BY <1>2, <1>3, <1>9, <2>2, <2>3
    <3>2. Renewed(w, w2, m)
      BY <2>4, <3>1 DEF Renewed
    <3> QED BY <3>1, <3>2, Override
  <2> QED BY <1>1, <1>7, <2>5
<1> QED BY <1>8, <1>9, MentionIs

---------------------------------------------------------------------------
(* Sequences of the elements of a set *)

LEMMA SetToSeqOf ==
  ASSUME NEW S, IsFiniteSet(S)
  PROVE  SetToSeq(S) \in Seq(S) /\ ToSet(SetToSeq(S)) = S
<1> DEFINE n == Cardinality(S)
           f == SetToSeq(S)
<1>1. n \in Nat /\ ExistsBijection(1..n, S)
  BY FS_CardinalityType
<1>2. PICK g : g \in Bijection(1..n, S)
  BY <1>1 DEF ExistsBijection
<1>3. g \in [1..n -> S] /\ IsInjective(g)
  BY <1>2 DEF Bijection, Injection, IsInjective
<1>4. f \in [1..n -> S] /\ IsInjective(f)
  BY <1>3 DEF SetToSeq
<1> HIDE DEF f
<1>5. f \in Injection(1..n, S)
  BY <1>4 DEF Injection, IsInjective
<1>6. IsFiniteSet(1..n) /\ Cardinality(1..n) = n
  BY <1>1, FS_Interval
<1> HIDE DEF n
<1>7. f \in Surjection(1..n, S)
  BY <1>5, <1>6, FS_Injection DEF n
<1>8. f \in Seq(S)
  BY <1>1, <1>4
<1>9. DOMAIN f = 1..n /\ \A s \in S : \E i \in 1..n : f[i] = s
  BY <1>4, <1>7 DEF Surjection
<1>10. ToSet(f) = S
  BY <1>4, <1>9 DEF ToSet
<1> QED BY <1>8, <1>10 DEF f

---------------------------------------------------------------------------
(* Merging what has been taken *)

LEMMA MergeEmpty == ASSUME NEW x PROVE merge_from(x, EmptyArgs) = x
<1>1. Mentioned(EmptyArgs) = <<>>
  <2>1. EmptyArgs.items = <<>>
    BY DEF EmptyArgs
  <2> QED BY <2>1 DEF Mentioned
<1>2. merge_from(x, EmptyArgs) = Taken(x, Mentioned(EmptyArgs))
  BY DEF merge_from, Taken
<1> QED BY <1>1, <1>2, TakenNothing

\* Merging what was taken of some mentions is taking them oneself.
LEMMA MergeCanon ==
  ASSUME NEW N, NEW V, NEW x \in ArgsOf(N, V), NEW u \in Seq(MentionOf(N, V))
  PROVE  merge_from(x, Canon(u)) = Taken(x, u)
<1> DEFINE n == Len(u)
<1>1. PICK r : IngestRun(r, EmptyArgs, u) /\ Taken(EmptyArgs, u) = r[n]
  BY TakenRun
<1>2. PICK s : IngestRun(s, x, u) /\ Taken(x, u) = s[n]
  BY TakenRun
<1>3. \A i \in 0..n : r[i] \in ArgsOf(N, V)
  BY <1>1, EmptyType, RunType
<1>4. n \in Nat
  OBVIOUS
<1> DEFINE Bad == {i \in 0..n : merge_from(x, r[i]) # s[i]}
<1>5. Bad = {}
  <2> SUFFICES ASSUME Bad # {} PROVE FALSE
    OBVIOUS
  <2>1. Bad \in SUBSET Nat
    OBVIOUS
  <2>2. PICK i \in Bad : \A k \in Bad : i <= k
    BY <2>1, SmallestOf
  <2>3. CASE i = 0
    <3>1. r[0] = EmptyArgs /\ s[0] = x
      BY <1>1, <1>2 DEF IngestRun
    <3> QED BY <2>2, <2>3, <3>1, MergeEmpty
  <2>4. CASE i # 0
    <3>1. i \in 1..n /\ i - 1 \in 0..n /\ i - 1 \notin Bad
      BY <2>2, <2>4
    <3> DEFINE y == r[i - 1]
    <3>2. /\ y \in ArgsOf(N, V) /\ u[i] \in MentionOf(N, V)
          /\ r[i] = ingest(y, u[i]) /\ s[i] = ingest(s[i - 1], u[i])
      BY <1>1, <1>2, <1>3, <3>1 DEF IngestRun
    <3>3. merge_from(x, y) = s[i - 1]
      BY <3>1
    <3> HIDE DEF y
    <3>4. merge_from(x, ingest(y, u[i])) = ingest(merge_from(x, y), u[i])
      BY <3>2, MergeOne
    <3> QED BY <2>2, <3>2, <3>3, <3>4
  <2> QED BY <2>3, <2>4
<1>6. merge_from(x, r[n]) = s[n]
  BY <1>4, <1>5
<1> QED BY <1>1, <1>2, <1>6 DEF Canon

\* Taking one sequence and then another is taking both.
LEMMA TakenConcat ==
  ASSUME NEW x, NEW S, NEW u \in Seq(S), NEW v \in Seq(S)
  PROVE  Taken(Taken(x, u), v) = Taken(x, u \o v)
<1> DEFINE n == Len(u)
           m == Len(v)
           w == u \o v
<1>1. /\ w \in Seq(S) /\ Len(w) = n + m /\ n \in Nat /\ m \in Nat
      /\ \A i \in 1..n + m : w[i] = IF i <= n THEN u[i] ELSE v[i - n]
  OBVIOUS
<1> HIDE DEF w
<1>2. PICK r : IngestRun(r, x, u) /\ Taken(x, u) = r[n]
  BY TakenRun
<1>3. PICK s : IngestRun(s, Taken(x, u), v) /\ Taken(Taken(x, u), v) = s[m]
  BY TakenRun
<1>4. PICK t : IngestRun(t, x, w) /\ Taken(x, w) = t[n + m]
  BY <1>1, TakenRun
<1> DEFINE so(i) == IF i <= n THEN r[i] ELSE s[i - n]
           Bad == {i \in 0..n + m : t[i] # so(i)}
<1>5. s[0] = r[n]
  BY <1>2, <1>3 DEF IngestRun
<1>6. Bad = {}
  <2> SUFFICES ASSUME Bad # {} PROVE FALSE
    OBVIOUS
  <2>1. Bad \in SUBSET Nat
    BY <1>1
  <2>2. PICK i \in Bad : \A k \in Bad : i <= k
    BY <2>1, SmallestOf
  <2>3. CASE i = 0
    <3>1. t[0] = x /\ r[0] = x /\ 0 <= n
      BY <1>1, <1>2, <1>4 DEF IngestRun
    <3> QED BY <2>2, <2>3, <3>1
  <2>4. CASE i # 0
    <3>1. i \in 1..n + m /\ i - 1 \in 0..n + m /\ i - 1 \notin Bad
      BY <1>1, <2>2, <2>4
    <3>2. t[i - 1] = so(i - 1)
      BY <3>1
    <3>3. t[i] = ingest(t[i - 1], w[i])
      BY <1>1, <1>4, <3>1 DEF IngestRun
    <3>4. CASE i <= n
      <4>1. i \in 1..n /\ i - 1 <= n
        BY <1>1, <3>1, <3>4
      <4>2. r[i] = ingest(r[i - 1], u[i]) /\ w[i] = u[i]
        BY <1>1, <1>2, <3>1, <3>4, <4>1 DEF IngestRun
      <4> QED BY <2>2, <3>2, <3>3, <3>4, <4>1, <4>2
    <3>5. CASE ~(i <= n)
      <4>1. i - n \in 1..m /\ (i - n) - 1 = (i - 1) - n
        BY <1>1, <3>1, <3>5
      <4>2. s[i - n] = ingest(s[(i - n) - 1], v[i - n]) /\ w[i] = v[i - n]
        BY <1>1, <1>3, <3>1, <3>5, <4>1 DEF IngestRun
      <4>3. so(i - 1) = s[(i - 1) - n]
        <5>1. CASE i - 1 <= n
          <6>1. i - 1 = n /\ (i - 1) - n = 0
            <7>1. i \in Int /\ n \in Int
              BY <1>1, <3>1
            <7> HIDE DEF n
            <7> QED BY <3>5, <5>1, <7>1
          <6> QED BY <1>5, <5>1, <6>1
        <5>2. CASE ~(i - 1 <= n)
          BY <5>2
        <5> QED BY <5>1, <5>2
      <4>4. so(i) = s[i - n]
        BY <3>5
      <4> HIDE DEF so
      <4> QED BY <2>2, <3>2, <3>3, <4>1, <4>2, <4>3, <4>4
    <3> QED BY <3>4, <3>5
  <2> QED BY <2>3, <2>4
<1>7. t[n + m] = so(n + m)
  BY <1>1, <1>6
<1>8. so(n + m) = s[m]
  <2>1. CASE m = 0
    BY <1>1, <1>5, <2>1
  <2>2. CASE m # 0
    <3>1. ~(n + m <= n) /\ (n + m) - n = m
      BY <1>1, <2>2
    <3> QED BY <3>1
  <2> QED BY <2>1, <2>2
<1> QED BY <1>3, <1>4, <1>7, <1>8 DEF w

---------------------------------------------------------------------------
(* Collections *)

\* What a collection mentions.
Given(c) ==
  CASE c[1] = "none" -> <<>>
    [] c[1] = "args" -> Mentioned(c[2])
    [] c[1] = "map"  -> [i \in DOMAIN c[2] |-> <<"kw", c[2][i][1], c[2][i][2]>>]
    [] c[1] = "seq"  -> [i \in DOMAIN c[2] |-> <<"pos", c[2][i]>>]
LEMMA CollectionOf == ASSUME NEW c PROVE from_collection(c) = Canon(Given(c))
BY DEF from_collection, Canon, Taken, Given

LEMMA MergeCollection ==
  ASSUME NEW N, NEW V, NEW x \in ArgsOf(N, V), NEW c, Given(c) \in Seq(MentionOf(N, V))
  PROVE  merge_collection(x, c) = Taken(x, Given(c)) /\ merge_collection(x, c) \in ArgsOf(N, V)
<1>1. merge_collection(x, c) = merge_from(x, Canon(Given(c)))
  BY CollectionOf DEF merge_collection
<1>2. merge_from(x, Canon(Given(c))) = Taken(x, Given(c))
  BY MergeCanon
<1>3. Taken(x, Given(c)) \in ArgsOf(N, V)
  BY TakenType
<1> QED BY <1>1, <1>2, <1>3

\* Merging two collections.
LEMMA MergeTwo ==
  ASSUME NEW N, NEW V, NEW c, Given(c) \in Seq(MentionOf(N, V)), NEW d, Given(d) \in Seq(MentionOf(N, V))
  PROVE  merge_args(<<c, d>>) = Taken(Canon(Given(c)), Given(d)) /\ Canon(Given(c)) \in ArgsOf(N, V)
<1> DEFINE Merged(seq) == FoldLeft(merge_collection, EmptyArgs, seq)
<1>1. Merged(<<>>) = EmptyArgs
  BY MergeNothing
<1>2. Merged(Append(<<>>, c)) = merge_collection(Merged(<<>>), c)
  <2>1. <<>> \in Seq({c, d}) /\ c \in {c, d}
    OBVIOUS
  <2> QED BY <2>1, MergeAppend
<1>3. Merged(Append(Append(<<>>, c), d)) = merge_collection(Merged(Append(<<>>, c)), d)
  <2>1. Append(<<>>, c) \in Seq({c, d}) /\ d \in {c, d}
    OBVIOUS
  <2> QED BY <2>1, MergeAppend
<1>4. <<c, d>> = Append(Append(<<>>, c), d)
  OBVIOUS
<1>5. merge_args(<<c, d>>) = Merged(<<c, d>>)
  BY DEF merge_args
<1> HIDE DEF Merged
<1>6. merge_args(<<c, d>>) = merge_collection(merge_collection(EmptyArgs, c), d)
  BY <1>1, <1>2, <1>3, <1>4, <1>5
<1>7. merge_collection(EmptyArgs, c) = Canon(Given(c)) /\ Canon(Given(c)) \in ArgsOf(N, V)
  BY EmptyType, MergeCollection DEF Canon
<1> QED BY <1>6, <1>7, MergeCollection

---------------------------------------------------------------------------
(* The snapshot *)

\* A value that the snapshot keeps prints as it did.
LEMMA ArgumentText ==
  ASSUME NEW v
  PROVE  /\ ARG_ESCAPER(_argument(v)) = ARG_ESCAPER(v)
         /\ _argument(v)[1] \in {"none", "str", "bool", "int", "shell"}
<1>1. CASE v[1] = "enum"
  <2>1. _argument(v) = <<"str", v[2]>>
    BY <1>1 DEF _argument
  <2>2. Text(_argument(v)) = v[2] /\ Text(v) = v[2]
    BY <1>1, <2>1 DEF Text
  <2>3. _argument(v)[1] = "str"
    BY <2>1
  <2> QED BY <1>1, <2>2, <2>3 DEF ARG_ESCAPER
<1>2. CASE v[1] \in {"none", "str", "bool", "int", "shell"}
  <2>1. _argument(v) = v
    BY <1>2 DEF _argument
  <2> QED BY <1>2, <2>1
<1>3. CASE v[1] \notin {"enum", "none", "str", "bool", "int", "shell"}
  <2> DEFINE text == Text(v)
  <2>1. _argument(v) = <<"str", text>>
    BY <1>3 DEF _argument
  <2> HIDE DEF text
  <2>2. Text(_argument(v)) = text
    BY <2>1 DEF Text
  <2>3. _argument(v)[1] = "str"
    BY <2>1
  <2> QED BY <1>3, <2>2, <2>3 DEF ARG_ESCAPER, text
<1> QED BY <1>1, <1>2, <1>3

LEMMA KeywordText ==
  ASSUME NEW v, NEW n
  PROVE  export_keyword(n, _keyword(v)) = export_keyword(n, v)
<1> DEFINE k == _keyword(v)
           flag(x) == << <<"flag", n, ARG_ESCAPER(x)>> >>
<1>1. CASE IsFlat(v)
  <2> DEFINE each == [i \in DOMAIN v[2] |-> _argument(v[2][i])]
  <2>1. k = <<v[1], each>>
    BY <1>1 DEF _keyword
  <2>2. DOMAIN each = DOMAIN v[2] /\ \A i \in DOMAIN v[2] : each[i] = _argument(v[2][i])
    OBVIOUS
  <2> HIDE DEF each, k
  <2>3. k[1] = v[1] /\ k[2] = each
    BY <2>1
  <2>4. \A i \in DOMAIN each : each[i][1] \notin {"list", "tuple"}
    BY <2>2, ArgumentText
  <2>5. IsFlat(k)
    BY <1>1, <2>3, <2>4 DEF IsFlat
  <2>6. v[1] \notin {"none", "bool"}
    BY <1>1 DEF IsFlat
  <2>7. /\ export_keyword(n, k) = [i \in DOMAIN each |-> <<"flag", n, ARG_ESCAPER(each[i])>>]
        /\ export_keyword(n, v) = [i \in DOMAIN v[2] |-> <<"flag", n, ARG_ESCAPER(v[2][i])>>]
    BY <1>1, <2>3, <2>5, <2>6 DEF export_keyword
  <2>8. \A i \in DOMAIN each : ARG_ESCAPER(each[i]) = ARG_ESCAPER(v[2][i])
    BY <2>2, ArgumentText
  <2> QED BY <2>2, <2>7, <2>8 DEF k
<1>2. CASE ~IsFlat(v)
  <2>1. k = _argument(v)
    BY <1>2 DEF _keyword
  <2>2. CASE v[1] \in {"none", "bool"}
    <3>1. k = v
      BY <2>1, <2>2 DEF _argument
    <3> QED BY <3>1
  <2>3. CASE v[1] \notin {"none", "bool"}
    <3> HIDE DEF k
    <3>1. k[1] \notin {"none", "bool"}
      <4>1. CASE v[1] \in {"str", "int", "shell"}
        BY <2>1, <2>3, <4>1 DEF _argument
      <4>2. CASE v[1] \notin {"str", "int", "shell"}
        <5>1. k[1] = "str"
          <6> DEFINE text == Text(v)
          <6>1. k = IF v[1] = "enum" THEN <<"str", v[2]>> ELSE <<"str", text>>
            BY <2>1, <2>3, <4>2 DEF _argument
          <6> HIDE DEF text
          <6> QED BY <6>1
        <5> QED BY <5>1
      <4> QED BY <4>1, <4>2
    <3>2. ~IsFlat(k)
      <4>1. k[1] \in {"none", "str", "bool", "int", "shell"}
        BY <2>1, ArgumentText
      <4> QED BY <4>1 DEF IsFlat
    <3>3. export_keyword(n, k) = flag(k) /\ export_keyword(n, v) = flag(v)
      BY <1>2, <2>3, <3>1, <3>2 DEF export_keyword
    <3>4. ARG_ESCAPER(k) = ARG_ESCAPER(v)
      BY <2>1, ArgumentText
    <3> QED BY <3>3, <3>4 DEF k
  <2> QED BY <2>2, <2>3
<1> QED BY <1>1, <1>2

\* What the snapshot keeps of a mention, and of every one.
Saved(m) == IF m[1] = "pos" THEN <<"pos", _argument(m[2])>> ELSE <<"kw", m[2], _keyword(m[3])>>
SavedAll(u) == [i \in DOMAIN u |-> Saved(u[i])]
Widened(V) == V \cup {_argument(v) : v \in V} \cup {_keyword(v) : v \in V}

Keeps(u, w) == Len(w) = Len(u) /\ \A i \in 1..Len(u) : w[i] = Saved(u[i])

LEMMA SavedType ==
  ASSUME NEW N, NEW V, NEW u \in Seq(MentionOf(N, V))
  PROVE  /\ u \in Seq(MentionOf(N, Widened(V))) /\ SavedAll(u) \in Seq(MentionOf(N, Widened(V)))
         /\ Keeps(u, SavedAll(u))
<1> DEFINE W == Widened(V)
<1>1. ASSUME NEW m \in MentionOf(N, V) PROVE m \in MentionOf(N, W) /\ Saved(m) \in MentionOf(N, W)
  <2>1. CASE m[1] = "pos"
    <3>1. m = <<"pos", m[2]>> /\ m[2] \in V
      BY <2>1, MentionIs
    <3>2. m[2] \in W /\ _argument(m[2]) \in W
      BY <3>1 DEF Widened
    <3> HIDE DEF W
    <3> QED BY <2>1, <3>1, <3>2 DEF Saved, MentionOf
  <2>2. CASE m[1] # "pos"
    <3>1. m = <<"kw", m[2], m[3]>> /\ m[2] \in N /\ m[3] \in V
      BY <2>2, MentionIs
    <3>2. m[3] \in W /\ _keyword(m[3]) \in W
      BY <3>1 DEF Widened
    <3> HIDE DEF W
    <3> QED BY <2>2, <3>1, <3>2 DEF Saved, MentionOf
  <2> QED BY <2>1, <2>2
<1> HIDE DEF W
<1>2. u \in [1..Len(u) -> MentionOf(N, V)] /\ Len(u) \in Nat /\ DOMAIN u = 1..Len(u)
  OBVIOUS
<1>3. u \in [1..Len(u) -> MentionOf(N, W)]
  BY <1>1, <1>2
<1>4. SavedAll(u) \in [1..Len(u) -> MentionOf(N, W)] /\ \A i \in 1..Len(u) : SavedAll(u)[i] = Saved(u[i])
  BY <1>1, <1>2 DEF SavedAll
<1>5. u \in Seq(MentionOf(N, W)) /\ SavedAll(u) \in Seq(MentionOf(N, W)) /\ Len(SavedAll(u)) = Len(u)
  BY <1>2, <1>3, <1>4
<1> QED BY <1>4, <1>5 DEF W, Keeps

\* A part of the snapshot is one mention.
LEMMA PartOf ==
  ASSUME NEW N, NEW V, NEW x \in ArgsOf(N, V), NEW m \in MentionOf(N, V), NEW c, Given(c) = <<m>>
  PROVE  merge_collection(x, c) = ingest(x, m)
<1>1. Given(c) = Append(<<>>, m) /\ <<>> \in Seq(MentionOf(N, V))
  OBVIOUS
<1>2. Given(c) \in Seq(MentionOf(N, V))
  BY <1>1
<1>3. merge_collection(x, c) = Taken(x, Append(<<>>, m))
  BY <1>1, <1>2, MergeCollection
<1>4. Taken(x, Append(<<>>, m)) = ingest(Taken(x, <<>>), m)
  BY <1>1, TakenAppend
<1>5. Taken(x, <<>>) = x
  BY TakenNothing
<1> QED BY <1>3, <1>4, <1>5

LEMMA EncodedPart ==
  ASSUME NEW N, NEW V, NEW y \in ArgsOf(N, V), NEW i \in DOMAIN y.items
  PROVE  Given(encode_args(y)[i]) = << SavedAll(Mentioned(y))[i] >>
<1> DEFINE item == y.items[i]
           m == Mentioned(y)[i]
           part == encode_args(y)[i]
<1>1. item \in ItemOf(N, V) /\ y.items \in Seq(ItemOf(N, V))
  <2>1. y.items \in Seq(ItemOf(N, V))
    BY ArgsParts
  <2> QED BY <2>1
<1>2. m = IF item[1] = "pos" THEN item ELSE <<"kw", item[2], y.kwvalues[item[2]]>>
  BY DEF Mentioned
<1>3. SavedAll(Mentioned(y))[i] = Saved(m)
  BY DEF SavedAll, Mentioned
<1>4. CASE item[1] = "pos"
  <2> DEFINE a == _argument(item[2])
  <2>1. part = <<"seq", << a >> >>
    BY <1>4 DEF encode_args
  <2>2. Saved(m) = <<"pos", a>>
    BY <1>2, <1>4 DEF Saved
  <2> HIDE DEF part, a
  <2>3. Given(part) = << <<"pos", a>> >>
    <3>1. part[1] = "seq" /\ part[2] = <<a>>
      BY <2>1
    <3>2. Given(part) = [j \in DOMAIN <<a>> |-> <<"pos", <<a>>[j]>>]
      BY <3>1 DEF Given
    <3> QED BY <3>2
  <2> QED BY <1>3, <2>2, <2>3 DEF part
<1>5. CASE item[1] # "pos"
  <2> DEFINE k == _keyword(y.kwvalues[item[2]])
             name == item[2]
             pair == <<name, k>>
  <2>0. item[1] = "kw"
    BY <1>1, <1>5, ItemIs
  <2>1. part = <<"map", << pair >> >>
    BY <2>0 DEF encode_args
  <2>2. Saved(m) = <<"kw", name, k>>
    BY <1>2, <1>5 DEF Saved
  <2>3. pair[1] = name /\ pair[2] = k
    OBVIOUS
  <2> HIDE DEF part, k, name, pair
  <2>4. Given(part) = << <<"kw", name, k>> >>
    <3>1. part[1] = "map" /\ part[2] = <<pair>>
      BY <2>1
    <3>2. Given(part) = [j \in DOMAIN <<pair>> |-> <<"kw", <<pair>>[j][1], <<pair>>[j][2]>>]
      BY <3>1 DEF Given
    <3>3. <<pair>>[1] = pair /\ DOMAIN <<pair>> = {1}
      OBVIOUS
    <3> QED BY <2>3, <3>2, <3>3
  <2> QED BY <1>3, <2>2, <2>4 DEF part
<1> QED BY <1>4, <1>5

\* Read back, the snapshot mentions what was saved.
LEMMA DecodedIs ==
  ASSUME NEW N, NEW V, NEW y \in ArgsOf(N, V)
  PROVE  merge_args(encode_args(y)) = Canon(SavedAll(Mentioned(y)))
<1> DEFINE parts == encode_args(y)
           W == Widened(V)
           u == SavedAll(Mentioned(y))
           n == Len(y.items)
<1>1. y.items \in Seq(ItemOf(N, V)) /\ n \in Nat /\ DOMAIN y.items = 1..n
  <2>1. y.items \in Seq(ItemOf(N, V))
    BY ArgsParts
  <2> QED BY <2>1
<1>2. Mentioned(y) \in Seq(MentionOf(N, V)) /\ Len(Mentioned(y)) = n
  BY MentionedType
<1>3. u \in Seq(MentionOf(N, W)) /\ Len(u) = n
  <2>1. u \in Seq(MentionOf(N, W)) /\ Keeps(Mentioned(y), u)
    BY <1>2, SavedType
  <2> QED BY <1>2, <2>1 DEF Keeps
<1>4. DOMAIN parts = 1..n
  BY <1>1 DEF encode_args
<1> DEFINE S == {parts[i] : i \in 1..n}
<1>5. parts \in Seq(S) /\ Len(parts) = n
  <2>1. parts = [i \in 1..n |-> parts[i]]
    BY <1>1 DEF encode_args
  <2> HIDE DEF parts
  <2> QED BY <1>1, <1>4, <2>1
<1>6. \A i \in 1..n : Given(parts[i]) = <<u[i]>>
  BY <1>1, EncodedPart
<1> HIDE DEF parts, S, u, W
<1>7. PICK r : MergeRun(r, EmptyArgs, parts) /\ FoldLeft(merge_collection, EmptyArgs, parts) = r[n]
  BY <1>5, MergeFold
<1>8. PICK s : IngestRun(s, EmptyArgs, u) /\ Taken(EmptyArgs, u) = s[n]
  BY <1>3, TakenRun
<1>9. \A i \in 0..n : s[i] \in ArgsOf(N, W)
  BY <1>3, <1>8, EmptyType, RunType
<1> DEFINE Bad == {i \in 0..n : r[i] # s[i]}
<1>10. Bad = {}
  <2> SUFFICES ASSUME Bad # {} PROVE FALSE
    OBVIOUS
  <2>1. Bad \in SUBSET Nat
    BY <1>1
  <2>2. PICK i \in Bad : \A k \in Bad : i <= k
    BY <2>1, SmallestOf
  <2>3. CASE i = 0
    BY <1>7, <1>8, <2>2, <2>3 DEF MergeRun, IngestRun
  <2>4. CASE i # 0
    <3>1. i \in 1..n /\ i - 1 \in 0..n /\ i - 1 \notin Bad
      BY <1>1, <2>2, <2>4
    <3>2. r[i - 1] = s[i - 1] /\ s[i - 1] \in ArgsOf(N, W)
      BY <1>9, <3>1
    <3>3. r[i] = merge_collection(r[i - 1], parts[i])
      BY <1>5, <1>7, <3>1 DEF MergeRun
    <3>4. s[i] = ingest(s[i - 1], u[i]) /\ u[i] \in MentionOf(N, W)
      BY <1>3, <1>8, <3>1 DEF IngestRun
    <3>5. Given(parts[i]) = <<u[i]>>
      BY <1>6, <3>1
    <3>6. merge_collection(s[i - 1], parts[i]) = ingest(s[i - 1], u[i])
      BY <3>2, <3>4, <3>5, PartOf
    <3> QED BY <2>2, <3>2, <3>3, <3>4, <3>6
  <2> QED BY <2>3, <2>4
<1>11. r[n] = s[n]
  BY <1>1, <1>10
<1>12. merge_args(parts) = FoldLeft(merge_collection, EmptyArgs, parts)
  BY DEF merge_args
<1>13. merge_args(parts) = Canon(u)
  BY <1>7, <1>8, <1>11, <1>12 DEF Canon
<1> QED BY <1>13 DEF parts, u

\* Arguments that give the same words.
AlikeItem(y, z, i) ==
  \/ y.items[i][1] = "kw" /\ z.items[i] = y.items[i]
  \/ /\ y.items[i][1] = "pos" /\ z.items[i][1] = "pos"
     /\ ARG_ESCAPER(z.items[i][2]) = ARG_ESCAPER(y.items[i][2])
Alike(y, z) ==
  /\ Len(y.items) = Len(z.items)
  /\ \A i \in 1..Len(y.items) : AlikeItem(y, z, i)
  /\ DOMAIN y.kwvalues = DOMAIN z.kwvalues
  /\ \A n \in DOMAIN y.kwvalues : export_keyword(n, y.kwvalues[n]) = export_keyword(n, z.kwvalues[n])

LEMMA AlikeWords ==
  ASSUME NEW N, NEW V, NEW y \in ArgsOf(N, V), NEW z \in ArgsOf(N, V), Alike(y, z)
  PROVE  to_list(y) = to_list(z)
<1> DEFINE words(args, i) ==
             LET item == args.items[i]
             IN  IF item[1] = "pos" THEN << ARG_ESCAPER(item[2]) >>
                 ELSE export_keyword(item[2], args.kwvalues[item[2]])
           n == Len(y.items)
<1>1. /\ y.items \in Seq(ItemOf(N, V)) /\ z.items \in Seq(ItemOf(N, V))
      /\ \A i \in DOMAIN y.items : y.items[i][1] = "kw" => y.items[i][2] \in DOMAIN y.kwvalues
  BY ArgsParts
<1>2. DOMAIN y.items = 1..n /\ DOMAIN z.items = 1..n
  BY <1>1 DEF Alike
<1>3. ASSUME NEW i \in 1..n PROVE words(y, i) = words(z, i)
  <2>1. AlikeItem(y, z, i)
    BY DEF Alike
  <2>2. CASE y.items[i][1] = "kw" /\ z.items[i] = y.items[i]
    <3>1. y.items[i][2] \in DOMAIN y.kwvalues
      BY <1>1, <1>2, <2>2
    <3>2. export_keyword(y.items[i][2], y.kwvalues[y.items[i][2]]) = export_keyword(y.items[i][2], z.kwvalues[y.items[i][2]])
      BY <3>1 DEF Alike
    <3> QED BY <2>2, <3>2
  <2>3. CASE y.items[i][1] = "pos"
    BY <2>1, <2>3 DEF AlikeItem
  <2> QED BY <2>1, <2>2, <2>3 DEF AlikeItem
<1>4. to_list(y) = FlattenSeq([i \in 1..n |-> words(y, i)]) /\ to_list(z) = FlattenSeq([i \in 1..n |-> words(z, i)])
  BY <1>2 DEF to_list
<1> HIDE DEF words
<1>5. [i \in 1..n |-> words(y, i)] = [i \in 1..n |-> words(z, i)]
  BY <1>3
<1> QED BY <1>4, <1>5

LEMMA IngestAlike ==
  ASSUME NEW N, NEW V, NEW y \in ArgsOf(N, V), NEW z \in ArgsOf(N, V), Alike(y, z),
         NEW m \in MentionOf(N, V), Saved(m) \in MentionOf(N, V)
  PROVE  Alike(ingest(y, m), ingest(z, Saved(m)))
<1> DEFINE y2 == ingest(y, m)
           z2 == ingest(z, Saved(m))
           k == Saved(m)
           n == Len(y.items)
<1>1. /\ y.items \in Seq(ItemOf(N, V)) /\ z.items \in Seq(ItemOf(N, V)) /\ Len(z.items) = n /\ n \in Nat
  <2>1. y.items \in Seq(ItemOf(N, V)) /\ z.items \in Seq(ItemOf(N, V))
    BY ArgsParts
  <2> QED BY <2>1 DEF Alike
<1>2. /\ \A i \in 1..n : AlikeItem(y, z, i)
      /\ DOMAIN y.kwvalues = DOMAIN z.kwvalues
      /\ \A name \in DOMAIN y.kwvalues : export_keyword(name, y.kwvalues[name]) = export_keyword(name, z.kwvalues[name])
  BY DEF Alike
<1>3. k[1] = m[1]
  <2>1. CASE m[1] = "pos"
    BY <2>1 DEF Saved
  <2>2. CASE m[1] # "pos"
    <3>1. m[1] = "kw"
      BY <2>2, MentionIs
    <3> QED BY <2>2, <3>1 DEF Saved
  <2> QED BY <2>1, <2>2
\* Two item lists that were alike, with two more items that are.
<1>4. ASSUME NEW a \in ItemOf(N, V), NEW b \in ItemOf(N, V),
             y2.items = Append(y.items, a), z2.items = Append(z.items, b),
             \/ a[1] = "kw" /\ b = a
             \/ a[1] = "pos" /\ b[1] = "pos" /\ ARG_ESCAPER(b[2]) = ARG_ESCAPER(a[2])
      PROVE  Len(y2.items) = Len(z2.items) /\ \A i \in 1..Len(y2.items) : AlikeItem(y2, z2, i)
  <2>1. /\ Len(y2.items) = n + 1 /\ Len(z2.items) = n + 1 /\ y2.items[n + 1] = a /\ z2.items[n + 1] = b
        /\ \A i \in 1..n : y2.items[i] = y.items[i] /\ z2.items[i] = z.items[i]
    BY <1>1, <1>4, AppendProperties
  <2> HIDE DEF y2, z2
  <2>2. AlikeItem(y2, z2, n + 1)
    BY <1>4, <2>1 DEF AlikeItem
  <2>3. ASSUME NEW i \in 1..n PROVE AlikeItem(y2, z2, i)
    BY <1>2, <2>1 DEF AlikeItem
  <2>4. \A i \in 1..n + 1 : i = n + 1 \/ i \in 1..n
    BY <1>1
  <2> QED BY <2>1, <2>2, <2>3, <2>4
<1>5. CASE m[1] = "pos"
  <2>1. y2.items = Append(y.items, m) /\ y2.kwvalues = y.kwvalues
    BY <1>5, IngestPositional
  <2>2. z2.items = Append(z.items, k) /\ z2.kwvalues = z.kwvalues
    BY <1>3, <1>5, IngestPositional
  <2>3. m \in ItemOf(N, V) /\ k \in ItemOf(N, V)
    BY <1>3, <1>5, MentionIs DEF ItemOf
  <2>4. k[2] = _argument(m[2])
    BY <1>5 DEF Saved
  <2>5. ARG_ESCAPER(k[2]) = ARG_ESCAPER(m[2])
    BY <2>4, ArgumentText
  <2> HIDE DEF k, y2, z2
  <2>6. Len(y2.items) = Len(z2.items) /\ \A i \in 1..Len(y2.items) : AlikeItem(y2, z2, i)
    BY <1>3, <1>4, <1>5, <2>1, <2>2, <2>3, <2>5
  <2> QED BY <1>2, <2>1, <2>2, <2>6 DEF Alike, y2, z2, k
<1>6. CASE m[1] = "kw"
  <2> DEFINE name == m[2]
             item == <<"kw", name>>
  <2>1. k[2] = name /\ k[3] = _keyword(m[3]) /\ name \in N
    <3>1. k = <<"kw", name, _keyword(m[3])>>
      BY <1>6 DEF Saved
    <3>2. name \in N
      BY <1>6, MentionIs
    <3> HIDE DEF k, name
    <3> QED BY <3>1, <3>2
  <2>2. Takes(y, m, y2)
    BY <1>6, IngestKeyword
  <2>3. Takes(z, k, z2)
    BY <1>3, <1>6, IngestKeyword
  <2>4. item \in ItemOf(N, V) /\ item[1] = "kw"
    BY <2>1 DEF ItemOf
  <2> HIDE DEF k, y2, z2, item
  <2>5. /\ y2.items = IF name \in DOMAIN y.kwvalues THEN y.items ELSE Append(y.items, item)
        /\ DOMAIN y2.kwvalues = DOMAIN y.kwvalues \cup {name}
        /\ y2.kwvalues[name] = m[3]
        /\ \A other \in DOMAIN y.kwvalues \ {name} : y2.kwvalues[other] = y.kwvalues[other]
    BY <2>2 DEF Takes, item
  <2>6. /\ z2.items = IF name \in DOMAIN y.kwvalues THEN z.items ELSE Append(z.items, item)
        /\ DOMAIN z2.kwvalues = DOMAIN y.kwvalues \cup {name}
        /\ z2.kwvalues[name] = k[3]
        /\ \A other \in DOMAIN y.kwvalues \ {name} : z2.kwvalues[other] = z.kwvalues[other]
    BY <1>2, <2>1, <2>3 DEF Takes, item
  <2> HIDE DEF name
  <2>7. Len(y2.items) = Len(z2.items) /\ \A i \in 1..Len(y2.items) : AlikeItem(y2, z2, i)
    <3>1. CASE name \in DOMAIN y.kwvalues
      <4>1. y2.items = y.items /\ z2.items = z.items
        BY <2>5, <2>6, <3>1
      <4> QED BY <1>1, <1>2, <4>1 DEF AlikeItem
    <3>2. CASE name \notin DOMAIN y.kwvalues
      <4>1. y2.items = Append(y.items, item) /\ z2.items = Append(z.items, item)
        BY <2>5, <2>6, <3>2
      <4> QED BY <1>4, <2>4, <4>1
    <3> QED BY <3>1, <3>2
  <2>8. export_keyword(name, y2.kwvalues[name]) = export_keyword(name, z2.kwvalues[name])
    BY <2>1, <2>5, <2>6, KeywordText
  <2>9. ASSUME NEW other \in DOMAIN y2.kwvalues
        PROVE  export_keyword(other, y2.kwvalues[other]) = export_keyword(other, z2.kwvalues[other])
    <3>1. CASE other = name
      BY <2>8, <3>1
    <3>2. CASE other # name
      BY <1>2, <2>5, <2>6, <3>2
    <3> QED BY <3>1, <3>2
  <2> QED BY <2>5, <2>6, <2>7, <2>9 DEF Alike, k, y2, z2
<1> QED BY <1>5, <1>6, MentionIs

LEMMA TakenAlike ==
  ASSUME NEW N, NEW V, NEW y \in ArgsOf(N, V), NEW z \in ArgsOf(N, V), Alike(y, z),
         NEW u \in Seq(MentionOf(N, V)), NEW w \in Seq(MentionOf(N, V)), Keeps(u, w)
  PROVE  Alike(Taken(y, u), Taken(z, w))
<1> DEFINE n == Len(u)
<1>0. Len(w) = n /\ \A i \in 1..n : w[i] = Saved(u[i])
  BY DEF Keeps
<1>1. PICK r : IngestRun(r, y, u) /\ Taken(y, u) = r[n]
  BY TakenRun
<1>2. PICK s : IngestRun(s, z, w) /\ Taken(z, w) = s[n]
  BY <1>0, TakenRun
<1>3. (\A i \in 0..n : r[i] \in ArgsOf(N, V)) /\ \A i \in 0..n : s[i] \in ArgsOf(N, V)
  <2>1. \A i \in 0..n : r[i] \in ArgsOf(N, V)
    BY <1>1, RunType
  <2>2. \A i \in 0..Len(w) : s[i] \in ArgsOf(N, V)
    BY <1>2, RunType
  <2> QED BY <1>0, <2>1, <2>2
<1> DEFINE Bad == {i \in 0..n : ~Alike(r[i], s[i])}
<1>4. n \in Nat
  OBVIOUS
<1>5. Bad = {}
  <2> SUFFICES ASSUME Bad # {} PROVE FALSE
    OBVIOUS
  <2>1. Bad \in SUBSET Nat
    OBVIOUS
  <2>2. PICK i \in Bad : \A k \in Bad : i <= k
    BY <2>1, SmallestOf
  <2>3. CASE i = 0
    <3>1. r[0] = y /\ s[0] = z
      BY <1>1, <1>2 DEF IngestRun
    <3> QED BY <2>2, <2>3, <3>1
  <2>4. CASE i # 0
    <3>1. i \in 1..n /\ i - 1 \in 0..n /\ i - 1 \notin Bad
      BY <2>2, <2>4
    <3> DEFINE a == r[i - 1]
               b == s[i - 1]
    <3>2. /\ a \in ArgsOf(N, V) /\ b \in ArgsOf(N, V) /\ u[i] \in MentionOf(N, V) /\ w[i] \in MentionOf(N, V)
          /\ r[i] = ingest(a, u[i]) /\ s[i] = ingest(b, w[i]) /\ w[i] = Saved(u[i])
      BY <1>0, <1>1, <1>2, <1>3, <3>1 DEF IngestRun
    <3>3. Alike(a, b)
      BY <3>1
    <3> HIDE DEF a, b
    <3>4. Alike(ingest(a, u[i]), ingest(b, Saved(u[i])))
      BY <3>2, <3>3, IngestAlike
    <3> QED BY <2>2, <3>2, <3>4
  <2> QED BY <2>3, <2>4
<1>6. Alike(r[n], s[n])
  BY <1>4, <1>5
<1> QED BY <1>1, <1>2, <1>6

\* Merged, two collections that were saved and read back give the words they gave.
LEMMA SavedWords ==
  ASSUME NEW N, NEW V, NEW y \in ArgsOf(N, V), NEW z \in ArgsOf(N, V)
  PROVE  to_list(merge_args(<< <<"args", merge_args(encode_args(y))>>, <<"args", merge_args(encode_args(z))>> >>))
           = to_list(merge_args(<< <<"args", y>>, <<"args", z>> >>))
<1> DEFINE W == Widened(V)
           u == Mentioned(y)
           v == Mentioned(z)
           u2 == SavedAll(u)
           v2 == SavedAll(v)
           y2 == merge_args(encode_args(y))
           z2 == merge_args(encode_args(z))
<1>1. u \in Seq(MentionOf(N, V)) /\ v \in Seq(MentionOf(N, V))
  BY MentionedType
<1>2. u \in Seq(MentionOf(N, W)) /\ u2 \in Seq(MentionOf(N, W)) /\ Keeps(u, u2)
  BY <1>1, SavedType
<1>3. v \in Seq(MentionOf(N, W)) /\ v2 \in Seq(MentionOf(N, W)) /\ Keeps(v, v2)
  BY <1>1, SavedType
<1>4. y2 = Canon(u2) /\ z2 = Canon(v2)
  BY DecodedIs
<1> HIDE DEF W, u, v, u2, v2, y2, z2
<1>5. Canon(u2) \in ArgsOf(N, W) /\ Canon(v2) \in ArgsOf(N, W) /\ Canon(u) \in ArgsOf(N, W)
  BY <1>2, <1>3, EmptyType, TakenType DEF Canon
<1> DEFINE Args(a) == <<"args", a>>
<1>6. \A a : Given(Args(a)) = Mentioned(a)
  BY DEF Given
<1>7. merge_args(<<Args(y), Args(z)>>) = Taken(Canon(u), v)
  BY <1>1, <1>6, MergeTwo DEF u, v
<1>8. /\ Mentioned(y2) \in Seq(MentionOf(N, W)) /\ Mentioned(z2) \in Seq(MentionOf(N, W))
  BY <1>4, <1>5, MentionedType
<1>9. merge_args(<<Args(y2), Args(z2)>>) = Taken(Canon(Mentioned(y2)), Mentioned(z2))
      /\ Canon(Mentioned(y2)) \in ArgsOf(N, W)
  BY <1>6, <1>8, MergeTwo
<1>10. Taken(EmptyArgs, Mentioned(y2)) = Canon(u2)
  <2>1. merge_from(EmptyArgs, y2) = Taken(EmptyArgs, Mentioned(y2))
    BY DEF merge_from, Taken
  <2>2. merge_from(EmptyArgs, Canon(u2)) = Taken(EmptyArgs, u2)
    BY <1>2, EmptyType, MergeCanon
  <2> QED BY <1>4, <2>1, <2>2 DEF Canon
<1>11. ASSUME NEW x \in ArgsOf(N, W) PROVE Taken(x, Mentioned(z2)) = Taken(x, v2)
  <2>1. merge_from(x, z2) = Taken(x, Mentioned(z2))
    BY DEF merge_from, Taken
  <2>2. merge_from(x, Canon(v2)) = Taken(x, v2)
    BY <1>3, MergeCanon
  <2> QED BY <1>4, <2>1, <2>2
<1>12. merge_args(<<Args(y2), Args(z2)>>) = Taken(Canon(u2), v2)
  BY <1>5, <1>9, <1>10, <1>11 DEF Canon
<1>13. Alike(EmptyArgs, EmptyArgs)
  BY DEF Alike, EmptyArgs
<1>14. Alike(Canon(u), Canon(u2))
  BY <1>2, <1>13, EmptyType, TakenAlike DEF Canon
<1>15. Alike(Taken(Canon(u), v), Taken(Canon(u2), v2))
  BY <1>3, <1>5, <1>14, TakenAlike
<1>16. Taken(Canon(u), v) \in ArgsOf(N, W) /\ Taken(Canon(u2), v2) \in ArgsOf(N, W)
  BY <1>3, <1>5, TakenType
<1>17. to_list(Taken(Canon(u), v)) = to_list(Taken(Canon(u2), v2))
  BY <1>15, <1>16, AlikeWords
<1> QED BY <1>7, <1>12, <1>17 DEF y2, z2

---------------------------------------------------------------------------
(* The words of a sequence of mentions: a positional argument where it is, *)
(* a keyword where it is first mentioned, with the value of its last       *)
(* mention.                                                                *)

Same(u, i, j) == u[i][1] = "kw" /\ u[j][1] = "kw" /\ u[i][2] = u[j][2]
LastOf(u, i) == CHOOSE j \in DOMAIN u : Same(u, i, j) /\ \A m \in DOMAIN u : Same(u, i, m) => m <= j
Words(u, i) ==
  CASE u[i][1] = "pos" -> << ARG_ESCAPER(u[i][2]) >>
    [] \E j \in 1..i - 1 : Same(u, i, j) -> <<>>
    [] OTHER -> export_keyword(u[i][2], u[LastOf(u, i)][3])

\* The same with the values that f gives, of the mentions and of the items.
WordsWith(u, f, i) ==
  IF u[i][1] = "pos" THEN << ARG_ESCAPER(u[i][2]) >>
  ELSE IF \E j \in 1..i - 1 : Same(u, i, j) THEN <<>> ELSE export_keyword(u[i][2], f[u[i][2]])
ItemWords(items, f, i) ==
  IF items[i][1] = "pos" THEN << ARG_ESCAPER(items[i][2]) >>
  ELSE export_keyword(items[i][2], f[items[i][2]])

\* The shell words that names and values give are in W.
Speaks(N, V, W) ==
  /\ \A v \in V : ARG_ESCAPER(v) \in W
  /\ \A n \in N, v \in V : export_keyword(n, v) \in Seq(W)
IsValue(v) == v[1] \in {"list", "tuple"} => \E S : v[2] \in Seq(S)
LEMMA KeywordLength ==
  ASSUME NEW n, NEW v, IsValue(v), NEW words, words = export_keyword(n, v)
  PROVE  \E k \in Nat : DOMAIN words = 1..k /\ words = [i \in 1..k |-> words[i]]
<1>1. CASE v[1] = "none"
  <2>0. ~IsFlat(v)
    BY <1>1 DEF IsFlat
  <2>1. words = <<>>
    BY <1>1, <2>0 DEF export_keyword
  <2>2. DOMAIN words = 1..0 /\ words = [i \in 1..0 |-> words[i]]
    BY <2>1
  <2> QED BY <2>2
<1>2. CASE v[1] # "none" /\ v[1] = "bool"
  <2>0. ~IsFlat(v)
    BY <1>2 DEF IsFlat
  <2>1. PICK word : words = << word >>
    BY <1>2, <2>0 DEF export_keyword
  <2>2. DOMAIN words = 1..1 /\ words = [i \in 1..1 |-> words[i]]
    BY <2>1
  <2> QED BY <2>2
<1>3. CASE v[1] \notin {"none", "bool"} /\ IsFlat(v)
  <2>1. PICK S : v[2] \in Seq(S)
    BY <1>3 DEF IsFlat, IsValue
  <2>2. words = [i \in DOMAIN v[2] |-> <<"flag", n, ARG_ESCAPER(v[2][i])>>]
    BY <1>3 DEF export_keyword
  <2>3. DOMAIN v[2] = 1..Len(v[2]) /\ Len(v[2]) \in Nat
    BY <2>1
  <2>4. DOMAIN words = 1..Len(v[2]) /\ words = [i \in 1..Len(v[2]) |-> words[i]]
    BY <2>2, <2>3
  <2> QED BY <2>3, <2>4
<1>4. CASE v[1] \notin {"none", "bool"} /\ ~IsFlat(v)
  <2>1. words = << <<"flag", n, ARG_ESCAPER(v)>> >>
    BY <1>4 DEF export_keyword
  <2>2. DOMAIN words = 1..1 /\ words = [i \in 1..1 |-> words[i]]
    BY <2>1
  <2> QED BY <2>2
<1> QED BY <1>1, <1>2, <1>3, <1>4

LEMMA WordsExist ==
  ASSUME NEW N, NEW V, \A v \in V : IsValue(v)
  PROVE  \E W : Speaks(N, V, W)
<1> DEFINE Said(p) == export_keyword(p[1], p[2])
           One == {ARG_ESCAPER(v) : v \in V}
           Of(p) == {Said(p)[i] : i \in DOMAIN Said(p)}
           Many == UNION {Of(p) : p \in N \X V}
           W == One \cup Many
<1>1. \A v \in V : ARG_ESCAPER(v) \in W
  OBVIOUS
<1>2. ASSUME NEW n \in N, NEW v \in V PROVE export_keyword(n, v) \in Seq(W)
  <2> DEFINE p == <<n, v>>
  <2>1. p \in N \X V /\ Said(p) = export_keyword(n, v)
    OBVIOUS
  <2> HIDE DEF p, Said
  <2>2. \A i \in DOMAIN Said(p) : Said(p)[i] \in Of(p)
    OBVIOUS
  <2> HIDE DEF Of
  <2>3. \A i \in DOMAIN Said(p) : Said(p)[i] \in W
    BY <2>1, <2>2
  <2> HIDE DEF W
  <2> DEFINE words == export_keyword(n, v)
  <2>4. \E k \in Nat : DOMAIN words = 1..k /\ words = [i \in 1..k |-> words[i]]
    BY KeywordLength
  <2>5. \A i \in DOMAIN words : words[i] \in W
    BY <2>1, <2>3
  <2> HIDE DEF words
  <2>6. PICK k \in Nat : DOMAIN words = 1..k /\ words = [i \in 1..k |-> words[i]]
    BY <2>4
  <2>7. words \in [1..k -> W]
    BY <2>5, <2>6
  <2>8. words \in Seq(W)
    BY <2>7
  <2> QED BY <2>8 DEF words
<1> HIDE DEF W
<1> QED BY <1>1, <1>2 DEF Speaks

\* A flattened sequence with one block more.
LEMMA OneMore ==
  ASSUME NEW W, NEW n \in Nat, NEW g, \A i \in 1..n + 1 : g[i] \in Seq(W)
  PROVE  FlattenSeq([i \in 1..n + 1 |-> g[i]]) = FlattenSeq([i \in 1..n |-> g[i]]) \o g[n + 1]
<1> DEFINE s == [i \in 1..n |-> g[i]]
           t == [i \in 1..n + 1 |-> g[i]]
<1>1. s \in Seq(Seq(W)) /\ Len(s) = n
  OBVIOUS
<1>2. g[n + 1] \in Seq(W)
  OBVIOUS
<1>3. t = Append(s, g[n + 1])
  <2>1. t \in Seq(Seq(W)) /\ Len(t) = n + 1
    OBVIOUS
  <2>2. /\ Append(s, g[n + 1]) \in Seq(Seq(W)) /\ Len(Append(s, g[n + 1])) = n + 1
        /\ \A i \in 1..n : Append(s, g[n + 1])[i] = s[i]
        /\ Append(s, g[n + 1])[n + 1] = g[n + 1]
    BY <1>1, <1>2, AppendProperties
  <2>3. \A i \in 1..n + 1 : t[i] = Append(s, g[n + 1])[i]
    BY <2>2
  <2> QED BY <2>1, <2>2, <2>3
<1> HIDE DEF s, t
<1>4. FlattenSeq(Append(s, g[n + 1])) = FlattenSeq(s) \o g[n + 1]
  BY <1>1, <1>2, FlattenAppend
<1> QED BY <1>3, <1>4 DEF s, t

\* What a name has after k mentions: the value of the last that names it.
Settled(u, k, y) ==
  /\ \A j \in 1..k : u[j][1] = "kw" => u[j][2] \in DOMAIN y.kwvalues
  /\ \A n \in DOMAIN y.kwvalues :
       \E j \in 1..k : /\ u[j][1] = "kw" /\ u[j][2] = n /\ y.kwvalues[n] = u[j][3]
                       /\ \A m \in j + 1..k : ~(u[m][1] = "kw" /\ u[m][2] = n)
LEMMA SettledRun ==
  ASSUME NEW N, NEW V, NEW u \in Seq(MentionOf(N, V)), NEW r, IngestRun(r, EmptyArgs, u)
  PROVE  \A k \in 0..Len(u) : r[k] \in ArgsOf(N, V) /\ Settled(u, k, r[k])
<1> DEFINE n == Len(u)
<1>0. n \in Nat
  OBVIOUS
<1>1. \A k \in 0..n : r[k] \in ArgsOf(N, V)
  BY EmptyType, RunType
<1> DEFINE Bad == {k \in 0..n : ~Settled(u, k, r[k])}
<1> SUFFICES ASSUME Bad # {} PROVE FALSE
  BY <1>1
<1>2. Bad \in SUBSET Nat
  OBVIOUS
<1>3. PICK k \in Bad : \A j \in Bad : k <= j
  BY <1>2, SmallestOf
<1>4. CASE k = 0
  <2>1. r[0] = EmptyArgs /\ DOMAIN EmptyArgs.kwvalues = {}
    BY DEF IngestRun, EmptyArgs
  <2>2. Settled(u, 0, r[0])
    BY <2>1 DEF Settled
  <2> QED BY <1>3, <1>4, <2>2
<1>5. CASE k # 0
  <2> DEFINE y == r[k - 1]
             z == r[k]
             m == u[k]
  <2>1. k \in 1..n /\ k - 1 \in 0..n /\ k - 1 \notin Bad
    BY <1>3, <1>5
  <2>2. z = ingest(y, m) /\ m \in MentionOf(N, V) /\ y \in ArgsOf(N, V) /\ Settled(u, k - 1, y)
    BY <1>1, <2>1 DEF IngestRun
  <2> HIDE DEF y, z
  <2>3. k \in Nat /\ k - 1 \in Nat /\ 1..k = 1..k - 1 \cup {k}
    BY <2>1
  <2>4. CASE m[1] = "pos"
    <3>1. z.kwvalues = y.kwvalues
      BY <2>2, <2>4, IngestPositional
    <3>2. \A j \in 1..k : u[j][1] = "kw" => u[j][2] \in DOMAIN z.kwvalues
      BY <2>2, <2>3, <2>4, <3>1 DEF Settled
    <3>3. ASSUME NEW name \in DOMAIN z.kwvalues
          PROVE  \E j \in 1..k : /\ u[j][1] = "kw" /\ u[j][2] = name /\ z.kwvalues[name] = u[j][3]
                                 /\ \A i \in j + 1..k : ~(u[i][1] = "kw" /\ u[i][2] = name)
      <4>1. PICK j \in 1..k - 1 : /\ u[j][1] = "kw" /\ u[j][2] = name /\ y.kwvalues[name] = u[j][3]
                                  /\ \A i \in j + 1..k - 1 : ~(u[i][1] = "kw" /\ u[i][2] = name)
        BY <2>2, <3>1, <3>3 DEF Settled
      <4>2. j \in 1..k /\ \A i \in j + 1..k : i \in j + 1..k - 1 \/ i = k
        BY <2>3
      <4> QED BY <2>4, <3>1, <4>1, <4>2
    <3> QED BY <3>2, <3>3, <1>3 DEF Settled, z
  <2>5. CASE m[1] = "kw"
    <3>1. Takes(y, m, z)
      BY <2>2, <2>5, IngestKeyword
    <3>2. \A j \in 1..k : u[j][1] = "kw" => u[j][2] \in DOMAIN z.kwvalues
      BY <2>2, <2>3, <2>5, <3>1 DEF Settled, Takes
    <3>3. ASSUME NEW name \in DOMAIN z.kwvalues
          PROVE  \E j \in 1..k : /\ u[j][1] = "kw" /\ u[j][2] = name /\ z.kwvalues[name] = u[j][3]
                                 /\ \A i \in j + 1..k : ~(u[i][1] = "kw" /\ u[i][2] = name)
      <4>1. CASE name = m[2]
        <5>1. k \in 1..k /\ \A i \in k + 1..k : FALSE
          BY <2>3
        <5> QED BY <2>5, <3>1, <4>1, <5>1 DEF Takes
      <4>2. CASE name # m[2]
        <5>1. name \in DOMAIN y.kwvalues /\ z.kwvalues[name] = y.kwvalues[name]
          BY <3>1, <3>3, <4>2 DEF Takes
        <5>2. PICK j \in 1..k - 1 : /\ u[j][1] = "kw" /\ u[j][2] = name /\ y.kwvalues[name] = u[j][3]
                                    /\ \A i \in j + 1..k - 1 : ~(u[i][1] = "kw" /\ u[i][2] = name)
          BY <2>2, <5>1 DEF Settled
        <5>3. j \in 1..k /\ \A i \in j + 1..k : i \in j + 1..k - 1 \/ i = k
          BY <2>3
        <5> QED BY <4>2, <5>1, <5>2, <5>3
      <4> QED BY <4>1, <4>2
    <3> QED BY <3>2, <3>3, <1>3 DEF Settled, z
  <2> QED BY <2>2, <2>4, <2>5, MentionIs
<1> QED BY <1>4, <1>5


\* With given values, the mentions and the items made of them give the same words.
LEMMA WordsFold ==
  ASSUME NEW N, NEW V, NEW W, Speaks(N, V, W), NEW u \in Seq(MentionOf(N, V)), NEW f,
         \A i \in DOMAIN u : u[i][1] = "kw" => f[u[i][2]] \in V
  PROVE  FlattenSeq([i \in DOMAIN u |-> WordsWith(u, f, i)])
           = FlattenSeq([i \in DOMAIN Canon(u).items |-> ItemWords(Canon(u).items, f, i)])
<1> DEFINE n == Len(u)
<1>1. PICK r : IngestRun(r, EmptyArgs, u) /\ Canon(u) = r[n]
  <2>1. \E r : IngestRun(r, EmptyArgs, u) /\ Taken(EmptyArgs, u) = r[n]
    BY TakenRun
  <2> QED BY <2>1 DEF Canon
<1>2. \A k \in 0..n : r[k] \in ArgsOf(N, V) /\ Settled(u, k, r[k])
  BY <1>1, SettledRun
<1>3. n \in Nat /\ DOMAIN u = 1..n
  OBVIOUS
<1>4. ASSUME NEW i \in 1..n
      PROVE  /\ u[i] \in MentionOf(N, V)
             /\ u[i][1] = "kw" => u[i][2] \in N /\ f[u[i][2]] \in V
             /\ u[i][1] = "pos" => u[i][2] \in V
  <2>1. u[i] \in MentionOf(N, V)
    OBVIOUS
  <2> QED BY <1>3, <2>1, MentionIs
<1>5. ASSUME NEW i \in 1..n PROVE WordsWith(u, f, i) \in Seq(W)
  <2>1. CASE u[i][1] = "pos"
    <3>1. ARG_ESCAPER(u[i][2]) \in W
      BY <1>4, <2>1 DEF Speaks
    <3>2. WordsWith(u, f, i) = << ARG_ESCAPER(u[i][2]) >>
      BY <2>1 DEF WordsWith
    <3> QED BY <3>1, <3>2
  <2>2. CASE u[i][1] # "pos" /\ \E j \in 1..i - 1 : Same(u, i, j)
    <3>1. WordsWith(u, f, i) = <<>>
      BY <2>2 DEF WordsWith
    <3> QED BY <3>1
  <2>3. CASE u[i][1] # "pos" /\ ~ \E j \in 1..i - 1 : Same(u, i, j)
    <3>1. WordsWith(u, f, i) = export_keyword(u[i][2], f[u[i][2]])
      BY <2>3 DEF WordsWith
    <3>2. u[i][2] \in N /\ f[u[i][2]] \in V
      BY <1>4, <2>3, MentionIs
    <3> QED BY <3>1, <3>2 DEF Speaks
  <2> QED BY <2>1, <2>2, <2>3
<1> DEFINE blocks(k) == [i \in 1..k |-> WordsWith(u, f, i)]
           given(k) == [i \in DOMAIN r[k].items |-> ItemWords(r[k].items, f, i)]
           Bad == {k \in 0..n : FlattenSeq(blocks(k)) # FlattenSeq(given(k))}
<1>6. Bad = {}
  <2> SUFFICES ASSUME Bad # {} PROVE FALSE
    OBVIOUS
  <2>1. Bad \in SUBSET Nat
    OBVIOUS
  <2>2. PICK k \in Bad : \A j \in Bad : k <= j
    BY <2>1, SmallestOf
  <2>3. CASE k = 0
    <3>1. r[0] = EmptyArgs /\ EmptyArgs.items = <<>>
      BY <1>1 DEF IngestRun, EmptyArgs
    <3>2. blocks(0) = <<>> /\ given(0) = <<>>
      BY <3>1
    <3> HIDE DEF blocks, given
    <3> QED BY <2>2, <2>3, <3>2
  <2>4. CASE k # 0
    <3> DEFINE y == r[k - 1]
               z == r[k]
               m == u[k]
               l == Len(y.items)
    <3>1. k \in 1..n /\ k - 1 \in 0..n /\ k - 1 \notin Bad
      BY <2>2, <2>4
    <3>2. /\ z = ingest(y, m) /\ m \in MentionOf(N, V) /\ y \in ArgsOf(N, V) /\ z \in ArgsOf(N, V)
          /\ Settled(u, k - 1, y)
      BY <1>1, <1>2, <1>4, <3>1 DEF IngestRun
    <3>3. FlattenSeq(blocks(k - 1)) = FlattenSeq(given(k - 1)) /\ FlattenSeq(blocks(k)) # FlattenSeq(given(k))
      BY <2>2, <3>1
    <3>4. k \in Nat /\ k - 1 \in Nat /\ (k - 1) + 1 = k
      BY <3>1
    <3>5. FlattenSeq(blocks(k)) = FlattenSeq(blocks(k - 1)) \o WordsWith(u, f, k)
      <4> DEFINE g == blocks(k)
      <4>1. \A i \in 1..k : g[i] = WordsWith(u, f, i)
        OBVIOUS
      <4>2. \A i \in 1..(k - 1) + 1 : g[i] \in Seq(W)
        BY <1>5, <3>1, <3>4, <4>1
      <4> HIDE DEF g
      <4>3. FlattenSeq([i \in 1..(k - 1) + 1 |-> g[i]]) = FlattenSeq([i \in 1..k - 1 |-> g[i]]) \o g[(k - 1) + 1]
        BY <3>4, <4>2, OneMore
      <4>4. [i \in 1..(k - 1) + 1 |-> g[i]] = blocks(k) /\ [i \in 1..k - 1 |-> g[i]] = blocks(k - 1)
            /\ g[(k - 1) + 1] = WordsWith(u, f, k)
        BY <3>1, <3>4, <4>1
      <4> HIDE DEF blocks
      <4> QED BY <4>3, <4>4
    <3>6. /\ y.items \in Seq(ItemOf(N, V)) /\ l \in Nat /\ DOMAIN y.items = 1..l
          /\ \A i \in 1..l : y.items[i][1] = "kw" => y.items[i][2] \in DOMAIN y.kwvalues
      BY <3>2, ArgsParts
    <3> HIDE DEF y, z, m, l
    <3>7. ASSUME NEW i \in 1..l PROVE ItemWords(y.items, f, i) \in Seq(W)
      <4>1. y.items[i] \in ItemOf(N, V)
        BY <3>6
      <4>2. CASE y.items[i][1] = "pos"
        <5>1. ARG_ESCAPER(y.items[i][2]) \in W
          BY <4>1, <4>2, ItemIs DEF Speaks
        <5>2. ItemWords(y.items, f, i) = << ARG_ESCAPER(y.items[i][2]) >>
          BY <4>2 DEF ItemWords
        <5> QED BY <5>1, <5>2
      <4>3. CASE y.items[i][1] = "kw"
        <5>1. y.items[i][2] \in DOMAIN y.kwvalues
          BY <3>6, <4>3
        <5>2. PICK j \in 1..k - 1 : u[j][1] = "kw" /\ u[j][2] = y.items[i][2]
          BY <3>2, <5>1 DEF Settled
        <5>3. y.items[i][2] \in N /\ f[y.items[i][2]] \in V
          BY <1>4, <3>1, <5>2
        <5>4. ItemWords(y.items, f, i) = export_keyword(y.items[i][2], f[y.items[i][2]])
          BY <4>3 DEF ItemWords
        <5> QED BY <5>3, <5>4 DEF Speaks
      <4> QED BY <4>1, <4>2, <4>3, ItemIs
    <3> DEFINE base == [i \in 1..l |-> ItemWords(y.items, f, i)]
    <3>8. given(k - 1) = base
      BY <3>6 DEF y
    \* One item more gives its own words after the others.
    <3>9. ASSUME NEW item, NEW w, w \in Seq(W), z.items = Append(y.items, item),
                 (IF item[1] = "pos" THEN << ARG_ESCAPER(item[2]) >> ELSE export_keyword(item[2], f[item[2]])) = w,
                 item \in ItemOf(N, V)
          PROVE  FlattenSeq(given(k)) = FlattenSeq(base) \o w
      <4> DEFINE g == [i \in 1..l + 1 |-> ItemWords(z.items, f, i)]
      <4>1. /\ DOMAIN z.items = 1..l + 1 /\ z.items[l + 1] = item
            /\ \A i \in 1..l : z.items[i] = y.items[i]
        BY <3>6, <3>9, AppendProperties DEF l
      <4>2. \A i \in 1..l : ItemWords(z.items, f, i) = ItemWords(y.items, f, i)
        BY <4>1 DEF ItemWords
      <4>3. ItemWords(z.items, f, l + 1) = w
        BY <3>9, <4>1 DEF ItemWords
      <4>4. l + 1 \in 1..l + 1 /\ 1..l + 1 = 1..l \cup {l + 1}
        BY <3>6
      <4>5. /\ \A i \in 1..l : g[i] = ItemWords(y.items, f, i)
            /\ g[l + 1] = w /\ \A i \in 1..l + 1 : g[i] \in Seq(W)
        BY <3>7, <3>9, <4>2, <4>3, <4>4
      <4>6. given(k) = [i \in 1..l + 1 |-> g[i]]
        BY <4>1 DEF z
      <4> HIDE DEF g
      <4>7. FlattenSeq([i \in 1..l + 1 |-> g[i]]) = FlattenSeq([i \in 1..l |-> g[i]]) \o g[l + 1]
        BY <3>6, <4>5, OneMore
      <4>8. [i \in 1..l |-> g[i]] = base
        BY <4>5
      <4> HIDE DEF base, given
      <4> QED BY <4>5, <4>6, <4>7, <4>8
    <3>10. CASE m[1] = "pos"
      <4>1. z.items = Append(y.items, m) /\ m \in ItemOf(N, V)
        BY <3>2, <3>10, IngestPositional, MentionIs DEF ItemOf
      <4>2. WordsWith(u, f, k) = << ARG_ESCAPER(m[2]) >> /\ WordsWith(u, f, k) \in Seq(W)
        BY <1>5, <3>1, <3>10 DEF WordsWith, m
      <4>3. FlattenSeq(given(k)) = FlattenSeq(base) \o WordsWith(u, f, k)
        BY <3>9, <3>10, <4>1, <4>2
      <4> HIDE DEF blocks, given, base
      <4> QED BY <3>3, <3>5, <3>8, <4>3
    <3>11. CASE m[1] = "kw" /\ m[2] \in DOMAIN y.kwvalues
      <4>0. Takes(y, m, z)
        BY <3>2, <3>11, IngestKeyword
      <4>1. z.items = y.items
        BY <3>11, <4>0 DEF Takes
      <4>2. PICK j \in 1..k - 1 : u[j][1] = "kw" /\ u[j][2] = m[2]
        BY <3>2, <3>11 DEF Settled
      <4>3. WordsWith(u, f, k) = <<>>
        BY <3>11, <4>2 DEF WordsWith, Same, m
      <4>4. given(k) = given(k - 1)
        BY <4>1 DEF y, z
      <4>5. base \in Seq(Seq(W))
        BY <3>6, <3>7
      <4>6. FlattenSeq(given(k - 1)) \in Seq(W)
        BY <3>8, <4>5, FlattenType
      <4> HIDE DEF blocks, given, base
      <4>7. FlattenSeq(given(k - 1)) \o <<>> = FlattenSeq(given(k - 1))
        BY <4>6, ConcatEmptySeq
      <4> QED BY <3>3, <3>5, <4>3, <4>4, <4>7
    <3>12. CASE m[1] = "kw" /\ m[2] \notin DOMAIN y.kwvalues
      <4> DEFINE item == <<"kw", m[2]>>
      <4>0. Takes(y, m, z)
        BY <3>2, <3>12, IngestKeyword
      <4>1. z.items = Append(y.items, item)
        BY <3>12, <4>0 DEF Takes
      <4>2. \A j \in 1..k - 1 : ~(u[j][1] = "kw" /\ u[j][2] = m[2])
        BY <3>2, <3>12 DEF Settled
      <4>3. WordsWith(u, f, k) = export_keyword(m[2], f[m[2]]) /\ WordsWith(u, f, k) \in Seq(W)
        <5>1. ~ \E j \in 1..k - 1 : Same(u, k, j)
          BY <4>2 DEF Same, m
        <5>2. u[k] = m
          BY DEF m
        <5> QED BY <1>5, <3>1, <3>12, <5>1, <5>2 DEF WordsWith
      <4>4. item \in ItemOf(N, V) /\ item[1] = "kw" /\ item[2] = m[2]
        BY <3>2, <3>12, MentionIs DEF ItemOf
      <4> HIDE DEF item
      <4>5. FlattenSeq(given(k)) = FlattenSeq(base) \o WordsWith(u, f, k)
        BY <3>9, <4>1, <4>3, <4>4
      <4> HIDE DEF blocks, given, base
      <4> QED BY <3>3, <3>5, <3>8, <4>5
    <3> QED BY <3>2, <3>10, <3>11, <3>12, MentionIs
  <2> QED BY <2>3, <2>4
<1>7. FlattenSeq(blocks(n)) = FlattenSeq(given(n))
  <2>1. n \in 0..n
    BY <1>3
  <2> QED BY <1>6, <2>1
<1>8. blocks(n) = [i \in DOMAIN u |-> WordsWith(u, f, i)]
      /\ given(n) = [i \in DOMAIN Canon(u).items |-> ItemWords(Canon(u).items, f, i)]
  BY <1>1, <1>3
<1> HIDE DEF blocks, given
<1> QED BY <1>7, <1>8

\* The words of what has been merged, said of the mentions alone.
LEMMA WordsOf ==
  ASSUME NEW N, NEW V, \A v \in V : IsValue(v), NEW u \in Seq(MentionOf(N, V))
  PROVE  to_list(Canon(u)) = FlattenSeq([i \in DOMAIN u |-> Words(u, i)])
<1> DEFINE n == Len(u)
           y == Canon(u)
           f == y.kwvalues
<1>1. PICK r : IngestRun(r, EmptyArgs, u) /\ y = r[n]
  <2>1. \E r : IngestRun(r, EmptyArgs, u) /\ Taken(EmptyArgs, u) = r[n]
    BY TakenRun
  <2> QED BY <2>1 DEF Canon
<1>2. n \in Nat /\ DOMAIN u = 1..n
  OBVIOUS
<1>3. y \in ArgsOf(N, V) /\ Settled(u, n, y)
  <2>1. n \in 0..n
    BY <1>2
  <2> QED BY <1>1, <2>1, SettledRun
<1>4. PICK W : Speaks(N, V, W)
  BY WordsExist
<1> HIDE DEF y
<1>5. f \in [DOMAIN f -> V]
  BY <1>3, ArgsParts
<1>6. \A i \in DOMAIN u : u[i][1] = "kw" => f[u[i][2]] \in V
  BY <1>2, <1>3, <1>5 DEF Settled
<1>7. FlattenSeq([i \in DOMAIN u |-> WordsWith(u, f, i)])
        = FlattenSeq([i \in DOMAIN y.items |-> ItemWords(y.items, f, i)])
  BY <1>4, <1>6, WordsFold DEF y
<1>8. to_list(y) = FlattenSeq([i \in DOMAIN y.items |-> ItemWords(y.items, f, i)])
  BY DEF to_list, ItemWords
<1>9. ASSUME NEW i \in DOMAIN u PROVE WordsWith(u, f, i) = Words(u, i)
  <2>1. CASE u[i][1] = "pos"
    <3>1. ~ \E j \in 1..i - 1 : Same(u, i, j)
      BY <2>1 DEF Same
    <3> QED BY <2>1, <3>1 DEF WordsWith, Words
  <2>2. CASE u[i][1] = "kw" /\ \E j \in 1..i - 1 : Same(u, i, j)
    BY <2>2 DEF WordsWith, Words
  <2>3. CASE u[i][1] = "kw" /\ ~ \E j \in 1..i - 1 : Same(u, i, j)
    <3>1. WordsWith(u, f, i) = export_keyword(u[i][2], f[u[i][2]]) /\ Words(u, i) = export_keyword(u[i][2], u[LastOf(u, i)][3])
      BY <2>3 DEF WordsWith, Words
    <3>2. PICK j \in 1..n : /\ u[j][1] = "kw" /\ u[j][2] = u[i][2] /\ f[u[i][2]] = u[j][3]
                            /\ \A m \in j + 1..n : ~(u[m][1] = "kw" /\ u[m][2] = u[i][2])
      BY <1>2, <1>3, <2>3 DEF Settled
    <3>3. Same(u, i, j) /\ \A m \in DOMAIN u : Same(u, i, m) => m <= j
      BY <1>2, <2>3, <3>2 DEF Same
    <3>4. LastOf(u, i) = j
      <4> DEFINE IsLast(x) == x \in DOMAIN u /\ Same(u, i, x) /\ \A m \in DOMAIN u : Same(u, i, m) => m <= x
      <4>1. IsLast(j)
        BY <1>2, <3>2, <3>3
      <4>2. LastOf(u, i) = CHOOSE x \in DOMAIN u : Same(u, i, x) /\ \A m \in DOMAIN u : Same(u, i, m) => m <= x
        BY DEF LastOf
      <4>3. IsLast(LastOf(u, i))
        BY <4>1, <4>2
      <4>4. LastOf(u, i) <= j /\ j <= LastOf(u, i) /\ LastOf(u, i) \in 1..n
        BY <1>2, <4>1, <4>3
      <4> QED BY <1>2, <4>4
    <3> QED BY <3>1, <3>2, <3>4
  <2>4. u[i] \in MentionOf(N, V)
    BY <1>2
  <2> QED BY <2>1, <2>2, <2>3, <2>4, MentionIs
<1>10. [i \in DOMAIN u |-> WordsWith(u, f, i)] = [i \in DOMAIN u |-> Words(u, i)]
  BY <1>9
<1> QED BY <1>7, <1>8, <1>10 DEF y
=============================================================================
