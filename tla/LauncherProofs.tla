--------------------------- MODULE LauncherProofs ---------------------------
(***************************************************************************)
(* Proofs about Launcher, for every script of units, every set of Local    *)
(* tasks and every number of faults and of other launchers' units.         *)
(*                                                                         *)
(* The properties speak of rows, jobs and the end of the context; what     *)
(* ties them together is how far each unit has got.  A unit has a row of   *)
(* its own from Experiment.add on, a job only after the row says so, a     *)
(* handle exactly when its submission ended well; and whatever the loop    *)
(* still has to do for a unit is among the tasks to be collected.          *)
(***************************************************************************)
EXTENDS Launcher, FiniteSetTheorems, TLAPS

Launches == {"none", "ready", "awaiting", "ok", "failed"}
Submits  == {"none", "ready", "saved", "sent", "erring", "ok", "failed"}
Settles  == {"none", "ready", "waiting", "ok", "failed"}
Progress == {"queued", "running", "ok", "failed"}

RowsOf(owners) ==
  [owner : owners, backend : {"none", "local", "slurm"}, native : BOOLEAN, job : BOOLEAN,
   state : {"unknown", "completed", "failed", "stopped"}, message : BOOLEAN]

LauncherTypeOK ==
  /\ plan \in Scripts
  /\ context \in {"sync", "async"}
  /\ main \in {"body", "flush", "settle", "stopping", "final", "left", "crashed"}
  /\ raised \in BOOLEAN /\ error \in BOOLEAN
  /\ catalog \in [DOMAIN catalog -> RowsOf(units \cup {Other})]
  /\ id \in [units -> Nat]
  /\ launch \in [units -> Launches]
  /\ submit \in [units -> Submits]
  /\ settle \in [units -> Settles]
  /\ accepted \in [units -> BOOLEAN] /\ owned \in [units -> BOOLEAN]
  /\ futures \in [units -> [{} -> Progress] \cup [LocalTasks -> Progress]]
  /\ driver \in [units -> {"none", "running", "ok", "failed"}]
  /\ asked \in [units -> BOOLEAN] /\ unasked \in [units -> BOOLEAN]

\* The ids of the rows are 1, 2, ..., and a unit's row is its own.
OwnRows ==
  /\ \E k \in Nat : DOMAIN catalog = 1 .. k
  /\ \A u \in units : id[u] # 0 => id[u] \in DOMAIN catalog /\ RowOf(u).owner = u

\* How far a unit is: its tasks, and what they have made.
Stage(u) ==
  /\ launch[u] = "none" <=> id[u] = 0
  /\ submit[u] = "none" <=> launch[u] \in {"none", "ready"}
  /\ launch[u] \in Over => submit[u] \in Over
  /\ launch[u] = "ok" => submit[u] = "ok"
  /\ settle[u] # "none" => submit[u] \in Over
  /\ owned[u] <=> submit[u] = "ok"
  /\ accepted[u] =>
       plan[u].backend # "local" /\ submit[u] \in {"sent", "erring", "ok", "failed"}
  /\ DOMAIN futures[u] =
       IF plan[u].backend = "local" /\ submit[u] \in {"sent", "ok"} THEN LocalTasks ELSE {}
  /\ driver[u] # "none" <=> plan[u].backend = "attached" /\ submit[u] \in {"sent", "ok"}

\* What the row of a unit says of it.
Told(u) ==
  id[u] # 0 =>
    /\ submit[u] \notin {"none", "ready"} => RowOf(u).job
    /\ RowOf(u).backend =
         IF submit[u] # "ok" THEN "none"
         ELSE IF plan[u].backend = "local" THEN "local" ELSE "slurm"
    /\ submit[u] = "failed" => RowOf(u).message

\* What is not over, or failed and not yet known to have, is still to be collected.
Uncollected ==
  \A u \in units :
    /\ launch[u] \in {"ready", "awaiting"} => <<"launch", u>> \in pending
    /\ launch[u] = "failed" => error \/ <<"launch", u>> \in pending
    /\ settle[u] \in {"ready", "waiting"} => <<"settle", u>> \in pending
    /\ settle[u] = "failed" => error \/ <<"settle", u>> \in pending

\* What a unit that has been waited for has left.
Waited(u) ==
  settle[u] = "ok" =>
    /\ Attached(u) => driver[u] \in Over
    /\ ~raised /\ owned[u] /\ plan[u].backend = "local" => RowOf(u).state # "unknown"

\* FailedUnitIsStopped and LocalOutcomeIsTrue, of one unit.
FailureTold(u) ==
  launch[u] = "failed" /\ id[u] # 0 /\ RowOf(u).backend = "slurm" =>
    \/ unasked[u]
    \/ /\ asked[u]
       /\ \/ RowOf(u).state = "failed" /\ RowOf(u).message
          \/ RowOf(u).state = "stopped" /\ ~RowOf(u).message /\ Attached(u)

OutcomeTold(u) ==
  id[u] # 0 /\ plan[u].backend = "local" /\ RowOf(u).state # "unknown" =>
    AllDone(u) /\ DOMAIN futures[u] # {} /\ RowOf(u).state = Outcome(u)

UnitInv(u) == Stage(u) /\ Told(u) /\ FailureTold(u) /\ OutcomeTold(u) /\ Waited(u)

\* What the context has seen to, by the part of its exit.
Exiting ==
  /\ main = "body" => ~raised
  /\ main = "stopping" => error
  /\ main \notin {"body", "crashed"} /\ ~raised => \A u \in units : id[u] # 0
  /\ main \in {"settle", "final", "left"} /\ ~error =>
       \A u \in units : id[u] # 0 => settle[u] # "none"
  /\ context = "sync" /\ main \in {"stopping", "final"} => pending = {}
  /\ main = "left" /\ (context = "sync" \/ ~error) => pending = {}
  /\ main \in {"body", "flush", "settle"} => visited = {}
  /\ context = "sync" /\ main \in {"stopping", "final", "left"} =>
       \A u \in units : (main = "stopping" => u \in visited) /\ Held(u) =>
         asked[u] \/ \E v \in units : unasked[v]

\* A row says "stopped" only once the exit has come to its attached drivers.
StoppedAtExit ==
  /\ main \in {"body", "flush"} => \A u \in units : settle[u] = "none"
  /\ \A u \in units : id[u] # 0 /\ RowOf(u).state = "stopped" =>
       main \notin {"body", "flush"} /\ (raised \/ error)

Kept == LauncherTypeOK /\ OwnRows /\ \A u \in units : UnitInv(u)

LInv == Kept /\ Uncollected /\ Exiting /\ StoppedAtExit

-----------------------------------------------------------------------------
LEMMA InitLInv == Init => LInv
<1> SUFFICES ASSUME Init PROVE LInv
  OBVIOUS
<1> USE DEF Init
<1>1. LauncherTypeOK
  <2>1. catalog \in [DOMAIN catalog -> RowsOf(units \cup {Other})]
    OBVIOUS
  <2>2. futures \in [units -> [{} -> Progress] \cup [LocalTasks -> Progress]]
    OBVIOUS
  <2> QED
    BY <2>1, <2>2 DEF LauncherTypeOK, Launches, Submits, Settles
<1>2. OwnRows
  <2>1. DOMAIN catalog = 1 .. 0 /\ 0 \in Nat
    OBVIOUS
  <2> QED
    BY <2>1 DEF OwnRows
<1>3. ASSUME NEW u \in units PROVE UnitInv(u)
  BY <1>3 DEF UnitInv, Stage, Told, FailureTold, OutcomeTold, Waited, Over
<1>4. Uncollected /\ Exiting /\ StoppedAtExit
  BY DEF Uncollected, Exiting, StoppedAtExit, Held, Attached
<1> QED
  BY <1>1, <1>2, <1>3, <1>4 DEF LInv, Kept

-----------------------------------------------------------------------------
(* The rows. *)

\* A unit has a number of its own, which is not another launcher's, and a backend.
LEMMA UnitNumbers ==
  ASSUME LauncherTypeOK, NEW u \in units
  PROVE  u \in Nat \ {0} /\ u # Other /\ plan[u].backend \in {"local", "slurm", "attached"}
BY LauncherAssumption DEF LauncherAssumption, LauncherTypeOK, units, Other

\* A row written for a unit lands in its own row and in no other.
LEMMA UpdateFrames ==
  ASSUME LauncherTypeOK, OwnRows, NEW u \in units, id[u] # 0, id' = id,
         NEW row \in RowsOf({u}), update(u, row)
  PROVE  /\ DOMAIN catalog' = DOMAIN catalog
         /\ catalog' \in [DOMAIN catalog' -> RowsOf(units \cup {Other})]
         /\ RowOf(u)' = row
         /\ \A v \in units \ {u} : id[v] # 0 => RowOf(v)' = RowOf(v)
         /\ \A i \in DOMAIN catalog : catalog'[i].owner = catalog[i].owner
         /\ \A i \in DOMAIN catalog : catalog[i].owner # u => catalog'[i] = catalog[i]
<1>1. id[u] \in DOMAIN catalog /\ catalog[id[u]].owner = u
  BY DEF OwnRows, RowOf
<1>2. row \in RowsOf(units \cup {Other}) /\ row.owner = u
  BY DEF RowsOf
<1>3. catalog' = [catalog EXCEPT ![id[u]] = row]
  BY DEF update
<1>4. \A v \in units \ {u} : id[v] # 0 => id[v] \in DOMAIN catalog /\ id[v] # id[u]
  BY <1>1 DEF OwnRows, RowOf
<1>5. /\ DOMAIN catalog' = DOMAIN catalog
      /\ catalog'[id[u]] = row
      /\ \A i \in DOMAIN catalog \ {id[u]} : catalog'[i] = catalog[i]
  BY <1>1, <1>3
<1>6. catalog' \in [DOMAIN catalog -> RowsOf(units \cup {Other})]
  BY <1>1, <1>2, <1>3 DEF LauncherTypeOK
<1>7. RowOf(u)' = row /\ \A v \in units \ {u} : id[v] # 0 => RowOf(v)' = RowOf(v)
  BY <1>4, <1>5 DEF RowOf
<1>8. \A i \in DOMAIN catalog : catalog[i].owner # u => i # id[u]
  BY <1>1
<1>9. \A i \in DOMAIN catalog : catalog'[i].owner = catalog[i].owner
  BY <1>1, <1>2, <1>5
<1> QED
  BY <1>5, <1>6, <1>7, <1>8, <1>9

\* What a unit's row is, for the updates of it.
LEMMA RowType ==
  ASSUME LauncherTypeOK, OwnRows, NEW u \in units, id[u] # 0
  PROVE  RowOf(u) \in RowsOf({u})
<1>1. RowOf(u) \in RowsOf(units \cup {Other}) /\ RowOf(u).owner = u
  BY DEF OwnRows, RowOf, LauncherTypeOK
<1> QED
  BY <1>1 DEF RowsOf

\* A new row is the next one, and the rows before it stay.
LEMMA CreateFrames ==
  ASSUME LauncherTypeOK, OwnRows, NEW owner \in units \cup {Other}, create_work_unit(owner)
  PROVE  /\ NextId \in Nat \ {0} /\ NextId \notin DOMAIN catalog
         /\ \E k \in Nat : DOMAIN catalog' = 1 .. k
         /\ DOMAIN catalog' = DOMAIN catalog \cup {NextId}
         /\ catalog' \in [DOMAIN catalog' -> RowsOf(units \cup {Other})]
         /\ \A i \in DOMAIN catalog : catalog'[i] = catalog[i]
         /\ catalog'[NextId] = Row(owner)
<1>1. PICK k \in Nat : DOMAIN catalog = 1 .. k
  BY DEF OwnRows
<1>2. NextId = k + 1
  <2>1. Cardinality(1 .. k) = k
    BY FS_Interval
  <2> QED
    BY <1>1, <2>1 DEF NextId
<1>3. DOMAIN catalog \cup {NextId} = 1 .. k + 1
  BY <1>1, <1>2
<1>4. Row(owner) \in RowsOf(units \cup {Other})
  BY DEF Row, RowsOf
<1>5. catalog' = [i \in 1 .. k + 1 |-> IF i = k + 1 THEN Row(owner) ELSE catalog[i]]
  BY <1>2, <1>3 DEF create_work_unit
<1>6. DOMAIN catalog' = 1 .. k + 1 /\ k + 1 \in Nat
  BY <1>5
<1>7. \A i \in DOMAIN catalog : catalog[i] \in RowsOf(units \cup {Other})
  BY DEF LauncherTypeOK
<1>8. \A i \in 1 .. k + 1 : i = k + 1 \/ i \in DOMAIN catalog
  BY <1>1
<1>9. catalog' \in [1 .. k + 1 -> RowsOf(units \cup {Other})]
  BY <1>4, <1>5, <1>7, <1>8
<1>10. NextId \in Nat \ {0} /\ NextId \notin DOMAIN catalog
  BY <1>1, <1>2
<1>11. \A i \in DOMAIN catalog : i \in 1 .. k + 1 /\ i # k + 1
  BY <1>1
<1>12. \A i \in DOMAIN catalog : catalog'[i] = catalog[i]
  BY <1>5, <1>11
<1>13. catalog'[NextId] = Row(owner)
  BY <1>2, <1>5
<1> QED
  BY <1>3, <1>6, <1>9, <1>10, <1>12, <1>13

\* What stop() writes in the row of a unit.
Intent(u, s) == [RowOf(u) EXCEPT !.state = s, !.message = (s = "failed")]

LEMMA IntentIs ==
  ASSUME LauncherTypeOK, OwnRows, NEW u \in units, id[u] # 0, NEW s \in {"failed", "stopped"}
  PROVE  /\ Intent(u, s) \in RowsOf({u})
         /\ Intent(u, s).backend = RowOf(u).backend /\ Intent(u, s).job = RowOf(u).job
         /\ Intent(u, s).state = s /\ (Intent(u, s).message <=> s = "failed")
<1> DEFINE r == RowOf(u)
<1>1. r \in RowsOf({u})
  BY RowType
<1>2. Intent(u, s) = [r EXCEPT !.state = s, !.message = (s = "failed")]
  BY DEF Intent
<1> HIDE DEF r
<1>3. PICK why \in BOOLEAN : why = (s = "failed")
  <2>1. (s = "failed") \in BOOLEAN
    OBVIOUS
  <2> QED
    BY <2>1
<1> DEFINE row == [r EXCEPT !.state = s, !.message = why]
<1>4. /\ row \in RowsOf({u})
      /\ row.backend = r.backend /\ row.job = r.job
      /\ row.state = s /\ row.message = why
  BY <1>1 DEF RowsOf
<1>5. Intent(u, s) = row
  BY <1>2, <1>3, Zenon
<1> HIDE DEF row
<1> QED
  BY <1>3, <1>4, <1>5, Zenon DEF r

\* What stop() may do to a unit: tell its row, ask its job, or fail to.
LEMMA StopsDoes ==
  ASSUME LauncherTypeOK, NEW u \in units, NEW s, stops(u, s)
  PROVE  /\ asked' \in [units -> BOOLEAN] /\ unasked' = unasked
         /\ \A v \in units : (v # u => asked'[v] = asked[v]) /\ (asked[v] => asked'[v])
         /\ RowOf(u).backend # "slurm" => UNCHANGED <<catalog, asked>>
         /\ RowOf(u).backend = "slurm" => asked'[u] /\ update(u, Intent(u, s))
<1>1. CASE Stoppable(u)
  BY <1>1 DEF stops, Stoppable, intended, Intent, LauncherTypeOK
<1>2. CASE ~Stoppable(u)
  BY <1>2 DEF stops, Stoppable, LauncherTypeOK
<1> QED
  BY <1>1, <1>2

LEMMA StopFailsDoes ==
  ASSUME LauncherTypeOK, NEW u \in units, NEW s, stopFails(u, s)
  PROVE  /\ asked' \in [units -> BOOLEAN] /\ unasked' \in [units -> BOOLEAN]
         /\ \A v \in units : /\ v # u => asked'[v] = asked[v] /\ unasked'[v] = unasked[v]
                             /\ asked[v] => asked'[v]
                             /\ unasked[v] => unasked'[v]
         /\ RowOf(u).backend = "slurm" /\ unasked'[u]
         /\ catalog' = catalog \/ update(u, Intent(u, s))
<1>1. \/ asked' = asked
      \/ asked' = [asked EXCEPT ![u] = TRUE]
  BY DEF stopFails
<1>2. unasked' = [unasked EXCEPT ![u] = TRUE] /\ RowOf(u).backend = "slurm"
  BY DEF stopFails, Stoppable
<1>3. catalog' = catalog \/ update(u, Intent(u, s))
  BY DEF stopFails, intended, Intent
<1>4. asked' \in [units -> BOOLEAN] /\ unasked' \in [units -> BOOLEAN]
  BY <1>1, <1>2 DEF LauncherTypeOK
<1>5. \A v \in units : (v # u => asked'[v] = asked[v]) /\ (asked[v] => asked'[v])
  BY <1>1 DEF LauncherTypeOK
<1>6. \A v \in units : (v # u => unasked'[v] = unasked[v]) /\ (unasked[v] => unasked'[v])
  BY <1>2 DEF LauncherTypeOK
<1> QED
  BY <1>2, <1>3, <1>4, <1>5, <1>6 DEF LauncherTypeOK

LEMMA StopDoes ==
  ASSUME LauncherTypeOK, NEW u \in units, NEW s, stop(u, s)
  PROVE  /\ asked' \in [units -> BOOLEAN] /\ unasked' \in [units -> BOOLEAN]
         /\ \A v \in units : /\ v # u => asked'[v] = asked[v] /\ unasked'[v] = unasked[v]
                             /\ asked[v] => asked'[v]
                             /\ unasked[v] => unasked'[v]
         /\ catalog' = catalog \/ update(u, Intent(u, s))
         /\ RowOf(u).backend # "slurm" => UNCHANGED <<catalog, asked, unasked>>
         /\ RowOf(u).backend = "slurm" => unasked'[u] \/ (asked'[u] /\ update(u, Intent(u, s)))
<1>1. CASE stops(u, s)
  <2>1. /\ asked' \in [units -> BOOLEAN] /\ unasked' = unasked
        /\ \A v \in units : (v # u => asked'[v] = asked[v]) /\ (asked[v] => asked'[v])
        /\ RowOf(u).backend # "slurm" => UNCHANGED <<catalog, asked>>
        /\ RowOf(u).backend = "slurm" => asked'[u] /\ update(u, Intent(u, s))
    BY <1>1, StopsDoes
  <2> QED
    BY <2>1 DEF LauncherTypeOK
<1>2. CASE stopFails(u, s)
  BY <1>2, StopFailsDoes
<1> QED
  BY <1>1, <1>2 DEF stop

-----------------------------------------------------------------------------
(* Steps that are about one unit. *)

\* A step that is not about this unit.
Untouched(v) ==
  /\ id'[v] = id[v] /\ launch'[v] = launch[v] /\ submit'[v] = submit[v]
  /\ settle'[v] = settle[v] /\ accepted'[v] = accepted[v] /\ owned'[v] = owned[v]
  /\ futures'[v] = futures[v] /\ driver'[v] = driver[v]
  /\ asked'[v] = asked[v] /\ unasked'[v] = unasked[v]
  /\ id[v] # 0 => RowOf(v)' = RowOf(v)

LEMMA UntouchedKeeps ==
  ASSUME NEW v \in units, UnitInv(v), Untouched(v), plan' = plan, raised => raised'
  PROVE  UnitInv(v)'
<1> USE DEF Untouched
<1>1. Stage(v)'
  BY DEF UnitInv, Stage
<1>2. Told(v)'
  BY DEF UnitInv, Told
<1>3. FailureTold(v)'
  BY DEF UnitInv, FailureTold, Attached
<1>4. OutcomeTold(v)'
  BY DEF UnitInv, OutcomeTold, AllDone, Outcome
<1>5. Waited(v)'
  BY DEF UnitInv, Stage, Waited, Attached
<1> QED
  BY <1>1, <1>2, <1>3, <1>4, <1>5 DEF UnitInv

LEMMA KeptBy ==
  ASSUME Kept, NEW u \in units, plan' = plan, raised => raised',
         LauncherTypeOK', OwnRows', UnitInv(u)',
         \A v \in units \ {u} : Untouched(v)
  PROVE  Kept'
<1>1. units' = units
  BY DEF units
<1>2. \A v \in units \ {u} : UnitInv(v)'
  BY UntouchedKeeps DEF Kept
<1> QED
  BY <1>1, <1>2 DEF Kept

\* The rows, when only the row of one unit is written.
LEMMA UpdateKeeps ==
  ASSUME Kept, NEW u \in units, id[u] # 0, UNCHANGED <<plan, id>>,
         NEW row \in RowsOf({u}), update(u, row)
  PROVE  /\ OwnRows'
         /\ catalog' \in [DOMAIN catalog' -> RowsOf(units \cup {Other})]
         /\ RowOf(u)' = row
         /\ \A v \in units \ {u} : id[v] # 0 => RowOf(v)' = RowOf(v)
<1> LauncherTypeOK /\ OwnRows
  BY DEF Kept
<1>1. /\ DOMAIN catalog' = DOMAIN catalog
      /\ catalog' \in [DOMAIN catalog' -> RowsOf(units \cup {Other})]
      /\ RowOf(u)' = row
      /\ \A v \in units \ {u} : id[v] # 0 => RowOf(v)' = RowOf(v)
      /\ \A i \in DOMAIN catalog : catalog'[i].owner = catalog[i].owner
  BY UpdateFrames
<1>2. OwnRows'
  BY <1>1 DEF OwnRows, RowOf, units
<1> QED
  BY <1>1, <1>2

LEMMA SameRows ==
  ASSUME Kept, UNCHANGED <<plan, id, catalog>>
  PROVE  /\ OwnRows'
         /\ catalog' \in [DOMAIN catalog' -> RowsOf(units \cup {Other})]
         /\ \A v \in units : RowOf(v)' = RowOf(v)
BY DEF Kept, LauncherTypeOK, OwnRows, RowOf, units

\* The outcome of a Local unit is a matter of its futures.
LEMMA SameOutcome ==
  ASSUME NEW u, futures'[u] = futures[u]
  PROVE  /\ AllDone(u)' <=> AllDone(u)
         /\ Outcome(u)' = Outcome(u)
BY DEF AllDone, Outcome

LEMMA LaunchKeeps == ASSUME Kept, NEW u \in units, Launch(u) PROVE Kept'
<1> LauncherTypeOK /\ UnitInv(u)
  BY DEF Kept
<1> USE DEF Launch, process, jobs
<1>1. OwnRows' /\ \A v \in units : RowOf(v)' = RowOf(v)
  BY SameRows
<1>2. LauncherTypeOK'
  BY DEF LauncherTypeOK, units, Launches, Submits
<1>3. \A v \in units \ {u} : Untouched(v)
  BY <1>1 DEF LauncherTypeOK, Untouched
<1>4. launch'[u] = "awaiting" /\ submit'[u] = "ready"
  BY DEF LauncherTypeOK
<1>5. UnitInv(u)'
  BY <1>1, <1>4, SameOutcome
     DEF UnitInv, Stage, Told, FailureTold, OutcomeTold, Waited, Attached, Over
<1> QED
  BY <1>1, <1>2, <1>3, <1>5, KeptBy

\* The futures of a unit whose Local tasks are sent to the pool; nothing is over.
LEMMA SendKeeps == ASSUME Kept, NEW u \in units, Send(u) PROVE Kept'
<1> LauncherTypeOK /\ UnitInv(u)
  BY DEF Kept
<1> USE DEF Send, process
<1>1. OwnRows' /\ \A v \in units : RowOf(v)' = RowOf(v)
  BY SameRows
<1>2. LauncherTypeOK'
  <2>1. [t \in LocalTasks |-> "queued"] \in [LocalTasks -> Progress]
    BY DEF Progress
  <2>2. futures' \in [units -> [{} -> Progress] \cup [LocalTasks -> Progress]]
    BY <2>1 DEF LauncherTypeOK
  <2>3. /\ submit' \in [units -> Submits] /\ accepted' \in [units -> BOOLEAN]
        /\ driver' \in [units -> {"none", "running", "ok", "failed"}]
    BY DEF LauncherTypeOK, Submits
  <2> QED
    BY <2>2, <2>3 DEF LauncherTypeOK, units
<1>3. \A v \in units \ {u} : Untouched(v)
  BY <1>1 DEF LauncherTypeOK, Untouched
<1>4. /\ id[u] # 0 /\ launch[u] = "awaiting" /\ settle[u] = "none"
      /\ RowOf(u).state = "unknown" \/ plan[u].backend # "local"
  BY DEF UnitInv, Stage, OutcomeTold, LauncherTypeOK, Launches, Over
<1>5. UnitInv(u)'
  <2>1. CASE submit' = [submit EXCEPT ![u] = "sent"]
    <3>1. /\ submit'[u] = "sent"
          /\ accepted'[u] => plan[u].backend # "local"
          /\ driver'[u] # "none" <=> plan[u].backend = "attached"
          /\ DOMAIN futures'[u] = IF plan[u].backend = "local" THEN LocalTasks ELSE {}
      BY <2>1 DEF UnitInv, Stage, LauncherTypeOK
    <3> QED
      BY <1>1, <1>4, <3>1
         DEF UnitInv, Stage, Told, FailureTold, OutcomeTold, Waited, Over
  <2>2. CASE submit' = [submit EXCEPT ![u] = "erring"]
    <3>1. /\ submit'[u] = "erring" /\ driver'[u] = driver[u] /\ futures'[u] = futures[u]
          /\ accepted'[u] => accepted[u] \/ plan[u].backend = "slurm"
      BY <2>2 DEF LauncherTypeOK
    <3> QED
      BY <1>1, <1>4, <3>1
         DEF UnitInv, Stage, Told, FailureTold, OutcomeTold, Waited, Over
  <2> QED
    BY <2>1, <2>2
<1> QED
  BY <1>1, <1>2, <1>3, <1>5, KeptBy


LEMMA SaveJobKeeps == ASSUME Kept, NEW u \in units, SaveJob(u) PROVE Kept'
<1> LauncherTypeOK /\ OwnRows /\ UnitInv(u)
  BY DEF Kept
<1> USE DEF SaveJob, process, jobs
<1> DEFINE row == [RowOf(u) EXCEPT !.job = TRUE]
<1>1. id[u] # 0 /\ settle[u] = "none" /\ launch[u] \notin Over
  BY DEF UnitInv, Stage, Over
<1>2. row \in RowsOf({u})
  BY <1>1, RowType DEF RowsOf
<1>3. /\ OwnRows'
      /\ catalog' \in [DOMAIN catalog' -> RowsOf(units \cup {Other})]
      /\ RowOf(u)' = row
      /\ \A v \in units \ {u} : id[v] # 0 => RowOf(v)' = RowOf(v)
  BY <1>1, <1>2, UpdateKeeps
<1>4. LauncherTypeOK'
  BY <1>3 DEF LauncherTypeOK, units, Submits
<1>5. \A v \in units \ {u} : Untouched(v)
  BY <1>3 DEF LauncherTypeOK, Untouched
<1>6. /\ submit'[u] = "saved"
      /\ row.job /\ row.state = RowOf(u).state /\ row.backend = RowOf(u).backend
  BY <1>1, RowType DEF LauncherTypeOK, RowsOf
<1>7. UnitInv(u)'
  BY <1>1, <1>3, <1>6, SameOutcome
     DEF UnitInv, Stage, Told, FailureTold, OutcomeTold, Waited, Attached, Over
<1> QED
  BY <1>3, <1>4, <1>5, <1>7, KeptBy

LEMMA ReportErrorKeeps == ASSUME Kept, NEW u \in units, ReportError(u) PROVE Kept'
<1> LauncherTypeOK /\ OwnRows /\ UnitInv(u)
  BY DEF Kept
<1> USE DEF ReportError, process, jobs
<1> DEFINE row == [RowOf(u) EXCEPT !.message = TRUE]
<1>1. id[u] # 0 /\ settle[u] = "none" /\ launch[u] = "awaiting"
  BY DEF UnitInv, Stage, Over, LauncherTypeOK, Launches
<1>2. row \in RowsOf({u})
  BY <1>1, RowType DEF RowsOf
<1>3. /\ OwnRows'
      /\ catalog' \in [DOMAIN catalog' -> RowsOf(units \cup {Other})]
      /\ RowOf(u)' = row
      /\ \A v \in units \ {u} : id[v] # 0 => RowOf(v)' = RowOf(v)
  BY <1>1, <1>2, UpdateKeeps
<1>4. LauncherTypeOK'
  BY <1>3 DEF LauncherTypeOK, units, Submits
<1>5. \A v \in units \ {u} : Untouched(v)
  BY <1>3 DEF LauncherTypeOK, Untouched
<1>6. /\ submit'[u] = "failed"
      /\ row.message /\ row.job = RowOf(u).job
      /\ row.state = RowOf(u).state /\ row.backend = RowOf(u).backend
  BY <1>1, RowType DEF LauncherTypeOK, RowsOf
<1>7. UnitInv(u)'
  BY <1>1, <1>3, <1>6, SameOutcome
     DEF UnitInv, Stage, Told, FailureTold, OutcomeTold, Waited, Attached, Over
<1> QED
  BY <1>3, <1>4, <1>5, <1>7, KeptBy

\* recorded() tells the state of a unit all of whose tasks are over, and no more.
LEMMA RecordedIs ==
  ASSUME NEW u \in units, NEW row \in RowsOf({u})
  PROVE  /\ recorded(u, row) \in RowsOf({u})
         /\ recorded(u, row).backend = row.backend
         /\ recorded(u, row).job = row.job
         /\ recorded(u, row).message = row.message
         /\ recorded(u, row).state = IF AllDone(u) THEN Outcome(u) ELSE row.state
<1>1. Outcome(u) \in {"completed", "failed"}
  BY DEF Outcome
<1>2. CASE AllDone(u)
  BY <1>1, <1>2 DEF recorded, RowsOf
<1>3. CASE ~AllDone(u)
  BY <1>3 DEF recorded
<1> QED
  BY <1>2, <1>3

LEMMA SaveHandleKeeps == ASSUME Kept, NEW u \in units, SaveHandle(u) PROVE Kept'
<1> LauncherTypeOK /\ OwnRows /\ UnitInv(u)
  BY DEF Kept
<1> USE DEF process
<1>1. /\ id[u] # 0 /\ settle[u] = "none" /\ launch[u] = "awaiting" /\ submit[u] = "sent"
      /\ UNCHANGED <<plan, id, launch, settle, accepted, futures, driver, asked, unasked,
                     context, main, raised, error, pending, visited>>
  BY DEF SaveHandle, UnitInv, Stage, Over, LauncherTypeOK, Launches
<1>2. CASE /\ plan[u].backend = "slurm"
           /\ submit' = [submit EXCEPT ![u] = "erring"] /\ UNCHANGED <<catalog, owned>>
  <2>1. OwnRows' /\ \A v \in units : RowOf(v)' = RowOf(v)
    BY <1>1, <1>2, SameRows
  <2>2. LauncherTypeOK'
    BY <1>1, <1>2 DEF LauncherTypeOK, units, Submits
  <2>3. \A v \in units \ {u} : Untouched(v)
    BY <1>1, <1>2, <2>1 DEF LauncherTypeOK, Untouched
  <2>4. submit'[u] = "erring"
    BY <1>2 DEF LauncherTypeOK
  <2>5. UnitInv(u)'
    BY <1>1, <1>2, <2>1, <2>4, SameOutcome, UnitNumbers
       DEF UnitInv, Stage, Told, FailureTold, OutcomeTold, Waited, Attached, Over
  <2> QED
    BY <1>1, <2>1, <2>2, <2>3, <2>5, KeptBy
<1>3. CASE /\ submit' = [submit EXCEPT ![u] = "ok"]
           /\ owned' = [owned EXCEPT ![u] = TRUE]
           /\ LET row == [RowOf(u) EXCEPT
                            !.backend = IF plan[u].backend = "local" THEN "local" ELSE "slurm",
                            !.native = plan[u].backend = "slurm"]
              IN  update(u, IF plan[u].backend = "local" THEN recorded(u, row) ELSE row)
  <2> DEFINE kind == IF plan[u].backend = "local" THEN "local" ELSE "slurm"
             native == plan[u].backend = "slurm"
             given == [RowOf(u) EXCEPT !.backend = kind, !.native = native]
             row == IF plan[u].backend = "local" THEN recorded(u, given) ELSE given
  <2>1. native \in BOOLEAN /\ kind \in {"local", "slurm"}
    OBVIOUS
  <2> HIDE DEF native, kind
  <2>2. /\ given \in RowsOf({u})
        /\ given.backend = kind /\ given.job = RowOf(u).job /\ given.state = RowOf(u).state
    BY <1>1, <2>1, RowType DEF RowsOf
  <2> HIDE DEF given
  <2>3. /\ row \in RowsOf({u})
        /\ row.backend = kind /\ row.job = RowOf(u).job
        /\ plan[u].backend = "local" /\ row.state # "unknown" =>
             (AllDone(u) /\ row.state = Outcome(u)) \/ RowOf(u).state # "unknown"
        /\ plan[u].backend = "local" /\ AllDone(u) => row.state = Outcome(u)
    BY <2>2, RecordedIs
  <2>4. update(u, row)
    BY <1>3 DEF given, kind, native
  <2> HIDE DEF row
  <2>5. /\ OwnRows'
        /\ catalog' \in [DOMAIN catalog' -> RowsOf(units \cup {Other})]
        /\ RowOf(u)' = row
        /\ \A v \in units \ {u} : id[v] # 0 => RowOf(v)' = RowOf(v)
    BY <1>1, <2>3, <2>4, UpdateKeeps
  <2>6. LauncherTypeOK'
    BY <1>1, <1>3, <2>5 DEF LauncherTypeOK, units, Submits
  <2>7. \A v \in units \ {u} : Untouched(v)
    BY <1>1, <1>3, <2>5 DEF LauncherTypeOK, Untouched
  <2>8. submit'[u] = "ok" /\ owned'[u]
    BY <1>3 DEF LauncherTypeOK
  <2>9. Stage(u)' /\ Told(u)' /\ Waited(u)' /\ FailureTold(u)'
    BY <1>1, <2>3, <2>5, <2>8
       DEF UnitInv, Stage, Told, FailureTold, Waited, Attached, Over, kind
  <2>10. OutcomeTold(u)'
    <3>1. DOMAIN futures[u] = IF plan[u].backend = "local" THEN LocalTasks ELSE {}
      BY <1>1 DEF UnitInv, Stage
    <3>2. LocalTasks # {}
      BY LauncherAssumption DEF LauncherAssumption
    <3>3. AllDone(u)' <=> AllDone(u)
      BY <1>1, SameOutcome
    <3>4. Outcome(u)' = Outcome(u)
      BY <1>1, SameOutcome
    <3> QED
      BY <1>1, <2>3, <2>5, <3>1, <3>2, <3>3, <3>4 DEF UnitInv, OutcomeTold
  <2> QED
    BY <1>1, <2>5, <2>6, <2>7, <2>9, <2>10, KeptBy DEF UnitInv
<1> QED
  BY <1>2, <1>3 DEF SaveHandle


\* The rows and the asking, when one unit is asked to stop.
LEMMA StopKeeps ==
  ASSUME Kept, NEW u \in units, id[u] # 0, UNCHANGED <<plan, id>>,
         NEW s \in {"failed", "stopped"}, stop(u, s)
  PROVE  /\ OwnRows'
         /\ catalog' \in [DOMAIN catalog' -> RowsOf(units \cup {Other})]
         /\ asked' \in [units -> BOOLEAN] /\ unasked' \in [units -> BOOLEAN]
         /\ \A v \in units \ {u} :
              /\ asked'[v] = asked[v] /\ unasked'[v] = unasked[v]
              /\ id[v] # 0 => RowOf(v)' = RowOf(v)
         /\ RowOf(u)'.backend = RowOf(u).backend
         /\ RowOf(u)'.job = RowOf(u).job
         /\ RowOf(u).backend # "slurm" =>
              RowOf(u)' = RowOf(u) /\ asked' = asked /\ unasked' = unasked
         /\ RowOf(u).backend = "slurm" =>
              \/ unasked'[u]
              \/ asked'[u] /\ RowOf(u)'.state = s /\ (RowOf(u)'.message <=> s = "failed")
         /\ RowOf(u)'.state \in {s, RowOf(u).state}
<1> LauncherTypeOK /\ OwnRows
  BY DEF Kept
<1> DEFINE row == Intent(u, s)
<1>1. /\ row \in RowsOf({u})
      /\ row.backend = RowOf(u).backend /\ row.job = RowOf(u).job
      /\ row.state = s /\ (row.message <=> s = "failed")
  BY IntentIs
<1>2. /\ asked' \in [units -> BOOLEAN] /\ unasked' \in [units -> BOOLEAN]
      /\ \A v \in units \ {u} : asked'[v] = asked[v] /\ unasked'[v] = unasked[v]
      /\ catalog' = catalog \/ update(u, row)
      /\ RowOf(u).backend # "slurm" => UNCHANGED <<catalog, asked, unasked>>
      /\ RowOf(u).backend = "slurm" => unasked'[u] \/ (asked'[u] /\ update(u, row))
  BY StopDoes
<1> HIDE DEF row
<1>3. update(u, row) =>
        /\ OwnRows'
        /\ catalog' \in [DOMAIN catalog' -> RowsOf(units \cup {Other})]
        /\ RowOf(u)' = row
        /\ \A v \in units \ {u} : id[v] # 0 => RowOf(v)' = RowOf(v)
  BY <1>1, UpdateKeeps
<1>4. catalog' = catalog =>
        /\ OwnRows'
        /\ catalog' \in [DOMAIN catalog' -> RowsOf(units \cup {Other})]
        /\ \A v \in units : RowOf(v)' = RowOf(v)
  BY SameRows
<1> QED
  BY <1>1, <1>2, <1>3, <1>4

LEMMA LaunchedKeeps == ASSUME Kept, NEW u \in units, Launched(u) PROVE Kept'
<1> LauncherTypeOK /\ OwnRows /\ UnitInv(u)
  BY DEF Kept
<1> USE DEF Launched, process
<1> DEFINE good == submit[u] = "ok" /\ ~plan[u].twice
<1>1. id[u] # 0 /\ launch[u] = "awaiting" /\ submit[u] \in Over
  BY DEF UnitInv, Stage, Over
<1>2. launch' = [launch EXCEPT ![u] = IF good THEN "ok" ELSE "failed"]
  OBVIOUS
<1> HIDE DEF good
<1>3. launch'[u] = IF good THEN "ok" ELSE "failed"
  BY <1>2 DEF LauncherTypeOK
<1>4. launch' \in [units -> Launches] /\ \A v \in units \ {u} : launch'[v] = launch[v]
  BY <1>2 DEF LauncherTypeOK, Launches
<1>5. CASE good
  <2>1. UNCHANGED <<catalog, asked, unasked>>
    BY <1>5 DEF good
  <2>2. OwnRows' /\ \A v \in units : RowOf(v)' = RowOf(v)
    BY <2>1, SameRows
  <2>3. LauncherTypeOK'
    BY <1>4, <2>1 DEF LauncherTypeOK, units
  <2>4. \A v \in units \ {u} : Untouched(v)
    BY <1>4, <2>1, <2>2 DEF Untouched
  <2>5. UnitInv(u)'
    BY <1>1, <1>3, <1>5, <2>1, <2>2, SameOutcome
       DEF good, UnitInv, Stage, Told, FailureTold, OutcomeTold, Waited, Attached, Over
  <2> QED
    BY <2>2, <2>3, <2>4, <2>5, KeptBy
<1>6. CASE ~good
  <2>1. stop(u, "failed")
    BY <1>6 DEF good
  <2>2. /\ OwnRows'
        /\ catalog' \in [DOMAIN catalog' -> RowsOf(units \cup {Other})]
        /\ asked' \in [units -> BOOLEAN] /\ unasked' \in [units -> BOOLEAN]
        /\ \A v \in units \ {u} :
             /\ asked'[v] = asked[v] /\ unasked'[v] = unasked[v]
             /\ id[v] # 0 => RowOf(v)' = RowOf(v)
        /\ RowOf(u)'.backend = RowOf(u).backend
        /\ RowOf(u)'.job = RowOf(u).job
        /\ RowOf(u).backend # "slurm" => RowOf(u)' = RowOf(u)
        /\ RowOf(u).backend = "slurm" =>
             \/ unasked'[u]
             \/ asked'[u] /\ RowOf(u)'.state = "failed" /\ RowOf(u)'.message
    BY <1>1, <2>1, StopKeeps
  <2>3. LauncherTypeOK'
    BY <1>4, <2>2 DEF LauncherTypeOK, units
  <2>4. \A v \in units \ {u} : Untouched(v)
    BY <1>4, <2>2 DEF Untouched
  <2>5. Stage(u)' /\ Told(u)' /\ FailureTold(u)'
    BY <1>1, <1>3, <1>6, <2>2
       DEF UnitInv, Stage, Told, FailureTold, Over
  <2>6. OutcomeTold(u)' /\ Waited(u)'
    <3>1. plan[u].backend = "local" => RowOf(u).backend # "slurm"
      BY <1>1 DEF UnitInv, Told
    <3> QED
      BY <1>1, <2>2, <3>1, SameOutcome DEF UnitInv, OutcomeTold, Waited, Attached
  <2> QED
    BY <2>2, <2>3, <2>4, <2>5, <2>6, KeptBy DEF UnitInv
<1> QED
  BY <1>5, <1>6

LEMMA BeginSettleKeeps == ASSUME Kept, NEW u \in units, BeginSettle(u) PROVE Kept'
<1> LauncherTypeOK /\ OwnRows /\ UnitInv(u)
  BY DEF Kept
<1> USE DEF BeginSettle, process
<1>1. id[u] # 0 /\ submit[u] \in Over
  BY DEF UnitInv, Stage, Over
<1>2. /\ settle'[u] \in {"waiting", "failed"}
      /\ settle' \in [units -> Settles] /\ \A v \in units \ {u} : settle'[v] = settle[v]
  BY DEF LauncherTypeOK, Settles
<1>3. CASE UNCHANGED <<catalog, asked, unasked>>
  <2>1. OwnRows' /\ \A v \in units : RowOf(v)' = RowOf(v)
    BY <1>3, SameRows
  <2>2. LauncherTypeOK'
    BY <1>2, <1>3 DEF LauncherTypeOK, units
  <2>3. \A v \in units \ {u} : Untouched(v)
    BY <1>2, <1>3, <2>1 DEF Untouched
  <2>4. UnitInv(u)'
    BY <1>1, <1>2, <1>3, <2>1, SameOutcome
       DEF UnitInv, Stage, Told, FailureTold, OutcomeTold, Waited, Attached, Over
  <2> QED
    BY <2>1, <2>2, <2>3, <2>4, KeptBy
<1>4. CASE Attached(u) /\ stop(u, "stopped")
  <2>1. /\ OwnRows'
        /\ catalog' \in [DOMAIN catalog' -> RowsOf(units \cup {Other})]
        /\ asked' \in [units -> BOOLEAN] /\ unasked' \in [units -> BOOLEAN]
        /\ \A v \in units \ {u} :
             /\ asked'[v] = asked[v] /\ unasked'[v] = unasked[v]
             /\ id[v] # 0 => RowOf(v)' = RowOf(v)
        /\ RowOf(u)'.backend = RowOf(u).backend
        /\ RowOf(u)'.job = RowOf(u).job
        /\ RowOf(u).backend # "slurm" => RowOf(u)' = RowOf(u)
        /\ RowOf(u).backend = "slurm" =>
             \/ unasked'[u]
             \/ asked'[u] /\ RowOf(u)'.state = "stopped" /\ ~RowOf(u)'.message
    BY <1>1, <1>4, StopKeeps
  <2>2. LauncherTypeOK'
    BY <1>2, <2>1 DEF LauncherTypeOK, units
  <2>3. \A v \in units \ {u} : Untouched(v)
    BY <1>2, <2>1 DEF Untouched
  <2>4. Stage(u)' /\ Told(u)' /\ FailureTold(u)' /\ Waited(u)'
    BY <1>1, <1>2, <1>4, <2>1 DEF UnitInv, Stage, Told, FailureTold, Waited, Attached, Over
  <2>5. OutcomeTold(u)'
    <3>1. plan[u].backend = "local" => RowOf(u).backend # "slurm"
      BY <1>1 DEF UnitInv, Told
    <3> QED
      BY <1>1, <2>1, <3>1, SameOutcome DEF UnitInv, OutcomeTold
  <2> QED
    BY <2>1, <2>2, <2>3, <2>4, <2>5, KeptBy DEF UnitInv
<1> QED
  BY <1>3, <1>4 DEF stop

\* The end of the wait: every Local task is over, and the outcome is in the row.
LEMMA EndSettleKeeps == ASSUME Kept, NEW u \in units, EndSettle(u) PROVE Kept'
<1> LauncherTypeOK /\ OwnRows /\ UnitInv(u)
  BY DEF Kept
<1> USE DEF EndSettle, process, jobs
<1> DEFINE waits == owned[u] /\ plan[u].backend = "local" /\ ~raised
<1>1. id[u] # 0 /\ submit[u] \in Over
  BY DEF UnitInv, Stage, Over
<1>2. /\ settle'[u] \in {"ok", "failed"}
      /\ settle' \in [units -> Settles] /\ \A v \in units \ {u} : settle'[v] = settle[v]
  BY DEF LauncherTypeOK, Settles
<1>3. /\ Attached(u) => driver[u] \in Over
      /\ waits => AllDone(u) /\ update(u, Settled(u))
      /\ ~waits => catalog' = catalog
  OBVIOUS
<1>4. UNCHANGED <<plan, context, process, id, launch, submit, jobs>>
  OBVIOUS
<1> HIDE DEF waits, EndSettle
<1>5. CASE waits
  <2> DEFINE row == recorded(u, RowOf(u))
  <2>1. /\ row \in RowsOf({u}) /\ row.backend = RowOf(u).backend
        /\ row.job = RowOf(u).job /\ row.message = RowOf(u).message
        /\ row.state = Outcome(u)
    BY <1>1, <1>3, <1>5, RowType, RecordedIs
  <2>2. update(u, row)
    BY <1>3, <1>5 DEF Settled
  <2> HIDE DEF row
  <2>3. /\ OwnRows'
        /\ catalog' \in [DOMAIN catalog' -> RowsOf(units \cup {Other})]
        /\ RowOf(u)' = row
        /\ \A v \in units \ {u} : id[v] # 0 => RowOf(v)' = RowOf(v)
    BY <1>1, <1>4, <2>1, <2>2, UpdateKeeps
  <2>4. LauncherTypeOK'
    BY <1>2, <1>4, <2>3 DEF LauncherTypeOK, units
  <2>5. \A v \in units \ {u} : Untouched(v)
    BY <1>2, <1>4, <2>3 DEF Untouched
  <2>6. RowOf(u).backend = "local" /\ DOMAIN futures[u] = LocalTasks
    BY <1>1, <1>5 DEF waits, UnitInv, Told, Stage
  <2>7. Outcome(u) # "unknown" /\ LocalTasks # {}
    BY LauncherAssumption DEF Outcome, LauncherAssumption
  <2>8. Stage(u)' /\ Told(u)' /\ FailureTold(u)'
    BY <1>1, <1>2, <1>4, <2>1, <2>3, <2>6 DEF UnitInv, Stage, Told, FailureTold
  <2>9. OutcomeTold(u)' /\ Waited(u)'
    BY <1>3, <1>4, <1>5, <2>1, <2>3, <2>6, <2>7, SameOutcome
       DEF OutcomeTold, Waited, Attached
  <2> QED
    BY <1>4, <2>3, <2>4, <2>5, <2>8, <2>9, KeptBy DEF UnitInv
<1>6. CASE ~waits
  <2>1. OwnRows' /\ \A v \in units : RowOf(v)' = RowOf(v)
    BY <1>3, <1>4, <1>6, SameRows
  <2>2. LauncherTypeOK'
    BY <1>2, <1>3, <1>4, <1>6 DEF LauncherTypeOK, units
  <2>3. \A v \in units \ {u} : Untouched(v)
    BY <1>2, <1>4, <2>1 DEF Untouched
  <2>4. UnitInv(u)'
    BY <1>1, <1>2, <1>3, <1>4, <1>6, <2>1, SameOutcome
       DEF waits, UnitInv, Stage, Told, FailureTold, OutcomeTold, Waited, Attached, Over
  <2> QED
    BY <1>4, <2>1, <2>2, <2>3, <2>4, KeptBy
<1> QED
  BY <1>5, <1>6

\* A worker of the pool moves a task on; while one is not over, nothing is told.
LEMMA PoolKeeps ==
  ASSUME Kept, NEW u \in units, NEW t \in DOMAIN futures[u], StartLocal(u, t) \/ EndLocal(u, t)
  PROVE  Kept'
<1> LauncherTypeOK /\ OwnRows /\ UnitInv(u)
  BY DEF Kept
<1>1. PICK next \in Progress : futures' = [futures EXCEPT ![u][t] = next]
  BY DEF StartLocal, EndLocal, Over, Progress
<1>2. UNCHANGED <<plan, context, process, catalog, id, launching, accepted, owned, driver,
                  asked, unasked>>
  BY DEF StartLocal, EndLocal
<1>3. futures[u][t] \notin Over
  BY DEF StartLocal, EndLocal, Over
<1> USE DEF process, launching
<1>4. OwnRows' /\ \A v \in units : RowOf(v)' = RowOf(v)
  BY <1>2, SameRows
<1>5. /\ futures' \in [units -> [{} -> Progress] \cup [LocalTasks -> Progress]]
      /\ DOMAIN futures'[u] = DOMAIN futures[u]
      /\ \A v \in units \ {u} : futures'[v] = futures[v]
  <2>1. futures[u] \in [{} -> Progress] \cup [LocalTasks -> Progress]
    BY DEF LauncherTypeOK
  <2>2. futures' = [futures EXCEPT ![u] = [futures[u] EXCEPT ![t] = next]]
    BY <1>1
  <2>3. [futures[u] EXCEPT ![t] = next] \in [{} -> Progress] \cup [LocalTasks -> Progress]
    BY <2>1
  <2>4. futures \in [units -> [{} -> Progress] \cup [LocalTasks -> Progress]]
    BY DEF LauncherTypeOK
  <2> HIDE DEF Progress
  <2>5. futures' \in [units -> [{} -> Progress] \cup [LocalTasks -> Progress]]
    BY <2>2, <2>3, <2>4
  <2>6. futures'[u] = [futures[u] EXCEPT ![t] = next]
    BY <2>2, <2>4
  <2> QED
    BY <2>2, <2>4, <2>5, <2>6
<1>6. LauncherTypeOK'
  BY <1>2, <1>4, <1>5 DEF LauncherTypeOK, units
<1>7. \A v \in units \ {u} : Untouched(v)
  BY <1>2, <1>4, <1>5 DEF Untouched
<1>8. Stage(u)' /\ Told(u)' /\ FailureTold(u)' /\ Waited(u)'
  BY <1>2, <1>4, <1>5 DEF UnitInv, Stage, Told, FailureTold, Waited, Attached
<1>9. OutcomeTold(u)'
  <2>1. ~AllDone(u)
    BY <1>3 DEF AllDone
  <2> QED
    BY <1>2, <1>4, <2>1 DEF UnitInv, OutcomeTold
<1> QED
  BY <1>2, <1>4, <1>6, <1>7, <1>8, <1>9, KeptBy DEF UnitInv

LEMMA CallbackKeeps ==
  ASSUME Kept, NEW u \in units, NEW t \in DOMAIN futures[u], Callback(u, t)
  PROVE  Kept'
<1> LauncherTypeOK /\ OwnRows /\ UnitInv(u)
  BY DEF Kept
<1> DEFINE row == recorded(u, RowOf(u))
<1>1. /\ update(u, row) /\ owned[u]
      /\ UNCHANGED <<plan, context, process, id, launching, accepted, owned, futures, driver,
                     asked, unasked>>
  BY DEF Callback
<1> USE DEF process, launching
<1>2. /\ submit[u] = "ok" /\ id[u] # 0
      /\ plan[u].backend = "local" /\ DOMAIN futures[u] # {}
  BY <1>1 DEF UnitInv, Stage
<1>3. /\ row \in RowsOf({u}) /\ row.backend = RowOf(u).backend
      /\ row.job = RowOf(u).job /\ row.message = RowOf(u).message
      /\ row.state = IF AllDone(u) THEN Outcome(u) ELSE RowOf(u).state
  BY <1>2, RowType, RecordedIs
<1> HIDE DEF row
<1>4. /\ OwnRows'
      /\ catalog' \in [DOMAIN catalog' -> RowsOf(units \cup {Other})]
      /\ RowOf(u)' = row
      /\ \A v \in units \ {u} : id[v] # 0 => RowOf(v)' = RowOf(v)
  BY <1>1, <1>2, <1>3, UpdateKeeps
<1>5. LauncherTypeOK'
  BY <1>1, <1>4 DEF LauncherTypeOK, units
<1>6. \A v \in units \ {u} : Untouched(v)
  BY <1>1, <1>4 DEF Untouched
<1>7. RowOf(u).backend = "local" /\ Outcome(u) # "unknown"
  BY <1>2 DEF UnitInv, Told, Outcome
<1>8. Stage(u)' /\ Told(u)' /\ FailureTold(u)' /\ Waited(u)'
  BY <1>1, <1>2, <1>3, <1>4, <1>7
     DEF UnitInv, Stage, Told, FailureTold, Waited, Attached
<1>9. OutcomeTold(u)'
  BY <1>1, <1>2, <1>3, <1>4, SameOutcome DEF UnitInv, OutcomeTold
<1> QED
  BY <1>1, <1>4, <1>5, <1>6, <1>8, <1>9, KeptBy DEF UnitInv

LEMMA EndDriverKeeps == ASSUME Kept, NEW u \in units, EndDriver(u) PROVE Kept'
<1> LauncherTypeOK /\ OwnRows /\ UnitInv(u)
  BY DEF Kept
<1>1. PICK end \in Over : driver' = [driver EXCEPT ![u] = end]
  BY DEF EndDriver, Over
<1>2. /\ driver[u] = "running"
      /\ UNCHANGED <<plan, context, process, catalog, id, launching, accepted, owned, futures,
                     asked, unasked>>
  BY DEF EndDriver
<1> USE DEF process, launching
<1>3. OwnRows' /\ \A v \in units : RowOf(v)' = RowOf(v)
  BY <1>2, SameRows
<1>4. /\ driver' \in [units -> {"none", "running", "ok", "failed"}]
      /\ driver'[u] \in Over /\ \A v \in units \ {u} : driver'[v] = driver[v]
  BY <1>1 DEF LauncherTypeOK, Over
<1>5. LauncherTypeOK'
  BY <1>2, <1>3, <1>4 DEF LauncherTypeOK, units
<1>6. \A v \in units \ {u} : Untouched(v)
  BY <1>2, <1>3, <1>4 DEF Untouched
<1>7. UnitInv(u)'
  BY <1>2, <1>3, <1>4, SameOutcome
     DEF UnitInv, Stage, Told, FailureTold, OutcomeTold, Waited, Attached, Over
<1> QED
  BY <1>2, <1>3, <1>5, <1>6, <1>7, KeptBy

\* What the author's thread asks of the attached jobs at the end.
LEMMA StopAttachedKeeps == ASSUME Kept, StopAttached PROVE Kept'
<1> LauncherTypeOK /\ OwnRows
  BY DEF Kept
<1>1. /\ UNCHANGED <<plan, context, raised, error, pending, id, launching, accepted, owned,
                     futures, driver>>
      /\ main' \in {"stopping", "final"}
  BY DEF StopAttached, Visit
<1> USE DEF launching
<1>2. CASE UNCHANGED <<catalog, asked, unasked>>
  <2>1. OwnRows' /\ \A v \in units : RowOf(v)' = RowOf(v)
    BY <1>1, <1>2, SameRows
  <2>2. LauncherTypeOK'
    BY <1>1, <1>2 DEF LauncherTypeOK, units
  <2>3. \A v \in units : Untouched(v)
    BY <1>1, <1>2, <2>1 DEF Untouched
  <2>4. units' = units
    BY <1>1 DEF units
  <2> QED
    BY <1>1, <2>1, <2>2, <2>3, <2>4, UntouchedKeeps DEF Kept
<1>3. CASE \E u \in units : Held(u) /\ stop(u, "stopped")
  <2>1. PICK u \in units : Held(u) /\ stop(u, "stopped")
    BY <1>3
  <2>2. UnitInv(u)
    BY DEF Kept
  <2>3. id[u] # 0 /\ submit[u] = "ok" /\ plan[u].backend = "attached" /\ Attached(u)
    BY <2>1, <2>2 DEF Held, Attached, UnitInv, Stage
  <2>4. /\ OwnRows'
        /\ catalog' \in [DOMAIN catalog' -> RowsOf(units \cup {Other})]
        /\ asked' \in [units -> BOOLEAN] /\ unasked' \in [units -> BOOLEAN]
        /\ \A v \in units \ {u} :
             /\ asked'[v] = asked[v] /\ unasked'[v] = unasked[v]
             /\ id[v] # 0 => RowOf(v)' = RowOf(v)
        /\ RowOf(u)'.backend = RowOf(u).backend
        /\ RowOf(u)'.job = RowOf(u).job
        /\ RowOf(u).backend = "slurm" =>
             \/ unasked'[u]
             \/ asked'[u] /\ RowOf(u)'.state = "stopped" /\ ~RowOf(u)'.message
    BY <1>1, <2>1, <2>3, StopKeeps
  <2>5. LauncherTypeOK'
    BY <1>1, <2>4 DEF LauncherTypeOK, units
  <2>6. \A v \in units \ {u} : Untouched(v)
    BY <1>1, <2>4 DEF Untouched
  <2>7. UnitInv(u)'
    BY <1>1, <2>2, <2>3, <2>4
       DEF UnitInv, Stage, Told, FailureTold, OutcomeTold, Waited, Attached
  <2> QED
    BY <1>1, <2>4, <2>5, <2>6, <2>7, KeptBy
<1> QED
  BY <1>2, <1>3 DEF StopAttached, Visit, stop

LEMMA AddKeeps == ASSUME Kept, Add PROVE Kept'
<1> LauncherTypeOK /\ OwnRows
  BY DEF Kept
<1>1. PICK u \in units :
        /\ id[u] = 0 /\ create_work_unit(u) /\ id' = [id EXCEPT ![u] = NextId]
        /\ launch' = [launch EXCEPT ![u] = "ready"]
        /\ UNCHANGED <<plan, context, main, raised, error, submit, settle, jobs>>
  BY DEF Add, _create_experiment_unit
<1> USE DEF jobs
<1>2. /\ NextId \in Nat \ {0} /\ NextId \notin DOMAIN catalog
      /\ \E k \in Nat : DOMAIN catalog' = 1 .. k
      /\ DOMAIN catalog' = DOMAIN catalog \cup {NextId}
      /\ catalog' \in [DOMAIN catalog' -> RowsOf(units \cup {Other})]
      /\ \A i \in DOMAIN catalog : catalog'[i] = catalog[i]
      /\ catalog'[NextId] = Row(u)
  BY <1>1, CreateFrames
<1> HIDE DEF NextId
<1>3. /\ id' \in [units -> Nat] /\ id'[u] = NextId
      /\ launch' \in [units -> Launches] /\ launch'[u] = "ready"
      /\ \A v \in units \ {u} : id'[v] = id[v] /\ launch'[v] = launch[v]
  BY <1>1, <1>2 DEF LauncherTypeOK, Launches
<1>4. \A v \in units \ {u} : id[v] # 0 => id[v] \in DOMAIN catalog /\ RowOf(v)' = RowOf(v)
  BY <1>2, <1>3 DEF OwnRows, RowOf
<1>5. RowOf(u)' = Row(u)
  BY <1>2, <1>3 DEF RowOf
<1>6. units' = units
  BY <1>1 DEF units
<1>7. OwnRows'
  <2>1. id'[u] \in DOMAIN catalog' /\ RowOf(u)'.owner = u
    BY <1>2, <1>3, <1>5 DEF Row
  <2>2. \A v \in units \ {u} : id'[v] # 0 => id'[v] \in DOMAIN catalog' /\ RowOf(v)'.owner = v
    BY <1>2, <1>3, <1>4 DEF OwnRows
  <2> QED
    BY <1>2, <1>6, <2>1, <2>2 DEF OwnRows
<1>8. LauncherTypeOK'
  BY <1>1, <1>2, <1>3, <1>6 DEF LauncherTypeOK
<1>9. \A v \in units \ {u} : Untouched(v)
  BY <1>1, <1>3, <1>4 DEF Untouched
<1>10. UnitInv(u)
  BY DEF Kept
<1>11. /\ submit[u] = "none" /\ settle[u] = "none"
       /\ owned[u] = FALSE /\ accepted[u] = FALSE
       /\ DOMAIN futures[u] = {} /\ driver[u] = "none"
  BY <1>1, <1>10 DEF UnitInv, Stage, Over, LauncherTypeOK
<1>12. UnitInv(u)'
  BY <1>1, <1>2, <1>3, <1>5, <1>11
     DEF UnitInv, Stage, Told, FailureTold, OutcomeTold, Waited, Row, Over
<1> QED
  BY <1>1, <1>7, <1>8, <1>9, <1>12, KeptBy

LEMMA OtherAddsKeeps == ASSUME Kept, OtherAdds PROVE Kept'
<1> LauncherTypeOK /\ OwnRows
  BY DEF Kept
<1>1. /\ create_work_unit(Other)
      /\ UNCHANGED <<plan, context, process, id, launching, jobs, faults>>
  BY DEF OtherAdds
<1> USE DEF process, launching, jobs
<1>2. /\ \E k \in Nat : DOMAIN catalog' = 1 .. k
      /\ DOMAIN catalog' = DOMAIN catalog \cup {NextId}
      /\ catalog' \in [DOMAIN catalog' -> RowsOf(units \cup {Other})]
      /\ \A i \in DOMAIN catalog : catalog'[i] = catalog[i]
  BY <1>1, CreateFrames
<1> HIDE DEF NextId
<1>3. units' = units
  BY <1>1 DEF units
<1>4. \A v \in units : id[v] # 0 => id[v] \in DOMAIN catalog /\ RowOf(v)' = RowOf(v)
  BY <1>1, <1>2 DEF OwnRows, RowOf
<1>5. OwnRows'
  BY <1>1, <1>2, <1>3, <1>4 DEF OwnRows
<1>6. LauncherTypeOK'
  BY <1>1, <1>2, <1>3 DEF LauncherTypeOK
<1>7. \A v \in units : Untouched(v)
  BY <1>1, <1>4 DEF Untouched
<1> QED
  BY <1>1, <1>3, <1>5, <1>6, <1>7, UntouchedKeeps DEF Kept

\* A step that is about no unit.
LEMMA QuietKeeps ==
  ASSUME Kept, UNCHANGED <<plan, context, catalog, id, launching, jobs>>,
         raised' \in BOOLEAN, raised => raised', error' \in BOOLEAN,
         main' \in {"body", "flush", "settle", "stopping", "final", "left", "crashed"}
  PROVE  Kept'
<1> USE DEF launching, jobs
<1>1. OwnRows' /\ \A v \in units : RowOf(v)' = RowOf(v)
  BY SameRows
<1>2. LauncherTypeOK'
  BY DEF Kept, LauncherTypeOK, units
<1>3. \A v \in units : Untouched(v)
  BY <1>1 DEF Untouched
<1>4. units' = units
  BY DEF units
<1> QED
  BY <1>1, <1>2, <1>3, <1>4, UntouchedKeeps DEF Kept

\* Everything is collected: the submissions are over, and what is waited for next is set.
LEMMA FlushedKeeps == ASSUME Kept, Uncollected, Flushed PROVE Kept'
<1> LauncherTypeOK
  BY DEF Kept
<1>1. /\ UNCHANGED <<plan, context, raised, error, catalog, id, launch, submit, jobs>>
      /\ main' \in {"stopping", "settle", "final", "left"}
      /\ pending = {}
  BY DEF Flushed
<1> USE DEF jobs
<1>2. CASE settle' = settle
  BY <1>1, <1>2, QuietKeeps DEF LauncherTypeOK, launching
<1>3. CASE settle' = [u \in units |-> IF id[u] # 0 THEN "ready" ELSE "none"]
  <2>1. OwnRows' /\ \A v \in units : RowOf(v)' = RowOf(v)
    BY <1>1, SameRows
  <2>2. settle' \in [units -> Settles]
        /\ \A v \in units : settle'[v] = IF id[v] # 0 THEN "ready" ELSE "none"
    BY <1>3 DEF Settles
  <2>3. LauncherTypeOK'
    BY <1>1, <2>1, <2>2 DEF LauncherTypeOK, units
  <2>4. ASSUME NEW v \in units PROVE UnitInv(v)'
    <3>1. UnitInv(v)
      BY DEF Kept
    <3>2. id[v] # 0 => submit[v] \in Over
      <4>1. launch[v] \notin {"ready", "awaiting"}
        BY <1>1 DEF Uncollected
      <4> QED
        BY <3>1, <4>1 DEF UnitInv, Stage, LauncherTypeOK, Launches, Over
    <3> QED
      BY <1>1, <2>1, <2>2, <3>1, <3>2, SameOutcome
         DEF UnitInv, Stage, Told, FailureTold, OutcomeTold, Waited, Attached
  <2>5. units' = units
    BY <1>1 DEF units
  <2> QED
    BY <2>1, <2>3, <2>4, <2>5 DEF Kept
<1> QED
  BY <1>2, <1>3 DEF Flushed

LEMMA KeptStep == LInv /\ [Next]_launcher => Kept'
<1> SUFFICES ASSUME LInv, [Next]_launcher PROVE Kept'
  OBVIOUS
<1> Kept /\ Uncollected /\ Exiting /\ LauncherTypeOK
  BY DEF LInv, Kept
<1>1. CASE Add
  BY <1>1, AddKeeps
<1>2. CASE EndBody
  BY <1>2, QuietKeeps DEF EndBody, Exiting, LauncherTypeOK
<1>3. CASE Collect
  BY <1>3, QuietKeeps DEF Collect, LauncherTypeOK
<1>4. CASE Flushed
  BY <1>4, FlushedKeeps
<1>5. CASE StopAttached
  BY <1>5, StopAttachedKeeps
<1>6. CASE Loop
  <2>1. PICK u \in units : \/ Launch(u) \/ SaveJob(u) \/ Send(u) \/ SaveHandle(u)
                           \/ ReportError(u) \/ Launched(u) \/ BeginSettle(u) \/ EndSettle(u)
    BY <1>6 DEF Loop
  <2>2. Launch(u) \/ SaveJob(u) \/ Send(u) \/ SaveHandle(u) => Kept'
    BY LaunchKeeps, SaveJobKeeps, SendKeeps, SaveHandleKeeps
  <2>3. ReportError(u) \/ Launched(u) => Kept'
    BY ReportErrorKeeps, LaunchedKeeps
  <2>4. BeginSettle(u) \/ EndSettle(u) => Kept'
    BY BeginSettleKeeps, EndSettleKeeps
  <2> QED
    BY <2>1, <2>2, <2>3, <2>4
<1>7. CASE Pool
  BY <1>7, PoolKeeps, CallbackKeeps DEF Pool
<1>8. CASE Drivers
  BY <1>8, EndDriverKeeps DEF Drivers
<1>9. CASE OtherAdds
  BY <1>9, OtherAddsKeeps
<1>10. CASE Crash
  BY <1>10, QuietKeeps DEF Crash, LauncherTypeOK
<1>11. CASE UNCHANGED launcher
  BY <1>11, QuietKeeps DEF launcher, process, LauncherTypeOK
<1> QED
  BY <1>1, <1>2, <1>3, <1>4, <1>5, <1>6, <1>7, <1>8, <1>9, <1>10, <1>11 DEF Next, Main

-----------------------------------------------------------------------------
(* The tasks to be collected. *)

LEMMA TaskIs ==
  ASSUME NEW u
  PROVE  Task(<<"launch", u>>) = launch[u] /\ Task(<<"settle", u>>) = settle[u]
BY DEF Task

\* A step that neither starts, ends nor collects a launch or a wait.
LEMMA SameTasks ==
  ASSUME Uncollected, UNCHANGED <<plan, launch, settle, error, pending>>
  PROVE  Uncollected'
BY DEF Uncollected, units

\* What one unit's launch and wait go through while they are to be collected.
LEMMA TaskMoves ==
  ASSUME Uncollected, NEW u \in units, UNCHANGED <<plan, error>>, pending \subseteq pending',
         \A v \in units \ {u} : launch'[v] = launch[v] /\ settle'[v] = settle[v],
         launch'[u] = launch[u] \/ <<"launch", u>> \in pending',
         settle'[u] = settle[u] \/ <<"settle", u>> \in pending'
  PROVE  Uncollected'
BY DEF Uncollected, units

LEMMA UncollectedLoop ==
  ASSUME Kept, Uncollected, NEW u \in units,
         \/ Launch(u) \/ Launched(u) \/ BeginSettle(u) \/ EndSettle(u)
  PROVE  Uncollected'
<1> LauncherTypeOK
  BY DEF Kept
<1> USE DEF process, LauncherTypeOK
<1>1. CASE Launch(u)
  <2>1. <<"launch", u>> \in pending'
    BY <1>1 DEF Launch, Uncollected
  <2> QED
    BY <1>1, <2>1, TaskMoves DEF Launch
<1>2. CASE Launched(u)
  <2>1. <<"launch", u>> \in pending'
    BY <1>2 DEF Launched, Uncollected
  <2>2. \A v \in units \ {u} : launch'[v] = launch[v] /\ settle'[v] = settle[v]
    BY <1>2 DEF Launched
  <2> QED
    BY <1>2, <2>1, <2>2, TaskMoves DEF Launched
<1>3. CASE BeginSettle(u)
  <2>1. <<"settle", u>> \in pending'
    BY <1>3 DEF BeginSettle, Uncollected
  <2>2. \A v \in units \ {u} : launch'[v] = launch[v] /\ settle'[v] = settle[v]
    BY <1>3 DEF BeginSettle
  <2> QED
    BY <1>3, <2>1, <2>2, TaskMoves DEF BeginSettle
<1>4. CASE EndSettle(u)
  <2>1. <<"settle", u>> \in pending'
    BY <1>4 DEF EndSettle, Uncollected
  <2>2. \A v \in units \ {u} : launch'[v] = launch[v] /\ settle'[v] = settle[v]
    BY <1>4 DEF EndSettle
  <2> QED
    BY <1>4, <2>1, <2>2, TaskMoves DEF EndSettle
<1> QED
  BY <1>1, <1>2, <1>3, <1>4

\* A result is collected once the task is over, and a failure is then known.
LEMMA UncollectedCollect == ASSUME Kept, Uncollected, Collect PROVE Uncollected'
<1>1. PICK p \in pending :
        /\ Task(p) \in Over /\ pending' = pending \ {p}
        /\ error' = (error \/ Task(p) = "failed")
  BY DEF Collect
<1>2. UNCHANGED <<plan, launch, settle>>
  BY DEF Collect, launching
<1>3. \A u \in units :
        /\ p = <<"launch", u>> => launch[u] \in Over /\ (launch[u] = "failed" => error')
        /\ p = <<"settle", u>> => settle[u] \in Over /\ (settle[u] = "failed" => error')
  BY <1>1, TaskIs
<1>4. error => error'
  BY <1>1
<1> QED
  BY <1>1, <1>2, <1>3, <1>4 DEF Uncollected, units, Over

LEMMA UncollectedFlushed == ASSUME Uncollected, Flushed PROVE Uncollected'
<1>1. UNCHANGED <<plan, error, launch>> /\ pending = {}
  BY DEF Flushed
<1>2. CASE UNCHANGED <<pending, settle>>
  BY <1>1, <1>2, SameTasks
<1>3. CASE /\ pending' = {<<"settle", u>> : u \in {u \in units : id[u] # 0}}
           /\ settle' = [u \in units |-> IF id[u] # 0 THEN "ready" ELSE "none"]
  BY <1>1, <1>3 DEF Uncollected, units
<1> QED
  BY <1>2, <1>3 DEF Flushed

LEMMA UncollectedStep == LInv /\ [Next]_launcher => Uncollected'
<1> SUFFICES ASSUME LInv, [Next]_launcher PROVE Uncollected'
  OBVIOUS
<1> Kept /\ Uncollected /\ LauncherTypeOK
  BY DEF LInv, Kept
<1> USE DEF process, launching
<1>1. CASE Add
  <2>1. PICK u \in units :
          launch' = [launch EXCEPT ![u] = "ready"] /\ pending' = pending \cup {<<"launch", u>>}
    BY <1>1 DEF Add
  <2>2. \A v \in units \ {u} : launch'[v] = launch[v]
    BY <2>1 DEF LauncherTypeOK
  <2>3. UNCHANGED <<plan, error, settle>>
    BY <1>1 DEF Add
  <2> QED
    BY <2>1, <2>2, <2>3, TaskMoves
<1>2. CASE EndBody \/ StopAttached
  BY <1>2, SameTasks DEF EndBody, StopAttached
<1>3. CASE Collect
  BY <1>3, UncollectedCollect
<1>4. CASE Flushed
  BY <1>4, UncollectedFlushed
<1>5. CASE Loop
  <2>1. PICK u \in units : \/ Launch(u) \/ SaveJob(u) \/ Send(u) \/ SaveHandle(u)
                           \/ ReportError(u) \/ Launched(u) \/ BeginSettle(u) \/ EndSettle(u)
    BY <1>5 DEF Loop
  <2>2. SaveJob(u) \/ Send(u) \/ SaveHandle(u) \/ ReportError(u)
          => UNCHANGED <<plan, launch, settle, error, pending>>
    BY DEF SaveJob, Send, SaveHandle, ReportError
  <2> QED
    BY <2>1, <2>2, SameTasks, UncollectedLoop
<1>6. CASE Pool \/ Drivers
  BY <1>6, SameTasks DEF Pool, Drivers, StartLocal, EndLocal, Callback, EndDriver
<1>7. CASE OtherAdds \/ Crash \/ UNCHANGED launcher
  BY <1>7, SameTasks DEF OtherAdds, Crash, launcher
<1> QED
  BY <1>1, <1>2, <1>3, <1>4, <1>5, <1>6, <1>7 DEF Next, Main

-----------------------------------------------------------------------------
(* The parts of the exit. *)

\* What has been asked stays asked.
LEMMA StopRemembers ==
  ASSUME Kept, NEW u \in units, id[u] # 0, UNCHANGED <<plan, id>>,
         NEW s \in {"failed", "stopped"}, stop(u, s)
  PROVE  \A v \in units : (asked[v] => asked'[v]) /\ (unasked[v] => unasked'[v])
BY StopDoes DEF Kept

\* Where nothing is pending, no unit is being launched and none is waited for.
LEMMA NothingPending ==
  ASSUME Kept, Uncollected, pending = {}, NEW u \in units
  PROVE  /\ launch[u] \notin {"ready", "awaiting"} /\ settle[u] \notin {"ready", "waiting"}
         /\ submit[u] \in Over \cup {"none"}
         /\ launch[u] = "failed" \/ settle[u] = "failed" => error
<1>1. /\ launch[u] \notin {"ready", "awaiting"} /\ settle[u] \notin {"ready", "waiting"}
      /\ launch[u] = "failed" \/ settle[u] = "failed" => error
  BY DEF Uncollected
<1>2. submit[u] \in Over \cup {"none"}
  BY <1>1 DEF Kept, UnitInv, Stage, Over, LauncherTypeOK, Launches
<1> QED
  BY <1>1, <1>2

\* A step within a part of the exit.
LEMMA WithinKeeps ==
  ASSUME Kept, Uncollected, Exiting,
         UNCHANGED <<plan, context, main, raised, error, pending, visited, id>>,
         \A v \in units :
           /\ settle[v] # "none" => settle'[v] # "none"
           /\ pending = {} /\ Attached(v)' /\ driver'[v] = "running" =>
                Attached(v) /\ driver[v] = "running"
           /\ (asked[v] => asked'[v]) /\ (unasked[v] => unasked'[v])
  PROVE  Exiting'
<1>1. units' = units
  BY DEF units
<1>2. context = "sync" /\ main \in {"stopping", "final", "left"} => pending = {}
  BY DEF Exiting
<1>3. ASSUME context = "sync", main \in {"stopping", "final", "left"}, NEW v \in units,
             main = "stopping" => v \in visited, Held(v)'
      PROVE  asked'[v] \/ \E w \in units : unasked'[w]
  BY <1>2, <1>3 DEF Exiting, Held, Attached
<1>4. main \in {"settle", "final", "left"} /\ ~error =>
        \A u \in units : id[u] # 0 => settle'[u] # "none"
  BY DEF Exiting
<1> QED
  BY <1>1, <1>3, <1>4 DEF Exiting

LEMMA ExitingLoop ==
  ASSUME Kept, Uncollected, Exiting, NEW u \in units,
         \/ Launch(u) \/ SaveJob(u) \/ Send(u) \/ SaveHandle(u) \/ ReportError(u)
         \/ Launched(u) \/ BeginSettle(u) \/ EndSettle(u)
  PROVE  Exiting'
<1> LauncherTypeOK
  BY DEF Kept
<1> UnitInv(u)
  BY DEF Kept
<1> USE DEF process, jobs
<1>1. CASE Launch(u)
  <2>1. pending # {} /\ launch[u] = "ready"
    BY <1>1 DEF Launch, Uncollected
  <2>2. UNCHANGED <<plan, context, main, raised, error, visited, id, settle, owned, driver, asked,
                    unasked>>
    BY <1>1 DEF Launch
  <2> QED
    BY <2>1, <2>2 DEF Exiting, Held, Attached, units
<1>2. CASE SaveJob(u) \/ ReportError(u)
  BY <1>2, WithinKeeps DEF SaveJob, ReportError, Attached
<1>3. CASE Send(u)
  <2>1. /\ UNCHANGED <<plan, context, main, raised, error, pending, visited, id, settle, owned, asked,
                     unasked>>
        /\ submit[u] = "saved"
        /\ \A v \in units \ {u} : driver'[v] = driver[v]
    BY <1>3 DEF Send, LauncherTypeOK
  <2>2. ~owned[u]
    BY <2>1 DEF UnitInv, Stage
  <2> QED
    BY <2>1, <2>2, WithinKeeps DEF Attached
<1>4. CASE SaveHandle(u)
  <2>1. /\ UNCHANGED <<plan, context, main, raised, error, pending, visited, id, settle, driver, asked,
                     unasked>>
        /\ submit[u] = "sent"
        /\ \A v \in units \ {u} : owned'[v] = owned[v]
    BY <1>4 DEF SaveHandle, LauncherTypeOK
  <2>2. pending # {}
    BY <2>1, NothingPending DEF Over
  <2> QED
    BY <2>1, <2>2, WithinKeeps DEF Attached
<1>5. CASE Launched(u)
  <2>1. id[u] # 0
    BY <1>5 DEF Launched, UnitInv, Stage
  <2>2. UNCHANGED <<plan, context, main, raised, error, pending, visited, id, settle, owned, driver>>
    BY <1>5 DEF Launched
  <2>3. UNCHANGED <<asked, unasked>> \/ stop(u, "failed")
    BY <1>5 DEF Launched
  <2> QED
    BY <2>1, <2>2, <2>3, StopRemembers, WithinKeeps DEF Attached
<1>6. CASE BeginSettle(u)
  <2>1. id[u] # 0
    BY <1>6 DEF BeginSettle, UnitInv, Stage, Over
  <2>2. /\ UNCHANGED <<plan, context, main, raised, error, pending, visited, id, owned, driver>>
        /\ \A v \in units : settle[v] # "none" => settle'[v] # "none"
    BY <1>6 DEF BeginSettle, LauncherTypeOK
  <2>3. UNCHANGED <<asked, unasked>> \/ stop(u, "stopped")
    BY <1>6 DEF BeginSettle, stop
  <2> QED
    BY <2>1, <2>2, <2>3, StopRemembers, WithinKeeps DEF Attached
<1>7. CASE EndSettle(u)
  <2>1. /\ UNCHANGED <<plan, context, main, raised, error, pending, visited, id, owned, driver, asked,
                     unasked>>
        /\ \A v \in units : settle[v] # "none" => settle'[v] # "none"
    BY <1>7 DEF EndSettle, LauncherTypeOK
  <2> QED
    BY <2>1, WithinKeeps DEF Attached
<1> QED
  BY <1>1, <1>2, <1>3, <1>4, <1>5, <1>6, <1>7

LEMMA ExitingThreads ==
  ASSUME Kept, Uncollected, Exiting, Pool \/ Drivers
  PROVE  Exiting'
<1> USE DEF process, launching
<1>1. CASE Pool
  BY <1>1, WithinKeeps DEF Pool, StartLocal, EndLocal, Callback, Attached
<1>2. CASE Drivers
  <2>1. PICK u \in units : EndDriver(u)
    BY <1>2 DEF Drivers
  <2>2. /\ UNCHANGED <<plan, context, main, raised, error, pending, visited, id, settle, owned, asked,
                     unasked>>
        /\ driver[u] = "running"
        /\ \A v \in units \ {u} : driver'[v] = driver[v]
    BY <2>1 DEF EndDriver, Kept, LauncherTypeOK
  <2> QED
    BY <2>2, WithinKeeps DEF Attached
<1> QED
  BY <1>1, <1>2

\* An error that is collected moves on the exit of an async context only.
LEMMA ExitingCollect == ASSUME Kept, Exiting, Collect PROVE Exiting'
<1>1. /\ UNCHANGED <<plan, context, raised, visited, id, launching, jobs>>
      /\ main \in {"flush", "settle", "final"} /\ pending # {} /\ (error => error')
      /\ \/ main' = main
         \/ context = "async" /\ error' /\ main' = IF main = "final" THEN "left" ELSE "stopping"
  BY DEF Collect
<1> QED
  BY <1>1 DEF Exiting, Held, Attached, units, launching, jobs, Kept, LauncherTypeOK

\* When everything is collected without an error, every attached driver is over.
LEMMA ExitingFlushed == ASSUME Kept, Uncollected, Exiting, Flushed PROVE Exiting'
<1>1. /\ UNCHANGED <<plan, context, raised, error, visited, id, owned, driver, asked, unasked>>
      /\ pending = {} /\ units' = units /\ (error \in BOOLEAN)
  BY DEF Flushed, jobs, units, Kept, LauncherTypeOK
<1>2. CASE main # "final" /\ error /\ main' = "stopping" /\ UNCHANGED <<pending, settle>>
  BY <1>1, <1>2 DEF Exiting, Flushed
<1>3. CASE /\ main = "flush" /\ ~error /\ main' = "settle"
           /\ settle' = [u \in units |-> IF id[u] # 0 THEN "ready" ELSE "none"]
  BY <1>1, <1>3 DEF Exiting
<1>4. CASE /\ main = "settle" /\ ~error /\ main' = "final" /\ UNCHANGED <<pending, settle>>
  <2>1. ASSUME NEW u \in units, Attached(u) PROVE driver[u] # "running"
    <3>1. UnitInv(u) /\ id[u] # 0
      BY <2>1 DEF Attached, Kept, UnitInv, Stage
    <3>2. settle[u] = "ok"
      BY <1>1, <1>4, <3>1, NothingPending DEF Exiting, Kept, LauncherTypeOK, Settles
    <3> QED
      BY <2>1, <3>1, <3>2 DEF UnitInv, Waited, Over
  <2> QED
    BY <1>1, <1>4, <2>1 DEF Exiting, Held, Attached
<1>5. CASE main = "final" /\ main' = "left" /\ UNCHANGED <<pending, settle>>
  BY <1>1, <1>5 DEF Exiting, Held, Attached
<1> QED
  BY <1>1, <1>2, <1>3, <1>4, <1>5 DEF Flushed

\* The stopping ends when every unit was visited, or a stop failed; at its visit an
\* attached driver was over or asked.
LEMMA ExitingStopAttached == ASSUME Kept, Exiting, StopAttached PROVE Exiting'
<1>1. /\ UNCHANGED <<plan, context, raised, error, pending, id, settle, owned, driver>>
      /\ main = "stopping" /\ units' = units /\ error
      /\ \A v \in units : Held(v)' <=> Held(v)
  BY DEF StopAttached, Exiting, Held, Attached, units, launching
<1>2. \A v \in units : Held(v) => id[v] # 0 /\ RowOf(v).backend = "slurm"
  BY DEF Held, Attached, Kept, UnitInv, Stage, Told
<1>3. CASE main' = "final" /\ UNCHANGED <<asked, unasked>> /\ \A v \in units : id[v] # 0 => v \in visited
  BY <1>1, <1>2, <1>3 DEF Exiting
<1>4. CASE \E u \in units : Visit(u)
  <2>1. PICK u \in units : Visit(u)
    BY <1>4
  <2>2. visited' = visited \cup {u}
    BY <2>1 DEF Visit
  <2>3. CASE stops(u, "stopped") /\ main' = main
    <3>1. /\ unasked' = unasked /\ \A v \in units : asked[v] => asked'[v]
          /\ RowOf(u).backend = "slurm" => asked'[u]
      BY <2>3, StopsDoes DEF Kept
    <3> QED
      BY <1>1, <1>2, <2>2, <2>3, <3>1 DEF Exiting
  <2>4. CASE ~Held(u) /\ UNCHANGED <<asked, unasked>> /\ main' = main
    BY <1>1, <2>2, <2>4 DEF Exiting
  <2>5. CASE stopFails(u, "stopped") /\ main' = "final"
    <3>1. unasked'[u]
      BY <2>5, StopFailsDoes DEF Kept
    <3> QED
      BY <1>1, <2>5, <3>1 DEF Exiting
  <2> QED
    BY <2>1, <2>3, <2>4, <2>5 DEF Visit
<1> QED
  BY <1>3, <1>4 DEF StopAttached

LEMMA ExitingStep == LInv /\ [Next]_launcher => Exiting'
<1> SUFFICES ASSUME LInv, [Next]_launcher PROVE Exiting'
  OBVIOUS
<1> Kept /\ Uncollected /\ Exiting /\ LauncherTypeOK
  BY DEF LInv, Kept
<1> USE DEF process, launching, jobs
<1>1. CASE Add
  <2>1. /\ UNCHANGED <<plan, context, main, raised, error, visited, settle>> /\ main = "body"
    BY <1>1 DEF Add
  <2> QED
    BY <2>1 DEF Exiting
<1>2. CASE EndBody
  BY <1>2 DEF EndBody, Exiting, units
<1>3. CASE Collect
  BY <1>3, ExitingCollect
<1>4. CASE Flushed
  BY <1>4, ExitingFlushed
<1>5. CASE StopAttached
  BY <1>5, ExitingStopAttached
<1>6. CASE Loop
  BY <1>6, ExitingLoop DEF Loop
<1>7. CASE Pool \/ Drivers
  BY <1>7, ExitingThreads
<1>8. CASE Crash
  BY <1>8 DEF Crash, Exiting
<1>9. CASE OtherAdds \/ UNCHANGED launcher
  BY <1>9, WithinKeeps DEF OtherAdds, launcher, Attached
<1> QED
  BY <1>1, <1>2, <1>3, <1>4, <1>5, <1>6, <1>7, <1>8, <1>9 DEF Next, Main

-----------------------------------------------------------------------------
(* What the rows say of a stop. *)

\* A step after which a unit's row says "stopped" only if it did before.
NoneStopped ==
  \A v \in units : id'[v] # 0 /\ RowOf(v)'.state = "stopped" =>
    id[v] # 0 /\ RowOf(v).state = "stopped"

LEMMA UpdateStops ==
  ASSUME Kept, NEW u \in units, id[u] # 0, UNCHANGED <<plan, id>>,
         NEW row \in RowsOf({u}), update(u, row),
         row.state = "stopped" => RowOf(u).state = "stopped"
  PROVE  NoneStopped
<1>1. /\ RowOf(u)' = row
      /\ \A v \in units \ {u} : id[v] # 0 => RowOf(v)' = RowOf(v)
  BY UpdateKeeps
<1> QED
  BY <1>1 DEF NoneStopped

LEMMA SameStops == ASSUME UNCHANGED <<plan, id, catalog>> PROVE NoneStopped
BY DEF NoneStopped, RowOf

LEMMA OutcomeStops ==
  ASSUME Kept, NEW u \in units, id[u] # 0, UNCHANGED <<plan, id>>, update(u, recorded(u, RowOf(u)))
  PROVE  NoneStopped
<1>1. RowOf(u) \in RowsOf({u})
  BY RowType DEF Kept
<1>2. /\ recorded(u, RowOf(u)) \in RowsOf({u})
      /\ recorded(u, RowOf(u)).state = IF AllDone(u) THEN Outcome(u) ELSE RowOf(u).state
  BY <1>1, RecordedIs
<1>3. Outcome(u) # "stopped"
  BY DEF Outcome
<1> QED
  BY <1>2, <1>3, UpdateStops

LEMMA StoppedLoop ==
  ASSUME Kept, NEW u \in units,
         \/ Launch(u) \/ SaveJob(u) \/ Send(u) \/ SaveHandle(u) \/ ReportError(u)
         \/ Launched(u) \/ EndSettle(u)
  PROVE  NoneStopped
<1> LauncherTypeOK /\ OwnRows /\ UnitInv(u)
  BY DEF Kept
<1>1. submit[u] # "none" => id[u] # 0
  BY DEF UnitInv, Stage
<1>2. settle[u] # "none" => id[u] # 0
  BY <1>1 DEF UnitInv, Stage, Over
<1>3. id[u] # 0 => RowOf(u) \in RowsOf({u})
  BY RowType
<1>4. CASE Launch(u) \/ Send(u)
  BY <1>4, SameStops DEF Launch, Send
<1>5. CASE SaveJob(u) \/ ReportError(u)
  <2>1. id[u] # 0 /\ UNCHANGED <<plan, id>>
    BY <1>1, <1>5 DEF SaveJob, ReportError
  <2>2. /\ [RowOf(u) EXCEPT !.job = TRUE] \in RowsOf({u})
        /\ [RowOf(u) EXCEPT !.message = TRUE] \in RowsOf({u})
        /\ [RowOf(u) EXCEPT !.job = TRUE].state = RowOf(u).state
        /\ [RowOf(u) EXCEPT !.message = TRUE].state = RowOf(u).state
    BY <1>3, <2>1 DEF RowsOf
  <2> QED
    BY <1>5, <2>1, <2>2, UpdateStops DEF SaveJob, ReportError
<1>6. CASE SaveHandle(u)
  <2>1. id[u] # 0 /\ UNCHANGED <<plan, id>>
    BY <1>1, <1>6 DEF SaveHandle
  <2> DEFINE kind == IF plan[u].backend = "local" THEN "local" ELSE "slurm"
             native == plan[u].backend = "slurm"
             given == [RowOf(u) EXCEPT !.backend = kind, !.native = native]
             row == IF plan[u].backend = "local" THEN recorded(u, given) ELSE given
  <2>2. native \in BOOLEAN /\ kind \in {"local", "slurm"}
    OBVIOUS
  <2>3. catalog' = catalog \/ update(u, row)
    BY <1>6 DEF SaveHandle
  <2> HIDE DEF kind, native
  <2>4. given \in RowsOf({u}) /\ given.state = RowOf(u).state
    BY <1>3, <2>1, <2>2 DEF RowsOf
  <2> HIDE DEF given
  <2>5. /\ recorded(u, given) \in RowsOf({u})
        /\ recorded(u, given).state = IF AllDone(u) THEN Outcome(u) ELSE given.state
    BY <2>4, RecordedIs
  <2>6. row \in RowsOf({u}) /\ (row.state = "stopped" => RowOf(u).state = "stopped")
    BY <2>4, <2>5 DEF Outcome
  <2> HIDE DEF row
  <2> QED
    BY <2>1, <2>3, <2>6, UpdateStops, SameStops
<1>7. CASE Launched(u)
  <2>1. id[u] # 0 /\ UNCHANGED <<plan, id>>
    BY <1>7 DEF Launched, UnitInv, Stage
  <2>2. catalog' = catalog \/ stop(u, "failed")
    BY <1>7 DEF Launched
  <2>3. CASE stop(u, "failed")
    <3>1. /\ RowOf(u)'.state \in {"failed", RowOf(u).state}
          /\ \A v \in units \ {u} : id[v] # 0 => RowOf(v)' = RowOf(v)
      BY <2>1, <2>3, StopKeeps
    <3> QED
      BY <2>1, <3>1 DEF NoneStopped
  <2> QED
    BY <2>1, <2>2, <2>3, SameStops
<1>8. CASE EndSettle(u)
  <2>1. id[u] # 0 /\ UNCHANGED <<plan, id>>
    BY <1>2, <1>8 DEF EndSettle
  <2>2. catalog' = catalog \/ update(u, recorded(u, RowOf(u)))
    BY <1>8 DEF EndSettle, Settled
  <2> QED
    BY <2>1, <2>2, OutcomeStops, SameStops
<1> QED
  BY <1>4, <1>5, <1>6, <1>7, <1>8

LEMMA StoppedPool == ASSUME Kept, Pool PROVE NoneStopped
<1>1. PICK u \in units : \E t \in DOMAIN futures[u] :
                           StartLocal(u, t) \/ EndLocal(u, t) \/ Callback(u, t)
  BY DEF Pool
<1>2. /\ UNCHANGED <<plan, id>>
      /\ catalog' = catalog \/ (owned[u] /\ update(u, recorded(u, RowOf(u))))
  BY <1>1 DEF StartLocal, EndLocal, Callback
<1>3. owned[u] => id[u] # 0
  BY DEF Kept, UnitInv, Stage
<1> QED
  BY <1>2, <1>3, OutcomeStops, SameStops

\* A step that neither stops a unit for an exit nor ends a part of it.
LEMMA StoppedKeeps ==
  ASSUME LInv, NoneStopped, UNCHANGED <<plan, raised>>, error => error',
         main' \in {"body", "flush"} => main \in {"body", "flush"} /\ settle' = settle
  PROVE  StoppedAtExit'
<1>1. units' = units
  BY DEF units
<1> QED
  BY <1>1 DEF LInv, StoppedAtExit, NoneStopped

LEMMA StoppedStep == LInv /\ [Next]_launcher => StoppedAtExit'
<1> SUFFICES ASSUME LInv, [Next]_launcher PROVE StoppedAtExit'
  OBVIOUS
<1> Kept /\ Exiting /\ StoppedAtExit /\ LauncherTypeOK /\ OwnRows
  BY DEF LInv, Kept
<1> USE DEF process, launching
<1>1. CASE Add
  <2>1. PICK u \in units :
          /\ id[u] = 0 /\ create_work_unit(u) /\ id' = [id EXCEPT ![u] = NextId]
          /\ UNCHANGED <<plan, main, raised, error, settle>>
    BY <1>1 DEF Add, _create_experiment_unit
  <2>2. /\ NextId \notin DOMAIN catalog /\ catalog'[NextId] = Row(u)
        /\ \A i \in DOMAIN catalog : catalog'[i] = catalog[i]
    BY <2>1, CreateFrames
  <2> HIDE DEF NextId
  <2>3. id'[u] = NextId /\ \A v \in units \ {u} : id'[v] = id[v]
    BY <2>1 DEF LauncherTypeOK
  <2>4. RowOf(u)'.state = "unknown"
    BY <2>2, <2>3 DEF RowOf, Row
  <2>5. NoneStopped
    BY <2>2, <2>3, <2>4 DEF NoneStopped, RowOf, OwnRows
  <2> QED
    BY <2>1, <2>5, StoppedKeeps
<1>2. CASE OtherAdds
  <2>1. UNCHANGED <<plan, main, raised, error, settle, id>> /\ create_work_unit(Other)
    BY <1>2 DEF OtherAdds
  <2>2. \A i \in DOMAIN catalog : catalog'[i] = catalog[i]
    BY <2>1, CreateFrames
  <2>3. NoneStopped
    BY <2>1, <2>2 DEF NoneStopped, RowOf, OwnRows
  <2> QED
    BY <2>1, <2>3, StoppedKeeps
<1>3. CASE EndBody
  <2>1. /\ UNCHANGED <<plan, id, catalog, settle>> /\ main = "body"
    BY <1>3 DEF EndBody
  <2> QED
    BY <2>1 DEF StoppedAtExit, RowOf, units
<1>4. CASE Collect
  <2>1. /\ UNCHANGED <<plan, id, catalog, raised, settle>> /\ (error => error')
        /\ main' \in {main, "left", "stopping"}
    BY <1>4 DEF Collect
  <2> QED
    BY <2>1, SameStops, StoppedKeeps
<1>5. CASE Flushed
  <2>1. /\ UNCHANGED <<plan, id, catalog, raised, error>>
        /\ main' \in {"stopping", "settle", "final", "left"}
    BY <1>5 DEF Flushed
  <2> QED
    BY <2>1, SameStops, StoppedKeeps
<1>6. CASE StopAttached
  <2>1. /\ UNCHANGED <<plan, id, raised, error>> /\ main = "stopping"
        /\ main' \in {"stopping", "final"} /\ error
    BY <1>6 DEF StopAttached, Visit, Exiting
  <2> QED
    BY <2>1 DEF StoppedAtExit, units
<1>7. CASE \E u \in units : BeginSettle(u)
  <2>1. PICK u \in units : BeginSettle(u)
    BY <1>7
  <2>2. UNCHANGED <<plan, id, main, raised, error>> /\ settle[u] = "ready"
    BY <2>1 DEF BeginSettle
  <2>3. main \notin {"body", "flush"}
    BY <2>2 DEF StoppedAtExit
  <2>4. CASE raised
    BY <2>2, <2>3, <2>4 DEF StoppedAtExit, units
  <2>5. CASE ~raised
    <3>1. catalog' = catalog
      BY <2>1, <2>5 DEF BeginSettle
    <3> QED
      BY <2>2, <2>3, <3>1, SameStops, StoppedKeeps
  <2> QED
    BY <2>4, <2>5
<1>8. CASE \E u \in units : \/ Launch(u) \/ SaveJob(u) \/ Send(u) \/ SaveHandle(u)
                              \/ ReportError(u) \/ Launched(u) \/ EndSettle(u)
  <2>1. PICK u \in units : \/ Launch(u) \/ SaveJob(u) \/ Send(u) \/ SaveHandle(u)
                            \/ ReportError(u) \/ Launched(u) \/ EndSettle(u)
    BY <1>8
  <2>2. UNCHANGED <<plan, main, raised, error>>
    BY <2>1 DEF Launch, SaveJob, Send, SaveHandle, ReportError, Launched, EndSettle
  <2>3. settle' = settle \/ settle[u] = "waiting"
    BY <2>1 DEF Launch, SaveJob, Send, SaveHandle, ReportError, Launched, EndSettle
  <2>4. main \in {"body", "flush"} => settle' = settle
    BY <2>3 DEF StoppedAtExit
  <2> QED
    BY <2>1, <2>2, <2>4, StoppedLoop, StoppedKeeps
<1>9. CASE Pool
  <2>1. UNCHANGED <<plan, main, raised, error, settle>>
    BY <1>9 DEF Pool, StartLocal, EndLocal, Callback
  <2> QED
    BY <1>9, <2>1, StoppedPool, StoppedKeeps
<1>10. CASE Drivers \/ Crash \/ UNCHANGED launcher
  <2>1. /\ UNCHANGED <<plan, id, catalog, raised, error, settle>>
        /\ main' \in {main, "crashed"}
    BY <1>10 DEF Drivers, EndDriver, Crash, launcher
  <2> QED
    BY <2>1, SameStops, StoppedKeeps
<1> QED
  BY <1>1, <1>2, <1>3, <1>4, <1>5, <1>6, <1>7, <1>8, <1>9, <1>10 DEF Next, Main, Loop

-----------------------------------------------------------------------------
(* The theorems. *)

\* Whatever order tasks, threads and other launchers take, a unit's row, job,
\* handle and outcome agree with how far it has got, everything unfinished is
\* still to be collected, and the exit has seen to what its part implies.
THEOREM LauncherInvariance == LauncherSpec => []LInv
<1>1. LInv /\ [Next]_launcher => LInv'
  BY KeptStep, UncollectedStep, ExitingStep, StoppedStep DEF LInv
<1> QED
  BY InitLInv, <1>1, PTL DEF LauncherSpec

\* A job the scheduler accepted is in its row as asked for, and the row owns its
\* handle, is about to, or says that acceptance is unknown (_submit_job and its
\* error path), unless the process died in between.
THEOREM LostHandleIsReportedHolds == LauncherSpec => []LostHandleIsReported
<1>1. LInv => LostHandleIsReported
  <2> SUFFICES ASSUME LInv, NEW u \in units, accepted[u]
               PROVE  /\ RowOf(u).job
                      /\ \/ RowOf(u).backend = "slurm" \/ submit[u] \in Midway
                         \/ RowOf(u).message \/ main = "crashed"
    BY DEF LostHandleIsReported
  <2>1. Stage(u) /\ Told(u)
    BY DEF LInv, Kept, UnitInv
  <2> QED
    BY <2>1 DEF Stage, Told, Midway
<1> QED
  BY LauncherInvariance, <1>1, PTL

\* A unit whose creation failed although its job is owned was asked to stop, or a
\* stop of it failed.  Once asked, its row says that it failed and why, or, after
\* the exit has stopped its attached driver once more, "stopped" and nothing else.
THEOREM FailedUnitIsStoppedHolds == LauncherSpec => []FailedUnitIsStopped
<1>1. LInv => FailedUnitIsStopped
  <2> SUFFICES ASSUME LInv, NEW u \in units, launch[u] = "failed", id[u] # 0,
                      RowOf(u).backend = "slurm", ~unasked[u]
               PROVE  /\ asked[u]
                      /\ \/ RowOf(u).state = "failed" /\ RowOf(u).message
                         \/ /\ RowOf(u).state = "stopped" /\ ~RowOf(u).message
                            /\ Attached(u) /\ main \notin {"body", "flush"} /\ (raised \/ error)
    BY DEF FailedUnitIsStopped
  <2>1. FailureTold(u)
    BY DEF LInv, Kept, UnitInv
  <2> QED
    BY <2>1 DEF LInv, FailureTold, StoppedAtExit
<1> QED
  BY LauncherInvariance, <1>1, PTL

\* Whoever records a Local unit's outcome, a callback, the submission or the wait,
\* records that of all its tasks, and not before the last has ended.
THEOREM LocalOutcomeIsTrueHolds == LauncherSpec => []LocalOutcomeIsTrue
<1>1. LInv => LocalOutcomeIsTrue
  <2> SUFFICES ASSUME LInv, NEW u \in units,
                      id[u] # 0, plan[u].backend = "local", RowOf(u).state # "unknown"
               PROVE  AllDone(u) /\ futures[u] # <<>> /\ RowOf(u).state = Outcome(u)
    BY DEF LocalOutcomeIsTrue
  <2>1. AllDone(u) /\ DOMAIN futures[u] # {} /\ RowOf(u).state = Outcome(u)
    BY DEF LInv, Kept, UnitInv, OutcomeTold
  <2>2. DOMAIN <<>> = {}
    OBVIOUS
  <2> QED
    BY <2>1, <2>2
<1> QED
  BY LauncherInvariance, <1>1, PTL

\* A context that is left: every launch is over unless an error cut the collecting
\* of an async one short; without an error or an exception every outcome is told and
\* every attached driver is over; a sync one asked every driver that still runs.
THEOREM ExitDrainsHolds == LauncherSpec => []ExitDrains
<1>1. LInv => ExitDrains
  <2> SUFFICES ASSUME LInv, main = "left" PROVE ExitDrains
    BY DEF ExitDrains
  <2>1. Kept /\ Uncollected /\ Exiting /\ LauncherTypeOK
    BY DEF LInv, Kept
  <2>2. ASSUME context = "sync" \/ ~error, NEW u \in units
        PROVE  launch[u] \in Over \cup {"none"}
    <3>1. pending = {}
      BY <2>1, <2>2 DEF Exiting
    <3> QED
      BY <2>1, <3>1, NothingPending DEF LauncherTypeOK, Launches, Over
  <2>3. ASSUME ~error, ~raised, NEW u \in units
        PROVE  /\ launch[u] = "ok" /\ driver[u] # "running"
               /\ plan[u].backend = "local" => RowOf(u).state = Outcome(u)
    <3>1. pending = {} /\ id[u] # 0 /\ settle[u] # "none"
      BY <2>1, <2>3 DEF Exiting
    <3>2. UnitInv(u)
      BY <2>1 DEF Kept
    <3>3. launch[u] = "ok" /\ settle[u] = "ok"
      BY <2>1, <2>3, <3>1, <3>2, NothingPending
         DEF LauncherTypeOK, Launches, Settles, UnitInv, Stage
    <3>4. owned[u]
      BY <3>2, <3>3 DEF UnitInv, Stage
    <3>5. driver[u] # "running"
      BY <3>2, <3>3, <3>4 DEF UnitInv, Waited, Attached, Over
    <3>6. plan[u].backend = "local" => RowOf(u).state = Outcome(u)
      BY <2>3, <3>1, <3>2, <3>3, <3>4 DEF UnitInv, Waited, OutcomeTold
    <3> QED
      BY <3>3, <3>5, <3>6
  <2>4. context = "sync" =>
          \A u \in units : Attached(u) /\ driver[u] = "running" =>
            asked[u] \/ \E v \in units : unasked[v]
    BY <2>1 DEF Exiting, Held
  <2> QED
    BY <2>2, <2>3, <2>4 DEF ExitDrains
<1> QED
  BY LauncherInvariance, <1>1, PTL

\* The rows of one step: no row goes or changes hands, and another launcher's is
\* never written.
RowsStay ==
  \A i \in DOMAIN catalog :
    /\ i \in DOMAIN catalog' /\ catalog'[i].owner = catalog[i].owner
    /\ catalog[i].owner = Other => catalog'[i] = catalog[i]

\* A write of a unit's row leaves the rows to their owners.
LEMMA UpdateIsOwn ==
  ASSUME Kept, NEW u \in units, id[u] # 0, id' = id, NEW row \in RowsOf({u}), update(u, row)
  PROVE  RowsStay
<1>1. u # Other
  BY UnitNumbers DEF Kept
<1>2. /\ DOMAIN catalog' = DOMAIN catalog
      /\ \A i \in DOMAIN catalog : catalog'[i].owner = catalog[i].owner
      /\ \A i \in DOMAIN catalog : catalog[i].owner # u => catalog'[i] = catalog[i]
  BY UpdateFrames DEF Kept
<1> QED
  BY <1>1, <1>2 DEF RowsStay

LEMMA StopIsOwn ==
  ASSUME Kept, NEW u \in units, id[u] # 0, id' = id, NEW s \in {"failed", "stopped"}, stop(u, s)
  PROVE  RowsStay
<1> LauncherTypeOK /\ OwnRows
  BY DEF Kept
<1>1. Intent(u, s) \in RowsOf({u})
  BY IntentIs
<1>2. catalog' = catalog \/ update(u, Intent(u, s))
  BY StopDoes
<1> QED
  BY <1>1, <1>2, UpdateIsOwn DEF RowsStay

LEMMA CreateIsOwn ==
  ASSUME Kept, NEW owner \in units \cup {Other}, create_work_unit(owner)
  PROVE  RowsStay
BY CreateFrames DEF Kept, RowsStay

LEMMA RowsOfLoop ==
  ASSUME Kept, NEW u \in units,
         \/ Launch(u) \/ SaveJob(u) \/ Send(u) \/ SaveHandle(u) \/ ReportError(u)
         \/ Launched(u) \/ BeginSettle(u) \/ EndSettle(u)
  PROVE  RowsStay
<1> LauncherTypeOK /\ OwnRows /\ UnitInv(u)
  BY DEF Kept
<1>1. submit[u] # "none" => id[u] # 0
  BY DEF UnitInv, Stage
<1>2. settle[u] # "none" => id[u] # 0
  BY <1>1 DEF UnitInv, Stage, Over
<1>3. id[u] # 0 => RowOf(u) \in RowsOf({u})
  BY RowType
<1>4. CASE Launch(u) \/ Send(u)
  BY <1>4 DEF Launch, Send, RowsStay
<1>5. CASE SaveJob(u) \/ ReportError(u)
  <2>1. id[u] # 0 /\ id' = id
    BY <1>1, <1>5 DEF SaveJob, ReportError
  <2>2. /\ [RowOf(u) EXCEPT !.job = TRUE] \in RowsOf({u})
        /\ [RowOf(u) EXCEPT !.message = TRUE] \in RowsOf({u})
    BY <1>3, <2>1 DEF RowsOf
  <2> QED
    BY <1>5, <2>1, <2>2, UpdateIsOwn DEF SaveJob, ReportError
<1>6. CASE SaveHandle(u)
  <2>1. id[u] # 0 /\ id' = id
    BY <1>1, <1>6 DEF SaveHandle
  <2> DEFINE kind == IF plan[u].backend = "local" THEN "local" ELSE "slurm"
             native == plan[u].backend = "slurm"
             given == [RowOf(u) EXCEPT !.backend = kind, !.native = native]
  <2>2. native \in BOOLEAN /\ kind \in {"local", "slurm"}
    OBVIOUS
  <2>3. catalog' = catalog
        \/ update(u, IF plan[u].backend = "local" THEN recorded(u, given) ELSE given)
    BY <1>6 DEF SaveHandle
  <2> HIDE DEF kind, native
  <2>4. given \in RowsOf({u})
    BY <1>3, <2>1, <2>2 DEF RowsOf
  <2> HIDE DEF given
  <2>5. recorded(u, given) \in RowsOf({u})
    BY <2>4, RecordedIs
  <2> QED
    BY <2>1, <2>3, <2>4, <2>5, UpdateIsOwn DEF RowsStay
<1>7. CASE Launched(u)
  <2>1. id[u] # 0 /\ id' = id
    BY <1>7 DEF Launched, UnitInv, Stage
  <2>2. catalog' = catalog \/ stop(u, "failed")
    BY <1>7 DEF Launched
  <2> QED
    BY <2>1, <2>2, StopIsOwn DEF RowsStay
<1>8. CASE BeginSettle(u)
  <2>1. id[u] # 0 /\ id' = id
    BY <1>2, <1>8 DEF BeginSettle
  <2>2. catalog' = catalog \/ stop(u, "stopped")
    BY <1>8 DEF BeginSettle, stop
  <2> QED
    BY <2>1, <2>2, StopIsOwn DEF RowsStay
<1>9. CASE EndSettle(u)
  <2>1. id[u] # 0 /\ id' = id
    BY <1>2, <1>9 DEF EndSettle
  <2>2. catalog' = catalog \/ update(u, recorded(u, RowOf(u)))
    BY <1>9 DEF EndSettle, Settled
  <2>3. recorded(u, RowOf(u)) \in RowsOf({u})
    BY <2>1, RowType, RecordedIs
  <2> QED
    BY <2>1, <2>2, <2>3, UpdateIsOwn DEF RowsStay
<1> QED
  BY <1>4, <1>5, <1>6, <1>7, <1>8, <1>9

\* Two launchers that add to one experiment at once never take the same row
\* (create_work_unit under the catalog's writer lock), and every write a launcher
\* makes by its unit's id lands in that unit's row.
THEOREM RowsAreOwnHolds == LauncherSpec => RowsAreOwn
<1>1. ASSUME LInv, [Next]_launcher PROVE RowsStay
  <2> Kept /\ LauncherTypeOK
    BY <1>1 DEF LInv, Kept
  <2>1. CASE Add
    <3>1. \E u \in units : create_work_unit(u)
      BY <2>1 DEF Add, _create_experiment_unit
    <3> QED
      BY <3>1, CreateIsOwn
  <2>2. CASE OtherAdds
    BY <2>2, CreateIsOwn DEF OtherAdds
  <2>3. CASE StopAttached
    <3>1. id' = id
      BY <2>3 DEF StopAttached
    <3>2. CASE catalog' = catalog
      BY <3>2 DEF RowsStay
    <3>3. CASE \E u \in units : Held(u) /\ stop(u, "stopped")
      <4>1. PICK u \in units : Held(u) /\ stop(u, "stopped")
        BY <3>3
      <4>2. id[u] # 0
        BY <4>1 DEF Held, Attached, Kept, UnitInv, Stage
      <4> QED
        BY <3>1, <4>1, <4>2, StopIsOwn
    <3> QED
      BY <2>3, <3>2, <3>3 DEF StopAttached, Visit, stop
  <2>4. CASE Loop
    BY <2>4, RowsOfLoop DEF Loop
  <2>5. CASE Pool
    <3>1. PICK u \in units : \E t \in DOMAIN futures[u] :
                               StartLocal(u, t) \/ EndLocal(u, t) \/ Callback(u, t)
      BY <2>5 DEF Pool
    <3>2. id' = id /\ (catalog' = catalog \/ (owned[u] /\ update(u, recorded(u, RowOf(u)))))
      BY <3>1 DEF StartLocal, EndLocal, Callback
    <3>3. owned[u] => id[u] # 0
      BY DEF Kept, UnitInv, Stage
    <3>4. owned[u] => recorded(u, RowOf(u)) \in RowsOf({u})
      BY <3>3, RowType, RecordedIs DEF Kept
    <3> QED
      BY <3>2, <3>3, <3>4, UpdateIsOwn DEF RowsStay
  <2>6. CASE EndBody \/ Collect \/ Flushed \/ Crash \/ Drivers \/ UNCHANGED launcher
    BY <2>6 DEF EndBody, Collect, Flushed, Crash, Drivers, EndDriver, launcher, RowsStay
  <2> QED
    BY <1>1, <2>1, <2>2, <2>3, <2>4, <2>5, <2>6 DEF Next, Main
<1>2. LInv /\ [Next]_launcher => [RowsStay]_launcher
  BY <1>1
<1>3. LauncherSpec => [][RowsStay]_launcher
  BY LauncherInvariance, <1>2, PTL DEF LauncherSpec
<1> QED
  BY <1>3 DEF RowsAreOwn, RowsStay

=============================================================================
