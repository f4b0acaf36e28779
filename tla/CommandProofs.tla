---------------------------- MODULE CommandProofs ----------------------------
(***************************************************************************)
(* Proofs about modules Orchestrator and Command, for any number of        *)
(* registries, cap and pool size.  The inductive invariant OInv relates    *)
(* the tasks, the pool and its queue; CInv joins it, which every step of a *)
(* command preserves, with what the main thread knows of the scan once     *)
(* asyncio.run has returned; OutputInv, on top of it, says how far the     *)
(* loops over the reports have come and what they have written.            *)
(***************************************************************************)
EXTENDS Command, FiniteSetTheorems, TLAPS

-----------------------------------------------------------------------------
(***************************************************************************)
(* The orchestrator.                                                       *)
(***************************************************************************)

USE DEF Registries, Half

\* What a registry's report and halves say of each other.
TaskInv ==
    \A r \in Registries :
        /\ r \notin enabled => task[r] = "waiting"
        /\ task[r] = "waiting" => \A h \in Half : h[1] = r => half[h] = "none"
        /\ task[r] \in {"waiting", "scanning"} <=> reports[r] = "none"
        /\ reports[r] = "whole" => Whole(r)
        /\ reports[r] = "error" => r \in unbuilt \/ Broken(r)

\* A half waits in the queue once, and all that wait there are queued.
QueueInv ==
    /\ \A i \in 1 .. Len(queue) : half[queue[i]] = "queued"
    /\ \A i, j \in 1 .. Len(queue) : queue[i] = queue[j] => i = j

PhaseInv ==
    (phase # "gather" /\ ~interrupted) =>
        \A r \in enabled : task[r] = "reported"

SemaphoreInv == Cardinality(Admitted) <= Bound

OInv == ScanTypeOK /\ TaskInv /\ QueueInv /\ PhaseInv /\ SemaphoreInv

-----------------------------------------------------------------------------
\* The sets of registries that are counted are finite.
LEMMA FiniteRegistries ==
    ASSUME NEW S \in SUBSET Registries
    PROVE  IsFiniteSet(S) /\ Cardinality(S) \in Nat
<1>1. IsFiniteSet(1 .. N)
  BY OrchestratorAssumption, FS_Interval
<1> QED
  BY <1>1, FS_Subset, FS_CardinalityType

\* The cap is a number.
LEMMA BoundType ==
    ASSUME ScanTypeOK
    PROVE  Bound \in Int
BY FiniteRegistries, OrchestratorAssumption DEF Bound, ScanTypeOK

\* The initial states satisfy the invariant.
LEMMA OInvInit == ScanInit => OInv
<1> SUFFICES ASSUME ScanInit PROVE OInv
  OBVIOUS
<1>1. ScanTypeOK
  <2>1. queue \in Seq(Half)
    BY DEF ScanInit
  <2>2. /\ task \in [Registries -> {"waiting", "scanning", "reported"}]
        /\ half \in [Half -> {"none", "queued", "running", "ok", "failed", "dropped"}]
        /\ reports \in [Registries -> {"none", "whole", "error"}]
    BY DEF ScanInit
  <2> QED
    BY <2>1, <2>2 DEF ScanInit, ScanTypeOK
<1>2. TaskInv
  <2> USE DEF TaskInv
  <2> TAKE r \in Registries
  <2>1. task[r] = "waiting" /\ reports[r] = "none"
    BY DEF ScanInit
  <2>2. \A h \in Half : half[h] = "none"
    BY DEF ScanInit
  <2> QED
    BY <2>1, <2>2
<1>3. QueueInv /\ PhaseInv
  BY DEF ScanInit, QueueInv, PhaseInv
<1>4. SemaphoreInv
  <2>1. Admitted = {}
    BY DEF ScanInit, Admitted
  <2>2. Cardinality(enabled) \in Nat
    BY <1>1, FiniteRegistries DEF ScanTypeOK
  <2> QED
    BY <2>1, <2>2, FS_EmptySet, OrchestratorAssumption DEF SemaphoreInv, Bound
<1> QED
  BY <1>1, <1>2, <1>3, <1>4 DEF OInv

-----------------------------------------------------------------------------
\* A registry whose task moves on takes no slot that was not free.
LEMMA SlotsShrink ==
    ASSUME OInv, Admitted' \subseteq Admitted, UNCHANGED enabled
    PROVE  SemaphoreInv'
<1>1. Admitted \in SUBSET Registries
  BY DEF OInv, ScanTypeOK, Admitted
<1>2. Cardinality(Admitted') <= Cardinality(Admitted)
  BY <1>1, FiniteRegistries, FS_Subset
<1>3. /\ Cardinality(Admitted') \in Nat
      /\ Cardinality(Admitted) \in Nat
  BY <1>1, FiniteRegistries
<1>4. Bound' = Bound /\ Bound \in Int
  BY BoundType DEF OInv, Bound
<1> QED
  BY <1>2, <1>3, <1>4 DEF OInv, SemaphoreInv

\* A client that cannot be built.
LEMMA FactoryFailsInv ==
    ASSUME OInv, NEW r \in Registries, FactoryFails(r)
    PROVE  OInv'
<1> USE DEF OInv
<1>1. r \in enabled /\ task[r] = "waiting"
  BY DEF FactoryFails, Admits, Waiting
<1>2. ScanTypeOK'
  BY <1>1 DEF ScanTypeOK, FactoryFails, Report
<1>3. TaskInv'
  BY <1>1 DEF ScanTypeOK, TaskInv, FactoryFails, Report, Whole, Broken
<1>4. QueueInv'
  BY DEF QueueInv, FactoryFails
<1>5. PhaseInv'
  BY DEF PhaseInv, FactoryFails, Admits, Report
<1>6. SemaphoreInv'
  BY <1>1, SlotsShrink DEF ScanTypeOK, FactoryFails, Report, Admitted
<1> QED
  BY <1>2, <1>3, <1>4, <1>5, <1>6

\* A scan that begins takes a free slot and queues two halves.
LEMMA StartScanInv ==
    ASSUME OInv, NEW r \in Registries, StartScan(r)
    PROVE  OInv'
<1> USE DEF OInv
<1> DEFINE a == <<r, "redis">>
           b == <<r, "fs">>
<1>1. r \in enabled /\ task[r] = "waiting" /\ phase = "gather" /\ Free
  BY DEF StartScan, Admits, Waiting
<1>2. /\ a \in Half /\ b \in Half /\ a # b
      /\ half[a] = "none" /\ half[b] = "none"
  BY <1>1 DEF TaskInv
<1>3. /\ half \in [Half -> {"none", "queued", "running", "ok", "failed", "dropped"}]
      /\ half' = [half EXCEPT ![a] = "queued", ![b] = "queued"]
      /\ queue \in Seq(Half)
      /\ queue' = queue \o <<a, b>>
  BY DEF ScanTypeOK, StartScan
<1>4. ScanTypeOK'
  <2>1. <<a, b>> \in Seq(Half)
    BY <1>2
  <2>2. queue' \in Seq(Half)
    BY <1>3, <2>1
  <2>3. half' \in [Half -> {"none", "queued", "running", "ok", "failed", "dropped"}]
    BY <1>3
  <2> QED
    BY <2>2, <2>3 DEF ScanTypeOK, StartScan
<1>5. TaskInv'
  <2> SUFFICES ASSUME NEW q \in Registries
               PROVE  /\ q \notin enabled => task'[q] = "waiting"
                      /\ task'[q] = "waiting" => \A h \in Half : h[1] = q => half'[h] = "none"
                      /\ task'[q] \in {"waiting", "scanning"} <=> reports[q] = "none"
                      /\ reports[q] = "whole" => \A h \in Half : h[1] = q => half'[h] = "ok"
                      /\ reports[q] = "error" =>
                            q \in unbuilt \/ \E h \in Half : h[1] = q /\ half'[h] = "failed"
    BY DEF TaskInv, StartScan, Whole, Broken
  <2>1. CASE q = r
    BY <1>1, <2>1 DEF ScanTypeOK, TaskInv, StartScan
  <2>2. CASE q # r
    <3>1. task'[q] = task[q]
      BY <2>2 DEF ScanTypeOK, StartScan
    <3>2. \A h \in Half : h[1] = q => half'[h] = half[h]
      BY <1>3, <2>2
    <3> QED
      BY <3>1, <3>2 DEF TaskInv, Whole, Broken
  <2> QED
    BY <2>1, <2>2
<1>6. QueueInv'
  <2> HIDE DEF a, b
  <2>1. \A i \in 1 .. Len(queue) : queue[i] \in Half /\ queue[i] # a /\ queue[i] # b
    BY <1>2, <1>3 DEF QueueInv
  <2>2. /\ Len(queue') = Len(queue) + 2
        /\ Len(queue) \in Nat
        /\ \A i \in 1 .. Len(queue) : queue'[i] = queue[i]
        /\ queue'[Len(queue) + 1] = a
        /\ queue'[Len(queue) + 2] = b
    BY <1>3
  <2>3. \A i \in 1 .. Len(queue') :
           i \in 1 .. Len(queue) \/ i = Len(queue) + 1 \/ i = Len(queue) + 2
    BY <2>2
  <2>4. half'[a] = "queued" /\ half'[b] = "queued"
    BY <1>2, <1>3
  <2>5. \A h \in Half : h # a /\ h # b => half'[h] = half[h]
    BY <1>3
  <2>6. \A i \in 1 .. Len(queue') : half'[queue'[i]] = "queued"
    BY <2>1, <2>2, <2>3, <2>4, <2>5 DEF QueueInv
  <2>7. \A i, j \in 1 .. Len(queue') : queue'[i] = queue'[j] => i = j
    BY <1>2, <2>1, <2>2, <2>3 DEF QueueInv
  <2> QED
    BY <2>6, <2>7 DEF QueueInv
<1>7. PhaseInv'
  BY <1>1 DEF PhaseInv, StartScan
<1>8. SemaphoreInv'
  <2>1. Admitted \in SUBSET Registries /\ r \notin Admitted
    BY <1>1 DEF ScanTypeOK, Admitted
  <2>2. Admitted' = Admitted \union {r}
    BY <1>1 DEF ScanTypeOK, StartScan, Admitted
  <2>3. Cardinality(Admitted') = Cardinality(Admitted) + 1
    BY <2>1, <2>2, FiniteRegistries, FS_AddElement
  <2>4. Cardinality(Admitted) < Bound /\ Bound' = Bound
    BY <1>1 DEF Free, StartScan, Bound
  <2>5. Cardinality(Admitted) \in Nat /\ Bound \in Int
    BY <2>1, FiniteRegistries, BoundType
  <2> QED
    BY <2>3, <2>4, <2>5 DEF SemaphoreInv
<1> QED
  BY <1>4, <1>5, <1>6, <1>7, <1>8

\* gather has returned or raised.
LEMMA GatheredInv ==
    ASSUME OInv, NEW r \in Registries, Gathered(r)
    PROVE  OInv'
<1> USE DEF OInv, Gathered, GatherReturns, GatherRaises, Gathers, Report
<1>1. r \in enabled
  BY DEF TaskInv
<1>2. ScanTypeOK'
  BY DEF ScanTypeOK
<1>3. TaskInv'
  <2> SUFFICES ASSUME NEW q \in Registries
               PROVE  /\ q \notin enabled => task'[q] = "waiting"
                      /\ task'[q] = "waiting" => \A h \in Half : h[1] = q => half[h] = "none"
                      /\ task'[q] \in {"waiting", "scanning"} <=> reports'[q] = "none"
                      /\ reports'[q] = "whole" => Whole(q)
                      /\ reports'[q] = "error" => q \in unbuilt \/ Broken(q)
    BY DEF TaskInv, Whole, Broken
  <2>1. CASE q = r
    BY <1>1, <2>1 DEF ScanTypeOK
  <2>2. CASE q # r
    <3>1. task'[q] = task[q] /\ reports'[q] = reports[q] /\ UNCHANGED <<enabled, unbuilt>>
      BY <2>2 DEF ScanTypeOK
    <3> QED
      BY <3>1 DEF TaskInv
  <2> QED
    BY <2>1, <2>2
<1>4. QueueInv' /\ PhaseInv'
  BY DEF QueueInv, PhaseInv
<1>5. SemaphoreInv'
  BY SlotsShrink DEF ScanTypeOK, Admitted
<1> QED
  BY <1>2, <1>3, <1>4, <1>5

\* A thread takes the half that has waited longest: the others stay queued.
LEMMA ThreadTakesInv ==
    ASSUME OInv, ThreadTakes
    PROVE  OInv'
<1> USE DEF OInv, ThreadTakes
<1> DEFINE h == Head(queue)
<1>1. /\ queue \in Seq(Half) /\ queue # <<>>
      /\ h \in Half /\ half[h] = "queued"
      /\ Len(queue) \in Nat /\ 1 <= Len(queue) /\ h = queue[1]
      /\ half' = [half EXCEPT ![h] = "running"]
  BY DEF ScanTypeOK, QueueInv
<1>2. /\ queue' \in Seq(Half)
      /\ Len(queue') = Len(queue) - 1
      /\ \A i \in 1 .. Len(queue') : queue'[i] = queue[i + 1]
  BY <1>1
<1> HIDE DEF h
<1>3. ScanTypeOK'
  BY <1>1, <1>2 DEF ScanTypeOK
<1>4. TaskInv'
  BY <1>1 DEF ScanTypeOK, TaskInv, Whole, Broken
<1>5. QueueInv'
  <2>1. \A i \in 1 .. Len(queue') : i + 1 \in 1 .. Len(queue) /\ queue[i + 1] # h
    BY <1>1, <1>2 DEF QueueInv
  <2>2. \A i \in 1 .. Len(queue') : half'[queue'[i]] = "queued"
    BY <1>1, <1>2, <2>1 DEF QueueInv, ScanTypeOK
  <2>3. \A i, j \in 1 .. Len(queue') : queue'[i] = queue'[j] => i = j
    <3> TAKE i, j \in 1 .. Len(queue')
    <3> HAVE queue'[i] = queue'[j]
    <3>1. queue[i + 1] = queue[j + 1]
      BY <1>2
    <3>2. i + 1 = j + 1
      BY <2>1, <3>1 DEF QueueInv
    <3> QED
      BY <1>1, <1>2, <3>2
  <2> QED
    BY <2>2, <2>3 DEF QueueInv
<1>6. PhaseInv'
  BY DEF PhaseInv
<1>7. SemaphoreInv'
  BY SlotsShrink DEF Admitted
<1> QED
  BY <1>3, <1>4, <1>5, <1>6, <1>7

\* A thread ends, whether its registry has been reported or not.
LEMMA ThreadEndsInv ==
    ASSUME OInv, NEW h \in Half, ThreadEnds(h)
    PROVE  OInv'
<1> USE DEF OInv, ThreadEnds
<1>1. PICK end \in {"ok", "failed"} : half' = [half EXCEPT ![h] = end]
  OBVIOUS
<1>2. half[h] = "running"
  OBVIOUS
<1>3. ScanTypeOK'
  BY <1>1 DEF ScanTypeOK
<1>4. TaskInv'
  BY <1>1, <1>2 DEF ScanTypeOK, TaskInv, Whole, Broken
<1>5. QueueInv'
  <2>1. \A i \in 1 .. Len(queue) : queue[i] \in Half /\ queue[i] # h
    BY <1>2 DEF QueueInv, ScanTypeOK
  <2> QED
    BY <1>1, <2>1 DEF QueueInv, ScanTypeOK
<1>6. PhaseInv'
  BY DEF PhaseInv
<1>7. SemaphoreInv'
  BY SlotsShrink DEF Admitted
<1> QED
  BY <1>3, <1>4, <1>5, <1>6, <1>7

\* The event loop ends: nothing waits any longer.
LEMMA LoopEndsInv ==
    ASSUME OInv, AllReported \/ Interrupt \/ LoopCloses
    PROVE  OInv'
<1> USE DEF OInv
<1>1. CASE AllReported \/ Interrupt
  <2> USE <1>1 DEF AllReported, Interrupt, DropQueue
  <2>1. ScanTypeOK'
    <3>1. half' \in [Half -> {"none", "queued", "running", "ok", "failed", "dropped"}]
      BY DEF ScanTypeOK
    <3>2. queue' \in Seq(Half)
      <4> HIDE DEF Half
      <4>1. queue' = <<>>
        OBVIOUS
      <4> QED
        BY <4>1
    <3> QED
      BY <3>1, <3>2 DEF ScanTypeOK
  <2>2. TaskInv'
    <3>1. \A h \in Half : half[h] # "queued" => half'[h] = half[h]
      BY DEF ScanTypeOK
    <3> QED
      BY <3>1 DEF TaskInv, Whole, Broken
  <2>3. QueueInv' /\ PhaseInv'
    BY DEF QueueInv, PhaseInv
  <2>4. SemaphoreInv'
    BY SlotsShrink DEF Admitted
  <2> QED
    BY <2>1, <2>2, <2>3, <2>4
<1>2. CASE LoopCloses
  <2> USE <1>2 DEF LoopCloses
  <2>1. ScanTypeOK' /\ QueueInv'
    BY DEF ScanTypeOK, QueueInv
  <2>2. TaskInv'
    BY DEF TaskInv, Whole, Broken
  <2>3. PhaseInv' /\ SemaphoreInv'
    BY SlotsShrink DEF PhaseInv, Admitted
  <2> QED
    BY <2>1, <2>2, <2>3
<1> QED
  BY <1>1, <1>2

\* Every step preserves the invariant.
LEMMA OInvNext ==
    ASSUME OInv, [ScanNext]_scanVars
    PROVE  OInv'
<1>1. ASSUME NEW r \in Registries, Begins(r) \/ Gathered(r) PROVE OInv'
  BY <1>1, FactoryFailsInv, StartScanInv, GatheredInv DEF Begins
<1>2. CASE UNCHANGED scanVars
  <2> USE <1>2 DEF scanVars, OInv
  <2>1. ScanTypeOK' /\ QueueInv'
    BY DEF ScanTypeOK, QueueInv
  <2>2. TaskInv'
    BY DEF TaskInv, Whole, Broken
  <2>3. PhaseInv' /\ SemaphoreInv'
    BY SlotsShrink DEF PhaseInv, Admitted
  <2> QED
    BY <2>1, <2>2, <2>3
<1> QED
  BY <1>1, <1>2, ThreadTakesInv, ThreadEndsInv, LoopEndsInv DEF ScanNext

-----------------------------------------------------------------------------
\* The invariant implies that failures stay with their registry.
LEMMA ContainedFromOInv == OInv => FailuresAreContained
BY DEF OInv, ScanTypeOK, TaskInv, PhaseInv, Whole, Broken, FailuresAreContained

\* The invariant implies the cap: a registry that a thread is scanning, and
\* that is no error, still holds its slot.
LEMMA CapFromOInv == OInv => CapUpToFailures
<1> SUFFICES ASSUME OInv PROVE CapUpToFailures
  OBVIOUS
<1> DEFINE S == {r \in Scanned : reports[r] # "error"}
<1>1. S \subseteq Admitted
  BY DEF OInv, ScanTypeOK, TaskInv, Scanned, Admitted, Whole
<1>2. Admitted \in SUBSET Registries
  BY DEF OInv, ScanTypeOK, Admitted
<1>3. /\ Cardinality(S) <= Cardinality(Admitted)
      /\ Cardinality(S) \in Nat /\ Cardinality(Admitted) \in Nat
  BY <1>1, <1>2, FiniteRegistries, FS_Subset
<1>4. Bound \in Int
  BY BoundType DEF OInv
<1> QED
  BY <1>3, <1>4 DEF OInv, SemaphoreInv, CapUpToFailures

\* The orchestrator alone keeps its types, contains failures and holds the
\* cap, for any number of registries, any --parallel and any pool.
THEOREM OrchestratorCorrect ==
    ScanSpec => [](ScanTypeOK /\ FailuresAreContained /\ CapUpToFailures)
<1>1. ScanInit => OInv
  BY OInvInit
<1>2. OInv /\ [ScanNext]_scanVars => OInv'
  BY OInvNext
<1>3. OInv => ScanTypeOK /\ FailuresAreContained /\ CapUpToFailures
  BY ContainedFromOInv, CapFromOInv DEF OInv
<1> QED
  BY <1>1, <1>2, <1>3, PTL DEF ScanSpec

HIDE DEF Registries, Half

-----------------------------------------------------------------------------
(***************************************************************************)
(* The command.                                                            *)
(***************************************************************************)

local == <<args, drift, pc, stdout, current, outcome, exit_code>>

\* Before asyncio.run has returned there are no results to go by.
BeforeInv ==
    pc \in {"parse", "load", "scan"} =>
        /\ stdout = <<>>
        /\ current = 0
        /\ \A r \in Registries : drift[r] = {} /\ outcome[r] = "none"

\* Afterwards every enabled registry has its report.
AfterInv ==
    pc \in {"emit", "clean", "report"} => phase = "over" /\ ~interrupted

\* Which commands come where, and what they have left to do.
StageInv ==
    /\ pc = "emit" => current = 0 /\ \A r \in Registries : outcome[r] = "none"
    /\ pc \in {"clean", "report"} => args.command # "scan"
    /\ pc = "report" => current # 0

\* What the loop of `clean` has done with each registry.
LoopInv ==
    /\ current # 0 => reports[current] = "whole"
    /\ \A r \in enabled :
          /\ outcome[r] = "skipped" => reports[r] = "error"
          /\ outcome[r] \notin {"none", "skipped"} => reports[r] = "whole"

\* A report that carries errors has no issues, and clean_registry returns what
\* the plan and the arguments let it.
DealtInv ==
    \A r \in enabled :
        /\ reports[r] # "whole" => drift[r] = {}
        /\ outcome[r] \in Returned => outcome[r] \in Outcomes(r)

CInv == /\ OInv /\ TypeOK
        /\ BeforeInv /\ AfterInv /\ StageInv /\ LoopInv /\ DealtInv
        /\ EveryWholeScanIsCleaned /\ CronSeesStrictFailures

-----------------------------------------------------------------------------
\* The initial states satisfy the invariant.
LEMMA CInvInit == Init => CInv
<1> SUFFICES ASSUME Init PROVE CInv
  OBVIOUS
<1>1. OInv
  BY OInvInit DEF Init
<1>2. TypeOK
  <2>1. stdout \in Seq(Event)
    BY DEF Init
  <2>2. drift \in [Registries -> SUBSET Kinds]
    BY DEF Init
  <2> QED
    BY <1>1, <2>1, <2>2 DEF Init, TypeOK, OInv, EXIT_OK
<1>3. BeforeInv /\ AfterInv /\ StageInv
  BY DEF Init, BeforeInv, AfterInv, StageInv
<1>4. LoopInv /\ DealtInv
  BY <1>1 DEF Init, LoopInv, DealtInv, Returned, OInv, ScanTypeOK
<1>5. EveryWholeScanIsCleaned /\ CronSeesStrictFailures
  BY DEF Init, EveryWholeScanIsCleaned, CronSeesStrictFailures
<1> QED
  BY <1>1, <1>2, <1>3, <1>4, <1>5 DEF CInv

\* A step of the orchestrator, or of a thread that it has left behind, while
\* the main thread waits or goes on.
LEMMA DuringInv ==
    ASSUME CInv, Scan \/ Straggle
    PROVE  CInv'
<1> USE DEF CInv
<1>1. UNCHANGED local
  BY DEF Scan, Straggle, During, local
<1>2. ScanNext
  BY DEF Scan, Straggle, During, ScanNext
<1>3. OInv'
  BY <1>2, OInvNext
<1>4. UNCHANGED enabled /\ (Straggle => UNCHANGED <<reports, phase, interrupted>>)
  BY <1>2 DEF Straggle, During, ThreadEnds, ScanNext, Begins, Gathered, FactoryFails,
     StartScan, GatherReturns, GatherRaises, Report, ThreadTakes, AllReported,
     Interrupt, LoopCloses
<1>5. TypeOK'
  BY <1>1, <1>3, <1>4 DEF local, TypeOK, OInv
<1>6. pc = "scan" \/ UNCHANGED <<reports, phase, interrupted>>
  BY <1>4 DEF Scan
<1>7. BeforeInv' /\ AfterInv' /\ StageInv'
  BY <1>1, <1>6 DEF local, BeforeInv, AfterInv, StageInv
<1>8. LoopInv'
  BY <1>1, <1>4, <1>6 DEF local, LoopInv, BeforeInv, TypeOK, ScanTypeOK
<1>8a. DealtInv'
  <2>1. CASE pc = "scan"
    BY <1>1, <1>4, <2>1 DEF local, DealtInv, BeforeInv, Returned, OInv, ScanTypeOK
  <2>2. CASE pc # "scan"
    BY <1>1, <1>4, <1>6, <2>2 DEF local, DealtInv, Outcomes, Planned
  <2> QED
    BY <2>1, <2>2
<1>9. pc # "exit" /\ pc' # "exit"
  BY <1>1 DEF local, Scan, Straggle
<1>10. EveryWholeScanIsCleaned' /\ CronSeesStrictFailures'
  BY <1>9 DEF EveryWholeScanIsCleaned, CronSeesStrictFailures
<1> QED
  BY <1>3, <1>5, <1>7, <1>8, <1>8a, <1>10

\* What the steps of the main thread alone have in common.
LEMMA MainStep ==
    ASSUME CInv, UNCHANGED scanVars
    PROVE  /\ OInv'
           /\ ScanTypeOK'
           /\ UNCHANGED <<enabled, reports, phase, interrupted>>
BY OInvNext DEF CInv, OInv, scanVars

\* An end of the command with a code that cron does not take for success.
LEMMA ToolErrorInv ==
    ASSUME CInv, UNCHANGED <<scanVars, args, drift, stdout, current, outcome>>,
           Exit(EXIT_TOOL_ERROR)
    PROVE  CInv'
<1> USE DEF CInv, Exit, EXIT_TOOL_ERROR
<1>1. OInv' /\ ScanTypeOK' /\ UNCHANGED <<enabled, reports, phase, interrupted>>
  BY MainStep
<1>2. TypeOK'
  BY <1>1 DEF TypeOK
<1>3. BeforeInv' /\ AfterInv' /\ StageInv' /\ LoopInv' /\ DealtInv'
  BY <1>1 DEF BeforeInv, AfterInv, StageInv, LoopInv, DealtInv, Outcomes, Planned
<1>4. EveryWholeScanIsCleaned' /\ CronSeesStrictFailures'
  BY DEF EveryWholeScanIsCleaned, CronSeesStrictFailures, CronStatus
<1> QED
  BY <1>1, <1>2, <1>3, <1>4

\* The steps before the scan.
LEMMA ParseInv ==
    ASSUME CInv, UsageError \/ Parse \/ Load
    PROVE  CInv'
<1> USE DEF CInv
<1>1. CASE Load /\ Exit(EXIT_TOOL_ERROR)
  BY <1>1, ToolErrorInv DEF Load
<1>2. CASE UsageError \/ Parse \/ (Load /\ pc' = "scan" /\ UNCHANGED exit_code)
  <2> USE <1>2 DEF UsageError, Parse, Load, Exit, EXIT_OK, EXIT_USAGE
  <2>1. OInv' /\ ScanTypeOK' /\ UNCHANGED <<enabled, reports, phase, interrupted>>
    BY MainStep
  <2>2. TypeOK'
    BY <2>1 DEF TypeOK
  <2>3. BeforeInv' /\ AfterInv' /\ StageInv' /\ LoopInv' /\ DealtInv'
    BY <2>1 DEF BeforeInv, AfterInv, StageInv, LoopInv, DealtInv, Outcomes, Planned
  <2>4. stdout' = <<>> /\ \A r \in Registries : drift'[r] = {} /\ outcome'[r] = "none"
    BY DEF BeforeInv
  <2>5. EveryWholeScanIsCleaned'
    <3>1. Range(stdout') = {}
      BY <2>4 DEF Range
    <3> QED
      BY <3>1 DEF EveryWholeScanIsCleaned
  <2>6. CronSeesStrictFailures'
    BY <2>1, <2>4 DEF CronSeesStrictFailures, Planned, Totals, ScanTypeOK
  <2> QED
    BY <2>1, <2>2, <2>3, <2>5, <2>6
<1> QED
  BY <1>1, <1>2 DEF Load

\* asyncio.run has returned, and every enabled registry has its report.
LEMMA ScanReturnedInv ==
    ASSUME CInv, ScanReturned
    PROVE  CInv'
<1> USE DEF CInv, ScanReturned
<1>1. OInv' /\ ScanTypeOK' /\ UNCHANGED <<enabled, reports, phase, interrupted>>
  BY MainStep
<1>2. TypeOK'
  BY <1>1 DEF TypeOK
<1>3. BeforeInv' /\ AfterInv' /\ StageInv'
  BY <1>1 DEF BeforeInv, AfterInv, StageInv
<1>4. LoopInv' /\ DealtInv'
  BY <1>1 DEF LoopInv, DealtInv, BeforeInv, Returned, OInv, ScanTypeOK
<1>5. EveryWholeScanIsCleaned' /\ CronSeesStrictFailures'
  BY DEF EveryWholeScanIsCleaned, CronSeesStrictFailures
<1> QED
  BY <1>1, <1>2, <1>3, <1>4, <1>5

\* The events that follow the scan.
LEMMA EmitInv ==
    ASSUME CInv, EmitRunSummary \/ \E r \in Registries : EmitScanCompleted(r)
    PROVE  CInv'
<1> USE DEF CInv
<1>1. ASSUME NEW r \in Registries, EmitScanCompleted(r) PROVE CInv'
  <2> USE <1>1 DEF EmitScanCompleted
  <2>1. OInv' /\ ScanTypeOK' /\ UNCHANGED <<enabled, reports, phase, interrupted>>
    BY MainStep
  <2>2. ScanCompleted(r) \in Event
    <3>1. r \in 0 .. N
      BY OrchestratorAssumption DEF Registries
    <3> QED
      BY <3>1 DEF ScanCompleted, Event
  <2>3. TypeOK'
    BY <2>1, <2>2 DEF TypeOK, Write
  <2>4. BeforeInv' /\ AfterInv' /\ StageInv' /\ LoopInv' /\ DealtInv'
    BY <2>1 DEF BeforeInv, AfterInv, StageInv, LoopInv, DealtInv, Outcomes, Planned
  <2>5. EveryWholeScanIsCleaned' /\ CronSeesStrictFailures'
    BY DEF EveryWholeScanIsCleaned, CronSeesStrictFailures
  <2> QED
    BY <2>1, <2>3, <2>4, <2>5
<1>2. CASE EmitRunSummary
  <2> USE <1>2 DEF EmitRunSummary
  <2>1. OInv' /\ ScanTypeOK' /\ UNCHANGED <<enabled, reports, phase, interrupted>>
    BY MainStep
  <2>2. RunSummary \in Event
    BY OrchestratorAssumption DEF RunSummary, Event
  <2>3. ScanExitCode \in 0 .. 4
    BY DEF ScanExitCode, EXIT_OK, EXIT_TOOL_ERROR, EXIT_DRIFT, EXIT_STRICT_REAL_FAILURE
  <2>4. TypeOK'
    <3>1. stdout' \in Seq(Event)
      BY <2>2 DEF TypeOK, Write
    <3> QED
      BY <2>1, <2>3, <3>1 DEF TypeOK, Exit
  <2>5. BeforeInv' /\ AfterInv' /\ StageInv' /\ LoopInv' /\ DealtInv'
    BY <2>1 DEF BeforeInv, AfterInv, StageInv, LoopInv, DealtInv, Outcomes, Planned, Exit
  <2>6. EveryWholeScanIsCleaned'
    BY DEF EveryWholeScanIsCleaned, Exit
  <2>7. CronSeesStrictFailures'
    <3> SUFFICES ASSUME pc' = "exit", args.strict, CronStatus' = 0
                 PROVE  args.command = "scan" /\ "real" \notin Totals'
      BY DEF CronSeesStrictFailures
    <3>1. exit_code' = ScanExitCode
      BY DEF Exit
    <3>2. args.command = "scan"
      BY DEF Exit
    <3>3. Totals' = Totals
      BY <2>1 DEF Totals
    <3>4. "real" \notin Totals
      BY <3>1 DEF ScanExitCode, CronStatus, EXIT_TOOL_ERROR, EXIT_STRICT_REAL_FAILURE
    <3> QED
      BY <3>2, <3>3, <3>4
  <2> QED
    BY <2>1, <2>4, <2>5, <2>6, <2>7
<1> QED
  BY <1>1, <1>2

-----------------------------------------------------------------------------
\* Every report is there when the loop of `clean` runs.
LEMMA ReportsAreThere ==
    ASSUME CInv, pc = "clean", NEW r \in enabled
    PROVE  reports[r] \in {"whole", "error"}
BY DEF CInv, OInv, ScanTypeOK, AfterInv, TaskInv, PhaseInv

\* The loop goes on to a registry.
LEMMA CleanStartsInv ==
    ASSUME CInv, NEW r \in Registries, CleanStarts(r)
    PROVE  CInv'
<1> USE DEF CInv, CleanStarts
<1>1. OInv' /\ ScanTypeOK' /\ UNCHANGED <<enabled, reports, phase, interrupted>>
  BY MainStep
<1>2. r \in enabled /\ reports[r] = "whole"
  BY DEF First, Unreached, Cleanable
<1>3. TypeOK'
  BY <1>1, <1>2 DEF TypeOK
<1>4. BeforeInv' /\ AfterInv' /\ StageInv' /\ LoopInv' /\ DealtInv'
  BY <1>1, <1>2 DEF BeforeInv, AfterInv, StageInv, LoopInv, DealtInv, Outcomes, Planned
<1>5. EveryWholeScanIsCleaned' /\ CronSeesStrictFailures'
  BY DEF EveryWholeScanIsCleaned, CronSeesStrictFailures
<1> QED
  BY <1>1, <1>3, <1>4, <1>5

\* The loop passes over a registry, or its clean has returned or raised.
LEMMA DealsInv ==
    ASSUME CInv, CleanReturns \/ CleanRaises \/ \E r \in Registries : CleanSkips(r)
    PROVE  CInv'
<1> USE DEF CInv
<1>1. PICK r \in enabled, how \in {"skipped", "refused", "exception"} \union Returned :
         /\ pc = "clean" /\ Deals(r, how)
         /\ how = "skipped" => reports[r] = "error"
         /\ how # "skipped" => reports[r] = "whole"
         /\ how \in Returned => how \in Outcomes(r)
         /\ \/ pc' = "report" /\ current # 0 /\ current' = current
            \/ pc' = "clean" /\ current' = 0
         /\ UNCHANGED <<scanVars, args, drift, stdout, exit_code>>
  <2>1. CASE CleanReturns \/ CleanRaises
    <3>1. current \in enabled /\ reports[current] = "whole"
      BY <2>1 DEF CleanReturns, CleanRaises, TypeOK, LoopInv
    <3>2. Outcomes(current) \subseteq Returned
      BY DEF Outcomes, Returned
    <3>3. CASE CleanReturns
      <4> USE <3>3 DEF CleanReturns
      <4>1. PICK how \in Outcomes(current) : Deals(current, how)
        OBVIOUS
      <4>2. how \in Returned /\ how # "skipped"
        BY <3>2, <4>1 DEF Returned
      <4> QED
        BY <3>1, <4>1, <4>2
    <3>4. CASE CleanRaises
      BY <3>1, <3>4 DEF CleanRaises, AfterException, Returned
    <3> QED
      BY <2>1, <3>3, <3>4
  <2>2. ASSUME NEW r \in Registries, CleanSkips(r)
        PROVE  /\ r \in enabled /\ pc = "clean" /\ pc' = "clean" /\ current' = 0
               /\ Deals(r, IF reports[r] = "error" THEN "skipped" ELSE "refused")
               /\ reports[r] \in {"whole", "error"}
               /\ UNCHANGED <<scanVars, args, drift, stdout, exit_code>>
    BY <2>2, ReportsAreThere DEF CleanSkips, First, Unreached
  <2> QED
    BY <2>1, <2>2 DEF Returned
<1>2. OInv' /\ ScanTypeOK' /\ UNCHANGED <<enabled, reports, phase, interrupted>>
  BY <1>1, MainStep
<1>3. TypeOK'
  BY <1>1, <1>2 DEF TypeOK, Deals
<1>4. BeforeInv' /\ AfterInv' /\ StageInv'
  BY <1>1, <1>2 DEF BeforeInv, AfterInv, StageInv
<1>5. \A q \in enabled : outcome'[q] = IF q = r THEN how ELSE outcome[q]
  BY <1>1 DEF Deals, TypeOK, ScanTypeOK
<1>6. LoopInv'
  BY <1>1, <1>2, <1>5 DEF LoopInv
<1>6a. DealtInv'
  <2>1. \A q : Outcomes(q)' = Outcomes(q)
    BY <1>1 DEF Outcomes, Planned
  <2> QED
    BY <1>1, <1>2, <1>5, <2>1 DEF DealtInv
<1>7. EveryWholeScanIsCleaned' /\ CronSeesStrictFailures'
  BY <1>1 DEF EveryWholeScanIsCleaned, CronSeesStrictFailures
<1> QED
  BY <1>2, <1>3, <1>4, <1>6, <1>6a, <1>7

\* The event of a registry whose clean has returned.
LEMMA EmitCleanInv ==
    ASSUME CInv, EmitCleanCompleted
    PROVE  CInv'
<1> USE DEF CInv, EmitCleanCompleted
<1>1. OInv' /\ ScanTypeOK' /\ UNCHANGED <<enabled, reports, phase, interrupted>>
  BY MainStep
<1>2. CleanCompleted(current) \in Event
  <2>1. current \in 0 .. N
    BY OrchestratorAssumption DEF TypeOK, ScanTypeOK, Registries
  <2> QED
    BY <2>1 DEF CleanCompleted, Event
<1>3. stdout' \in Seq(Event)
  BY <1>2 DEF TypeOK, Write
<1>4. TypeOK'
  BY <1>1, <1>3 DEF TypeOK
<1>5. BeforeInv' /\ AfterInv' /\ StageInv' /\ LoopInv' /\ DealtInv'
  BY <1>1 DEF BeforeInv, AfterInv, StageInv, LoopInv, DealtInv, Outcomes, Planned
<1>6. EveryWholeScanIsCleaned' /\ CronSeesStrictFailures'
  BY DEF EveryWholeScanIsCleaned, CronSeesStrictFailures
<1> QED
  BY <1>1, <1>4, <1>5, <1>6

\* The loop has dealt with all registries.
LEMMA LoopEndsCInv ==
    ASSUME CInv, LoopEnds
    PROVE  CInv'
<1> USE DEF CInv, LoopEnds, Exit
<1>1. OInv' /\ ScanTypeOK' /\ UNCHANGED <<enabled, reports, phase, interrupted>>
  BY MainStep
<1>2. CleanExitCode \in 0 .. 4
  BY DEF CleanExitCode, EXIT_OK, EXIT_DRIFT, EXIT_STRICT_CLEAN_FAILED
<1>3. TypeOK'
  BY <1>1, <1>2 DEF TypeOK
<1>4. BeforeInv' /\ AfterInv' /\ StageInv' /\ LoopInv' /\ DealtInv'
  BY <1>1 DEF BeforeInv, AfterInv, StageInv, LoopInv, DealtInv, Outcomes, Planned
<1>5. \A r \in enabled : outcome[r] # "none" /\ reports[r] \in {"whole", "error"}
  BY ReportsAreThere DEF Unreached
<1>6. EveryWholeScanIsCleaned'
  BY <1>1, <1>5 DEF EveryWholeScanIsCleaned, LoopInv
<1>7. CronSeesStrictFailures'
  <2> SUFFICES ASSUME args.strict, CronStatus' = 0, ~args.dry_run,
                      NEW r \in enabled, Planned(r) # {}
               PROVE  outcome[r] \in {"applied"} \union LoggedOnly
    BY <1>1 DEF CronSeesStrictFailures, Planned, StageInv
  <2>1. outcome[r] # "failed"
    BY DEF CronStatus, CleanExitCode, AnyFailed, EXIT_STRICT_CLEAN_FAILED
  <2>2. drift[r] # {} /\ reports[r] = "whole"
    BY DEF Planned, DealtInv
  <2>3. outcome[r] \notin {"none", "skipped"}
    BY <1>5, <2>2 DEF LoopInv
  <2>4. outcome[r] \in Returned => outcome[r] \in {"applied", "failed"}
    BY DEF DealtInv, Outcomes
  <2>5. outcome[r] \in Returned \union {"none", "skipped", "refused", "exception"}
    BY DEF TypeOK, ScanTypeOK
  <2> QED
    BY <2>1, <2>3, <2>4, <2>5 DEF LoggedOnly
<1> QED
  BY <1>1, <1>3, <1>4, <1>6, <1>7

\* The buffer of stdout cannot be flushed at the end.
LEMMA FlushFailsInv ==
    ASSUME CInv, FlushFails
    PROVE  CInv'
<1> USE DEF CInv, FlushFails, Exit, EXIT_FLUSH
<1>1. OInv' /\ ScanTypeOK' /\ UNCHANGED <<enabled, reports, phase, interrupted>>
  BY MainStep
<1>2. stdout' \in Seq(Event)
  BY DEF TypeOK
<1>3. TypeOK'
  BY <1>1, <1>2 DEF TypeOK
<1>4. BeforeInv' /\ AfterInv' /\ StageInv' /\ LoopInv' /\ DealtInv'
  BY <1>1 DEF BeforeInv, AfterInv, StageInv, LoopInv, DealtInv, Outcomes, Planned
<1>5. EveryWholeScanIsCleaned' /\ CronSeesStrictFailures'
  BY DEF EveryWholeScanIsCleaned, CronSeesStrictFailures, CronStatus
<1> QED
  BY <1>1, <1>3, <1>4, <1>5

\* Every step preserves the invariant.
LEMMA CInvNext ==
    ASSUME CInv, [Next]_vars
    PROVE  CInv'
<1>1. CASE ScanRaises \/ ScanInterrupted \/ Abandoned
  BY <1>1, ToolErrorInv DEF ScanRaises, ScanInterrupted, Abandoned, EXIT_ABANDONED
<1>2. CASE UNCHANGED vars
  <2> USE <1>2 DEF vars, CInv
  <2>1. OInv' /\ ScanTypeOK' /\ UNCHANGED <<enabled, reports, phase, interrupted>>
    BY MainStep
  <2>2. TypeOK' /\ BeforeInv' /\ AfterInv' /\ StageInv' /\ LoopInv' /\ DealtInv'
    BY <2>1 DEF TypeOK, BeforeInv, AfterInv, StageInv, LoopInv, DealtInv,
       Outcomes, Planned
  <2>3. EveryWholeScanIsCleaned' /\ CronSeesStrictFailures'
    BY <2>1 DEF EveryWholeScanIsCleaned, CronSeesStrictFailures, CronStatus, Planned,
                Totals
  <2> QED
    BY <2>1, <2>2, <2>3
<1>3. CASE Proceeds
  BY <1>1, <1>3, ParseInv, ScanReturnedInv, EmitInv, CleanStartsInv, DealsInv,
     EmitCleanInv, LoopEndsCInv DEF Proceeds
<1> QED
  BY <1>1, <1>2, <1>3, ParseInv, DuringInv, DealsInv, FlushFailsInv DEF Next

\* The invariant is one.
LEMMA CInvHolds == Spec => []CInv
BY CInvInit, CInvNext, PTL DEF Spec

-----------------------------------------------------------------------------
\* The variables of a command keep their types, those of the orchestrator
\* included.
THEOREM CommandTypeCorrect == Spec => []TypeOK
<1>1. CInv => TypeOK
  BY DEF CInv
<1> QED
  BY <1>1, CInvHolds, PTL

\* A registry's failure becomes its own report and nobody else's.
THEOREM FailuresStayContained == Spec => []FailuresAreContained
<1>1. CInv => FailuresAreContained
  BY ContainedFromOInv DEF CInv
<1> QED
  BY <1>1, CInvHolds, PTL

\* No more registries are scanned at once than --parallel says, those not
\* counted that have been turned into an error.
THEOREM CapHolds == Spec => []CapUpToFailures
<1>1. CInv => CapUpToFailures
  BY CapFromOInv DEF CInv
<1> QED
  BY <1>1, CInvHolds, PTL

\* While a registry is cleaned no thread scans that registry: its report is
\* whole, and a whole report has waited for both halves.  The halves left
\* behind by registries that have failed may still run.
THEOREM CleanAfterScan == Spec => []CleanNeverOverlapsScan
<1>1. CInv => CleanNeverOverlapsScan
  <2> SUFFICES ASSUME CInv, current # 0
               PROVE  \A h \in Half : h[1] = current => half[h] # "running"
    BY DEF CleanNeverOverlapsScan
  <2>1. current \in Registries /\ reports[current] = "whole"
    BY DEF CInv, TypeOK, ScanTypeOK, LoopInv
  <2>2. Whole(current)
    BY <2>1 DEF CInv, OInv, TaskInv
  <2> QED
    BY <2>2 DEF Whole
<1> QED
  BY <1>1, CInvHolds, PTL

\* `clean` tries every registry that was scanned whole, and no other, whatever
\* fails on the way.
THEOREM NoneIsForgotten == Spec => []EveryWholeScanIsCleaned
<1>1. CInv => EveryWholeScanIsCleaned
  BY DEF CInv
<1> QED
  BY <1>1, CInvHolds, PTL

\* Under --strict the status 0 after rcd-cron-exec says that `scan` has found no
\* real failure, and that `clean --apply` has applied what it had planned for
\* each registry that it has scanned, those apart whose client could not be
\* built or whose clean has raised: the code logs them and counts nothing.
THEOREM StrictFailuresReachCron == Spec => []CronSeesStrictFailures
<1>1. CInv => CronSeesStrictFailures
  BY DEF CInv
<1> QED
  BY <1>1, CInvHolds, PTL

-----------------------------------------------------------------------------
(***************************************************************************)
(* The output.  OutputInv joins CInv: at every moment stdout holds, in     *)
(* order, what the loops have come past.                                   *)
(***************************************************************************)

\* The registries whose clean has returned and been reported.
Reported == {r \in enabled : outcome[r] \in Returned /\ ~(pc = "report" /\ r = current)}

\* The loop over the reports has come past an initial part of them.
EmitOrder ==
    pc = "emit" =>
        /\ Range(stdout) \subseteq {ScanCompleted(r) : r \in enabled}
        /\ \A p, q \in enabled :
              p < q /\ ScanCompleted(q) \in Range(stdout) =>
                  ScanCompleted(p) \in Range(stdout)

\* So has the loop of `clean`; the registry in hand is the next one.
CleanOrder ==
    /\ \A p, q \in enabled : p < q /\ outcome[q] # "none" => outcome[p] # "none"
    /\ pc = "clean" /\ current # 0 => First(current, Unreached)
    /\ pc = "report" => /\ outcome[current] \in Returned
                        /\ \A q \in enabled : outcome[q] # "none" => q <= current

OutputInv ==
    /\ pc \in {"parse", "load"} => phase = "gather"
    /\ InOrder(stdout)
    /\ EmitOrder
    /\ CleanOrder
    /\ pc \in {"clean", "report"} => Range(stdout) = EventsFor(Reported)
    /\ OutputIsComplete

\* An event that comes after all others may be appended.
LEMMA AppendInOrder ==
    ASSUME NEW s \in Seq(Event), NEW e \in Event, InOrder(s),
           \A f \in Range(s) : Precedes(f, e)
    PROVE  /\ Range(Append(s, e)) = Range(s) \union {e}
           /\ InOrder(Append(s, e))
<1>1. /\ Len(s) \in Nat /\ Len(Append(s, e)) = Len(s) + 1
      /\ \A i \in 1 .. Len(s) : Append(s, e)[i] = s[i]
      /\ Append(s, e)[Len(s) + 1] = e
      /\ DOMAIN s = 1 .. Len(s)
      /\ DOMAIN Append(s, e) = 1 .. Len(s) + 1
  OBVIOUS
<1>2. Range(Append(s, e)) = Range(s) \union {e}
  BY <1>1 DEF Range
<1>3. ASSUME NEW i \in 1 .. Len(s) + 1, NEW j \in 1 .. Len(s) + 1, i < j
      PROVE  Precedes(Append(s, e)[i], Append(s, e)[j])
  <2>1. i \in 1 .. Len(s) /\ Append(s, e)[i] = s[i] /\ s[i] \in Range(s)
    BY <1>1, <1>3 DEF Range
  <2>2. CASE j = Len(s) + 1
    BY <1>1, <2>1, <2>2
  <2>3. CASE j \in 1 .. Len(s)
    BY <1>1, <1>3, <2>1, <2>3 DEF InOrder
  <2> QED BY <1>1, <2>2, <2>3
<1> QED BY <1>1, <1>2, <1>3 DEF InOrder

\* The output's order by event.
LEMMA EventOrder ==
    ASSUME NEW p \in Registries, NEW q \in Registries
    PROVE  /\ p < q => Precedes(ScanCompleted(p), ScanCompleted(q))
           /\ Precedes(ScanCompleted(p), RunSummary)
           /\ Precedes(ScanCompleted(p), CleanCompleted(q))
           /\ Precedes(RunSummary, CleanCompleted(q))
           /\ p < q => Precedes(CleanCompleted(p), CleanCompleted(q))
BY DEF Precedes, Stage, ScanCompleted, RunSummary, CleanCompleted

\* An event that says of which registry it is.
LEMMA EventOfRegistry ==
    \A p, q : ScanCompleted(p) = ScanCompleted(q) => p = q
BY DEF ScanCompleted

LEMMA OutputInit == Init => OutputInv
<1> SUFFICES ASSUME Init PROVE OutputInv
  OBVIOUS
<1>1. enabled \subseteq Registries /\ phase = "gather" /\ pc = "parse" /\ stdout = <<>>
  BY DEF Init, ScanInit
<1>2. \A r \in enabled : outcome[r] = "none"
  BY <1>1 DEF Init
<1> QED BY <1>1, <1>2 DEF OutputInv, InOrder, EmitOrder, CleanOrder, OutputIsComplete

\* Steps that neither write nor deal with a registry, and do not end well.
LEMMA OutputStays ==
    ASSUME OutputInv, UNCHANGED <<enabled, stdout, outcome>>,
           pc' \in {"parse", "load"} => pc \in {"parse", "load"} /\ phase' = phase,
           pc' = "emit" => pc = "emit",
           pc' \in {"clean", "report"} => pc' = pc /\ current' = current,
           pc' = "exit" => exit_code' = EXIT_TOOL_ERROR \/ phase' # "over"
    PROVE  OutputInv'
<1>1. InOrder(stdout)'
  BY DEF OutputInv
<1>2. EmitOrder'
  BY DEF OutputInv, EmitOrder
<1>3. CleanOrder'
  BY DEF OutputInv, CleanOrder, First, Unreached
<1>4. (pc \in {"clean", "report"} => Range(stdout) = EventsFor(Reported))'
  BY DEF OutputInv, EventsFor, Reported
<1>5. OutputIsComplete'
  BY DEF OutputIsComplete
<1> QED BY <1>1, <1>2, <1>3, <1>4, <1>5 DEF OutputInv

\* Registries are counted from 1.
LEMMA EnabledAreNumbers ==
    ASSUME CInv
    PROVE  \A r \in enabled : r \in Registries /\ r \in Nat /\ r # 0
BY OrchestratorAssumption DEF CInv, TypeOK, ScanTypeOK, Registries

\* The command line, the configuration, the scan, and what goes on beside the
\* main thread.
LEMMA QuietSteps ==
    ASSUME CInv, OutputInv,
           \/ Parse \/ UsageError \/ Load \/ Scan \/ Straggle
           \/ ScanRaises \/ ScanInterrupted \/ Abandoned
    PROVE  OutputInv'
<1>1. CASE Parse \/ UsageError \/ Load
  <2>1. UNCHANGED <<enabled, phase, stdout, outcome>> /\ pc \in {"parse", "load"}
    BY <1>1 DEF Parse, UsageError, Load, scanVars
  <2>2. pc' \in {"load", "scan", "exit"}
    BY <1>1 DEF Parse, UsageError, Load, Exit
  <2>3. phase' # "over"
    BY <2>1 DEF OutputInv
  <2> QED BY <2>1, <2>2, <2>3, OutputStays
<1>2. CASE Scan \/ Straggle
  <2>1. UNCHANGED <<pc, stdout, current, outcome>> /\ pc \in {"scan", "emit", "clean", "report"}
    BY <1>2 DEF Scan, Straggle, During
  <2>2. UNCHANGED enabled
    BY <1>2 DEF Scan, Straggle, During, ThreadEnds, ScanNext, Begins, Gathered,
       FactoryFails, StartScan, GatherReturns, GatherRaises, Report, ThreadTakes,
       AllReported, Interrupt, LoopCloses
  <2> QED BY <2>1, <2>2, OutputStays
<1>3. CASE ScanRaises \/ ScanInterrupted \/ Abandoned
  <2>1. /\ UNCHANGED <<enabled, stdout, outcome>>
        /\ pc' = "exit" /\ exit_code' = EXIT_TOOL_ERROR
    BY <1>3 DEF ScanRaises, ScanInterrupted, Abandoned, Exit, EXIT_ABANDONED, scanVars
  <2> QED BY <2>1, OutputStays
<1> QED BY <1>1, <1>2, <1>3

\* Nothing has been written when the scan returns.
LEMMA ScanReturnedOutput ==
    ASSUME CInv, OutputInv, ScanReturned
    PROVE  OutputInv'
<1> USE DEF ScanReturned
<1>1. pc' = "emit" /\ stdout' = <<>> /\ UNCHANGED <<enabled, outcome>>
  BY DEF CInv, BeforeInv, scanVars
<1>2. Range(stdout') = {}
  BY <1>1 DEF Range
<1>3. InOrder(stdout)' /\ EmitOrder'
  BY <1>1, <1>2 DEF InOrder, EmitOrder
<1>4. CleanOrder'
  BY <1>1 DEF OutputInv, CleanOrder
<1> QED BY <1>1, <1>3, <1>4 DEF OutputInv, OutputIsComplete

\* The next report comes after those that have been written.
LEMMA EmitOutput ==
    ASSUME CInv, OutputInv, NEW r \in Registries, EmitScanCompleted(r)
    PROVE  OutputInv'
<1> USE DEF EmitScanCompleted
<1> DEFINE announced == {q \in enabled : ScanCompleted(q) \in Range(stdout)}
<1>1. /\ pc = "emit" /\ pc' = "emit" /\ UNCHANGED <<enabled, outcome, current>>
      /\ r \in enabled /\ r \notin announced
      /\ \A q \in enabled \ announced : r <= q
  BY DEF First, scanVars
<1>2. \A q \in announced : q < r
  BY <1>1, EnabledAreNumbers DEF OutputInv, EmitOrder
<1>3. \A f \in Range(stdout) : Precedes(f, ScanCompleted(r))
  BY <1>1, <1>2, EventOrder, EnabledAreNumbers DEF OutputInv, EmitOrder
<1>4. stdout \in Seq(Event) /\ ScanCompleted(r) \in Event
  <2>1. r \in 0 .. N
    BY OrchestratorAssumption DEF Registries
  <2> QED BY <2>1 DEF CInv, TypeOK, ScanCompleted, Event
<1>5. Range(stdout') = Range(stdout) \union {ScanCompleted(r)} /\ InOrder(stdout)'
  BY <1>3, <1>4, AppendInOrder DEF OutputInv, Write
<1>6. EmitOrder'
  <2>1. Range(stdout') \subseteq {ScanCompleted(q) : q \in enabled}
    BY <1>1, <1>5 DEF OutputInv, EmitOrder
  <2>2. ASSUME NEW p \in enabled, NEW q \in enabled, p < q,
               ScanCompleted(q) \in Range(stdout')
        PROVE  ScanCompleted(p) \in Range(stdout')
    <3>1. CASE q = r
      BY <1>1, <1>5, <2>2, <3>1, EnabledAreNumbers
    <3>2. CASE q # r
      BY <1>1, <1>5, <2>2, <3>2, EventOfRegistry DEF OutputInv, EmitOrder
    <3> QED BY <3>1, <3>2
  <2> QED BY <1>1, <2>1, <2>2 DEF EmitOrder
<1>7. CleanOrder'
  BY <1>1 DEF OutputInv, CleanOrder
<1> QED BY <1>1, <1>5, <1>6, <1>7 DEF OutputInv, OutputIsComplete

\* The summary comes after all reports; `scan` ends with it.
LEMMA SummaryOutput ==
    ASSUME CInv, OutputInv, EmitRunSummary
    PROVE  OutputInv'
<1> USE DEF EmitRunSummary
<1>1. /\ pc = "emit" /\ pc' \in {"clean", "exit"} /\ current' = 0
      /\ UNCHANGED <<enabled, outcome>>
  BY DEF CInv, StageInv, scanVars, Exit
<1>2. \A r \in enabled : outcome[r] = "none"
  BY <1>1, EnabledAreNumbers DEF CInv, StageInv
<1>3. Range(stdout) = {ScanCompleted(r) : r \in enabled}
  BY DEF OutputInv, EmitOrder
<1>4. \A f \in Range(stdout) : Precedes(f, RunSummary)
  BY <1>3, EventOrder, EnabledAreNumbers
<1>5. stdout \in Seq(Event) /\ RunSummary \in Event
  BY OrchestratorAssumption DEF CInv, TypeOK, RunSummary, Event
<1>6. Range(stdout') = Range(stdout) \union {RunSummary} /\ InOrder(stdout)'
  BY <1>4, <1>5, AppendInOrder DEF OutputInv, Write
<1>7. {r \in enabled : outcome[r] \in Returned} = {} /\ Reported' = {}
  BY <1>1, <1>2 DEF Returned, Reported
<1>8. (Range(stdout) = EventsFor({}))'
  BY <1>1, <1>3, <1>6 DEF EventsFor
<1>9. CleanOrder'
  BY <1>1, <1>2 DEF CleanOrder
<1>10. (Range(stdout) = EventsFor(Reported))'
  BY <1>7, <1>8
<1>11. OutputIsComplete'
  BY <1>1, <1>6, <1>7, <1>8 DEF OutputIsComplete
<1> QED BY <1>1, <1>6, <1>9, <1>10, <1>11 DEF OutputInv, EmitOrder

\* The loop goes on to the next registry, or passes over it.
LEMMA LoopOutput ==
    ASSUME CInv, OutputInv,
           CleanRaises \/ \E r \in Registries : CleanStarts(r) \/ CleanSkips(r)
    PROVE  OutputInv'
<1>1. pc = "clean" /\ pc' = "clean" /\ UNCHANGED <<enabled, stdout>>
  BY DEF CleanRaises, CleanStarts, CleanSkips, AfterException, scanVars
<1>2. ASSUME NEW r \in Registries, CleanStarts(r) PROVE CleanOrder'
  BY <1>1, <1>2 DEF OutputInv, CleanOrder, CleanStarts, First, Unreached
<1>3. ASSUME CleanRaises \/ \E r \in Registries : CleanSkips(r)
      PROVE  \E r \in enabled, how \in {"skipped", "refused", "exception"} :
                Deals(r, how) /\ First(r, Unreached) /\ current' = 0
  BY <1>3 DEF OutputInv, CleanOrder, CleanRaises, CleanSkips, First, Unreached
<1>4. ASSUME NEW r \in enabled, NEW how \in {"skipped", "refused", "exception"},
             Deals(r, how), First(r, Unreached), current' = 0
      PROVE  CleanOrder' /\ Reported' = Reported
  <2>1. outcome[r] = "none"
    BY <1>4 DEF First, Unreached
  <2>2. \A q \in enabled : outcome'[q] = IF q = r THEN how ELSE outcome[q]
    BY <1>4, EnabledAreNumbers DEF Deals, CInv, TypeOK
  <2>3. Reported' = Reported
    BY <1>1, <2>1, <2>2 DEF Reported, Returned
  <2>4. \A p \in enabled : p < r => outcome[p] # "none"
    BY <1>4, EnabledAreNumbers DEF First, Unreached
  <2>5. CleanOrder'
    BY <1>1, <1>4, <2>2, <2>4 DEF OutputInv, CleanOrder
  <2> QED BY <2>3, <2>5
<1>5. CleanOrder' /\ Reported' = Reported
  <2>1. CASE \E r \in Registries : CleanStarts(r)
    BY <1>1, <1>2, <2>1 DEF Reported, CleanStarts
  <2> QED BY <1>3, <1>4, <2>1
<1> QED BY <1>1, <1>5 DEF OutputInv, EmitOrder, OutputIsComplete, EventsFor

\* A clean returns, and its event is still to come.
LEMMA ReturnsOutput ==
    ASSUME CInv, OutputInv, CleanReturns
    PROVE  OutputInv'
<1> USE DEF CleanReturns
<1>1. /\ pc = "clean" /\ pc' = "report" /\ current' = current
      /\ UNCHANGED <<enabled, stdout>> /\ current \in enabled
  BY DEF CInv, TypeOK, scanVars
<1>2. PICK how \in Returned : Deals(current, how)
  BY DEF Outcomes, Returned
<1>3. \A q \in enabled : outcome'[q] = IF q = current THEN how ELSE outcome[q]
  BY <1>2, EnabledAreNumbers DEF Deals, CInv, TypeOK
<1>4. /\ outcome[current] = "none"
      /\ \A p \in enabled : p < current => outcome[p] # "none"
      /\ \A q \in enabled : outcome[q] # "none" => q <= current
  BY <1>1, EnabledAreNumbers DEF OutputInv, CleanOrder, First, Unreached
<1>5. Reported' = Reported
  BY <1>1, <1>3, <1>4 DEF Reported, Returned
<1>6. CleanOrder'
  BY <1>1, <1>2, <1>3, <1>4, EnabledAreNumbers DEF OutputInv, CleanOrder, Returned
<1> QED BY <1>1, <1>5, <1>6 DEF OutputInv, EmitOrder, OutputIsComplete, EventsFor

\* The event of the registry in hand comes after those of the others.
LEMMA EmitCleanOutput ==
    ASSUME CInv, OutputInv, EmitCleanCompleted
    PROVE  OutputInv'
<1> USE DEF EmitCleanCompleted
<1>1. /\ pc = "report" /\ pc' = "clean" /\ current' = 0
      /\ UNCHANGED <<enabled, outcome>> /\ current \in enabled
  BY DEF CInv, TypeOK, StageInv, scanVars
<1>2. Reported' = Reported \union {current} /\ current \notin Reported
  BY <1>1 DEF OutputInv, CleanOrder, Reported
<1>3. Range(stdout) = EventsFor(Reported)
  BY <1>1 DEF OutputInv
<1>4. \A q \in Reported : q \in Registries /\ q < current
  BY <1>1, <1>2, EnabledAreNumbers DEF OutputInv, CleanOrder, Reported, Returned
<1>5. \A f \in Range(stdout) : Precedes(f, CleanCompleted(current))
  <2>1. \A q \in enabled : Precedes(ScanCompleted(q), CleanCompleted(current))
    BY <1>1, EventOrder, EnabledAreNumbers
  <2>2. Precedes(RunSummary, CleanCompleted(current))
    BY <1>1, EventOrder, EnabledAreNumbers
  <2>3. \A q \in Reported : Precedes(CleanCompleted(q), CleanCompleted(current))
    BY <1>1, <1>4, EventOrder, EnabledAreNumbers
  <2> QED BY <1>3, <2>1, <2>2, <2>3 DEF EventsFor
<1>6. stdout \in Seq(Event) /\ CleanCompleted(current) \in Event
  <2>1. current \in 0 .. N
    BY <1>1, EnabledAreNumbers, OrchestratorAssumption DEF Registries
  <2> QED BY <2>1 DEF CInv, TypeOK, CleanCompleted, Event
<1>7. Range(stdout') = Range(stdout) \union {CleanCompleted(current)} /\ InOrder(stdout)'
  BY <1>5, <1>6, AppendInOrder DEF OutputInv, Write
<1>8. (Range(stdout) = EventsFor(Reported))'
  BY <1>1, <1>2, <1>3, <1>7 DEF EventsFor
<1>9. CleanOrder'
  BY <1>1 DEF OutputInv, CleanOrder
<1> QED BY <1>1, <1>7, <1>8, <1>9 DEF OutputInv, EmitOrder, OutputIsComplete

\* Between two registries no event is due, so none is when the loop ends.
LEMMA LoopEndsOutput ==
    ASSUME CInv, OutputInv, LoopEnds
    PROVE  OutputInv'
<1> USE DEF LoopEnds, Exit
<1>1. pc = "clean" /\ pc' = "exit" /\ UNCHANGED <<enabled, stdout, outcome>>
  BY DEF scanVars
<1>2. Reported = {r \in enabled : outcome[r] \in Returned}
  BY <1>1 DEF Reported
<1>3. Range(stdout) = EventsFor({r \in enabled : outcome[r] \in Returned})
  BY <1>1, <1>2 DEF OutputInv
<1>4. OutputIsComplete'
  BY <1>1, <1>3 DEF OutputInv, OutputIsComplete, EventsFor
<1>5. CleanOrder'
  BY <1>1 DEF OutputInv, CleanOrder
<1> QED BY <1>1, <1>4, <1>5 DEF OutputInv, EmitOrder

\* What has gone out before the flush fails is an initial part.
LEMMA FlushFailsOutput ==
    ASSUME CInv, OutputInv, FlushFails
    PROVE  OutputInv'
<1> USE DEF FlushFails, Exit
<1>1. PICK n \in 0 .. Len(stdout) - 1 : stdout' = SubSeq(stdout, 1, n)
  OBVIOUS
<1>2. stdout \in Seq(Event)
  BY DEF CInv, TypeOK
<1>3. Len(stdout') = n /\ \A i \in 1 .. n : stdout'[i] = stdout[i] /\ i \in 1 .. Len(stdout)
  BY <1>1, <1>2
<1>4. InOrder(stdout)'
  BY <1>3 DEF OutputInv, InOrder
<1>5. CleanOrder'
  BY DEF OutputInv, CleanOrder, scanVars
<1>6. OutputIsComplete'
  BY DEF OutputIsComplete
<1> QED BY <1>4, <1>5, <1>6 DEF OutputInv, EmitOrder

\* Every step preserves the invariant of the output.
LEMMA OutputNext ==
    ASSUME CInv, OutputInv, [Next]_vars
    PROVE  OutputInv'
<1>1. CASE UNCHANGED vars
  <2> USE <1>1 DEF vars, scanVars
  <2>1. InOrder(stdout)' /\ EmitOrder' /\ CleanOrder'
    BY DEF OutputInv, EmitOrder, CleanOrder, First, Unreached
  <2>2. (pc \in {"clean", "report"} => Range(stdout) = EventsFor(Reported))'
    BY DEF OutputInv, EventsFor, Reported
  <2>3. OutputIsComplete'
    BY DEF OutputInv, OutputIsComplete, EventsFor
  <2> QED BY <2>1, <2>2, <2>3 DEF OutputInv
<1>2. CASE Proceeds
  BY <1>2, QuietSteps, ScanReturnedOutput, EmitOutput, SummaryOutput, LoopOutput,
     ReturnsOutput, EmitCleanOutput, LoopEndsOutput DEF Proceeds
<1> QED BY <1>1, <1>2, QuietSteps, LoopOutput, FlushFailsOutput DEF Next

\* An exit code other than 1 and 120 vouches for the output: stdout has an event for
\* every report, the summary, and an event for every clean that has returned,
\* in this order, whatever was skipped, refused or raised on the way.
THEOREM ExitCodeVouchesForOutput == Spec => []OutputIsComplete
<1>1. Init => CInv /\ OutputInv
  BY CInvInit, OutputInit
<1>2. CInv /\ OutputInv /\ [Next]_vars => (CInv /\ OutputInv)'
  BY CInvNext, OutputNext
<1>3. CInv /\ OutputInv => OutputIsComplete
  BY DEF OutputInv
<1> QED BY <1>1, <1>2, <1>3, PTL DEF Spec
=============================================================================
