---------------------------- MODULE Orchestrator ----------------------------
(***************************************************************************)
(* rcd.orchestrator under asyncio.run: scan_registries starts one task for *)
(* each enabled registry; a semaphore admits them in the order of the      *)
(* configuration; a task puts the two halves of its scan in the thread     *)
(* pool of the event loop and gathers them.  gather raises at the first    *)
(* half that fails and leaves the other one to itself.  The end of the     *)
(* event loop drops the halves that no thread has taken, and waits for the *)
(* threads, though not forever.                                            *)
(* Definitions marked "Slip" are mistakes that the properties must see.    *)
(***************************************************************************)
EXTENDS Integers, Sequences, FiniteSets

CONSTANTS N,         \* registries in the configuration
          Parallel,  \* --parallel or [scan].parallel; zero and less is "auto"
          Workers    \* threads in the pool

ASSUME OrchestratorAssumption ==
    /\ N \in Nat \ {0}
    /\ Parallel \in Int
    /\ Workers \in Nat \ {0}

VARIABLES
    enabled,       \* registries that the configuration enables
    task,          \* progress of each registry's task
    half,          \* progress of each half of each scan
    queue,         \* halves that wait for a thread
    reports,       \* the report of each registry
    unbuilt,       \* history: registries whose client could not be built
    phase,         \* "gather", "close" (the end of asyncio.run) or "over"
    interrupted    \* a KeyboardInterrupt ended the run

scanVars == <<enabled, task, half, queue, reports, unbuilt, phase, interrupted>>

Registries == 1 .. N
Half       == Registries \X {"redis", "fs"}

Bound == IF Parallel > 0 THEN Parallel ELSE Cardinality(enabled)

\* Slip: disabled registries are scanned, too.
WaitingAny == {r \in Registries : task[r] = "waiting"}

Waiting == {r \in enabled : task[r] = "waiting"}
Admitted == {r \in enabled : task[r] = "scanning"}
Running  == {h \in Half : half[h] = "running"}

\* Slip: the semaphore is never taken.
FreeAlways == TRUE

\* A slot of the semaphore is free.
Free == Cardinality(Admitted) < Bound

\* Slip: the walk of the storage tree is not waited for.
WholeRedis(r) == half[<<r, "redis">>] = "ok"

\* gather has both halves.
Whole(r) == \A h \in Half : h[1] = r => half[h] = "ok"

\* Slip: the error is raised when both halves are over.
BrokenLate(r) == \A h \in Half : h[1] = r => half[h] = "failed"

\* gather raises at the first half that fails, whatever the other one does.
Broken(r) == \E h \in Half : h[1] = r /\ half[h] = "failed"

ScanTypeOK ==
    /\ enabled \subseteq Registries
    /\ task \in [Registries -> {"waiting", "scanning", "reported"}]
    /\ half \in [Half -> {"none", "queued", "running", "ok", "failed", "dropped"}]
    /\ queue \in Seq(Half)
    /\ reports \in [Registries -> {"none", "whole", "error"}]
    /\ unbuilt \subseteq enabled
    /\ phase \in {"gather", "close", "over"}
    /\ interrupted \in BOOLEAN

ScanInit ==
    /\ enabled \in SUBSET Registries
    /\ task = [r \in Registries |-> "waiting"]
    /\ half = [h \in Half |-> "none"]
    /\ queue = <<>>
    /\ reports = [r \in Registries |-> "none"]
    /\ unbuilt = {}
    /\ phase = "gather"
    /\ interrupted = FALSE

-----------------------------------------------------------------------------
\* scan_one_registry, under the semaphore of _one

\* The semaphore admits the next registry.
Admits(r) ==
    /\ phase = "gather"
    /\ r \in Waiting
    /\ \A other \in Waiting : r <= other
    /\ Free

Report(r, what) ==
    /\ task' = [task EXCEPT ![r] = "reported"]
    /\ reports' = [reports EXCEPT ![r] = what]
    /\ UNCHANGED <<enabled, phase, interrupted>>

FactoryFails(r) ==
    /\ Admits(r)
    /\ unbuilt' = unbuilt \union {r}
    /\ Report(r, "error")
    /\ UNCHANGED <<half, queue>>

StartScan(r) ==
    /\ Admits(r)
    /\ task' = [task EXCEPT ![r] = "scanning"]
    /\ half' = [half EXCEPT ![<<r, "redis">>] = "queued", ![<<r, "fs">>] = "queued"]
    /\ queue' = queue \o <<<<r, "redis">>, <<r, "fs">>>>
    /\ UNCHANGED <<enabled, reports, unbuilt, phase, interrupted>>

Begins(r) == FactoryFails(r) \/ StartScan(r)

Gathers(r) == phase = "gather" /\ task[r] = "scanning"

\* Both halves are there: classify, and report.
GatherReturns(r) ==
    /\ Gathers(r) /\ Whole(r)
    /\ Report(r, "whole")
    /\ UNCHANGED <<half, queue, unbuilt>>

GatherRaises(r) ==
    /\ Gathers(r) /\ Broken(r)
    /\ Report(r, "error")
    /\ UNCHANGED <<half, queue, unbuilt>>

Gathered(r) == GatherReturns(r) \/ GatherRaises(r)

-----------------------------------------------------------------------------
\* The thread pool

ThreadTakes ==
    /\ queue # <<>>
    /\ Cardinality(Running) < Workers
    /\ half' = [half EXCEPT ![Head(queue)] = "running"]
    /\ queue' = Tail(queue)
    /\ UNCHANGED <<enabled, task, reports, unbuilt, phase, interrupted>>

ThreadEnds(h) ==
    /\ half[h] = "running"
    /\ \E end \in {"ok", "failed"} : half' = [half EXCEPT ![h] = end]
    /\ UNCHANGED <<enabled, task, queue, reports, unbuilt, phase, interrupted>>

-----------------------------------------------------------------------------
\* The end of asyncio.run

DropQueue ==
    /\ half' = [h \in Half |-> IF half[h] = "queued" THEN "dropped" ELSE half[h]]
    /\ queue' = <<>>

\* scan_registries returns: at once when no registry is enabled.
AllReported ==
    /\ phase = "gather"
    /\ \A r \in enabled : task[r] = "reported"
    /\ phase' = "close"
    /\ DropQueue
    /\ UNCHANGED <<enabled, task, reports, unbuilt, interrupted>>

Interrupt ==
    /\ phase = "gather"
    /\ interrupted' = TRUE
    /\ phase' = "close"
    /\ DropQueue
    /\ UNCHANGED <<enabled, task, reports, unbuilt>>

\* shutdown_default_executor: the threads are joined, or have not ended in
\* five minutes and are left running.
LoopCloses ==
    /\ phase = "close"
    /\ phase' = "over"
    /\ UNCHANGED <<enabled, task, half, queue, reports, unbuilt, interrupted>>

-----------------------------------------------------------------------------
ScanNext ==
    \/ \E r \in Registries : Begins(r) \/ Gathered(r)
    \/ ThreadTakes
    \/ \E h \in Half : ThreadEnds(h)
    \/ AllReported
    \/ Interrupt
    \/ LoopCloses

ScanSpec == ScanInit /\ [][ScanNext]_scanVars

-----------------------------------------------------------------------------
\* A registry's failure stays its own: when the run returns, every enabled
\* registry has one report, and it is an error exactly when its own client or
\* one of its own halves failed.
FailuresAreContained ==
    (phase # "gather" /\ ~interrupted) =>
        \A r \in enabled :
            /\ reports[r] # "none"
            /\ reports[r] = "error" => r \in unbuilt \/ \E h \in Half :
                                           h[1] = r /\ half[h] = "failed"
            /\ reports[r] = "whole" => \A h \in Half : h[1] = r => half[h] = "ok"

\* The registries that a thread is scanning.
Scanned == {r \in enabled : \E h \in Half : h[1] = r /\ half[h] = "running"}

\* They are no more than the cap, those not counted that a failed half has
\* already turned into an error.
CapUpToFailures ==
    Cardinality({r \in Scanned : reports[r] # "error"}) <= Bound

\* orchestrator.py: "fan out across many registries in parallel, bounded by
\* ``parallel``".
Capped == Cardinality(Scanned) <= Bound
=============================================================================
