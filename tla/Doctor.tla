------------------------------- MODULE Doctor -------------------------------
(***************************************************************************)
(* `rcd clean --apply` on one registry, run after run, as the cron         *)
(* container does: scan, classify, clean, and again.  A run is the call of *)
(* clean_registry of module Clean, here on a scan that has read the state  *)
(* at its start (module Scan shows that it does when nothing changes); the *)
(* registry may write and files may come and go until a bound is reached,  *)
(* attempts may fail, runs may be killed and the storage may be unmounted  *)
(* during a scan until another one is.                                     *)
(***************************************************************************)
EXTENDS Clean

CONSTANT MaxFailures   \* bound: failed attempts, killed runs, lost mounts

ASSUME DoctorAssumption == MaxFailures \in Nat

VARIABLES storage,      \* the storage tree
          failed,       \* failed attempts, killed runs, lost mounts so far
          undisturbed,  \* no write and no lost op since this run's scan
          settled       \* undisturbed runs in a row before this one, up to 2

doctor == <<storage, failed, undisturbed, settled>>

DoctorTypeOK ==
    /\ TypeOK
    /\ storage \in FsState
    /\ failed \in 0 .. MaxFailures
    /\ undisturbed \in BOOLEAN
    /\ settled \in 0 .. 2

\* What scan_fs makes of a storage root that is not mounted: no error, no file.
EmptyTree == [d \in Digests |-> None]

DoctorInit ==
    /\ Init
    /\ dry_run = FALSE
    /\ storage \in FsState
    /\ failed = 0
    /\ undisturbed = (fs = storage)
    /\ fs \in {storage, EmptyTree}
    /\ settled = 0

Finished == pc \in {"done", "aborted"}

\* Undisturbed runs in a row that have come to their end.
Completed == settled + IF undisturbed /\ pc = "done" THEN 1 ELSE 0

\* scan_one_registry and classify, in a new process, which sees the tree or
\* not.  It is assumed that no command of the last run's pipelines is still on
\* its way by then.
NextRun(tree) ==
    /\ Finished
    /\ snapshot' = redis
    /\ fs' = tree
    /\ pc' = "plan"
    /\ ops' = <<>> /\ wire' = <<>> /\ failures' = <<>>
    /\ start' = 1 /\ attempts' = 0
    /\ applied' = 0 /\ retried' = 0
    /\ rewritten' = {}
    /\ UNCHANGED <<redis, dry_run, clear_internal_garbage, writes, storage>>

MountedRun ==
    /\ NextRun(storage)
    /\ undisturbed' = TRUE
    /\ settled' = IF Completed > 2 THEN 2 ELSE Completed
    /\ UNCHANGED failed

\* The steps after which the runs so far no longer count as undisturbed.
Disturbs == undisturbed' = FALSE /\ settled' = 0

Fails == failed < MaxFailures /\ failed' = failed + 1

UnmountedRun == NextRun(EmptyTree) /\ Fails /\ Disturbs

\* The steps of clean_registry that go well.
Progress ==
    /\ \/ Plan
       \/ Send
       \/ \E n \in 1 .. Len(wire) : Serve(n)
       \/ ExecuteOk
    /\ UNCHANGED doctor

\* A failed attempt that is repeated does not count against the run, although
\* the commands of its pipeline may still come, in any order with the new ones.
FailedAttempt ==
    /\ Fails
    /\ ExecuteErrorRetry
    /\ UNCHANGED <<storage, undisturbed, settled>>

Failure ==
    /\ Fails /\ Disturbs
    /\ ExecuteErrorGiveUp \/ Abort
    /\ UNCHANGED storage

RegistryWrites == Registry /\ Disturbs /\ UNCHANGED <<storage, failed>>

\* A file is uploaded, lost, truncated or collected.
FilesChange ==
    /\ writes < MaxWrites
    /\ writes' = writes + 1
    /\ \E d \in Digests, s \in Sizes \union {None} :
          storage' = [storage EXCEPT ![d] = s]
    /\ Disturbs
    /\ UNCHANGED <<redis, local, wire, rewritten, failed>>

DoctorNext == \/ MountedRun \/ UnmountedRun \/ Progress
              \/ FailedAttempt \/ Failure \/ RegistryWrites \/ FilesChange

\* supercronic starts a run again and again; Redis serves the current pipeline.
Current == /\ pc = "wait" /\ wire # <<>>
           /\ Serve(Len(wire)) \/ ExecuteOk
           /\ UNCHANGED doctor

DoctorFairness ==
    /\ WF_<<vars, doctor>>(MountedRun)
    /\ WF_<<vars, doctor>>(Plan /\ UNCHANGED doctor)
    /\ WF_<<vars, doctor>>(Send /\ UNCHANGED doctor)
    /\ WF_<<vars, doctor>>(Current)

DoctorSpec == DoctorInit /\ [][DoctorNext]_<<vars, doctor>> /\ DoctorFairness

-----------------------------------------------------------------------------
Drift == {i \in Classify(redis, storage) : i.category # "C7"}

DriftCategories == {i.category : i \in Drift}

\* One undisturbed run removes every real failure, whether or not it clears
\* internal garbage.
OneRunRemovesFailures ==
    Completed >= 1 => DriftCategories \intersect {"C4", "C5"} = {}

\* One undisturbed run that clears internal garbage leaves no drift but C2,
\* and that only on pairs of a digest it has taken from another repository:
\* the global hash that it removes is shared.
OneRunLeavesSharedC2 ==
    (Completed >= 1 /\ clear_internal_garbage /\ pc = "done" /\ undisturbed) =>
        \A i \in Drift :
            /\ i.category = "C2"
            /\ PairCategory(snapshot, fs, <<i.repo, i.digest>>) = "OK"
            /\ \E o \in Range(ops) : o.digest = i.digest /\ o.repo # i.repo

\* The next one removes that as well: two undisturbed runs converge, from any
\* state that failures, killed runs and the registry have left.
TwoRunsConverge ==
    (Completed >= 2 /\ clear_internal_garbage) => Drift = {}

\* clean.py, "subsequent runs converge": once writes and failures cease, the
\* drift is gone for good.
EventuallyConverges ==
    clear_internal_garbage => <>[](Drift = {})
=============================================================================
