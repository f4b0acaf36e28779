---------------------------- MODULE DoctorProofs ----------------------------
(***************************************************************************)
(* Proofs about module Doctor: `rcd clean --apply` run after run.  What a  *)
(* single call does is proved in CleanProofs; here, an undisturbed run     *)
(* makes its whole plan effective on what it has scanned, so that the      *)
(* drift is gone after two of them.                                        *)
(***************************************************************************)
EXTENDS Doctor, CleanProofs

-----------------------------------------------------------------------------
(***************************************************************************)
(* Run after run: the inductive invariant.                                 *)
(***************************************************************************)

\* What a state of Redis and storage may still have after one run, and after
\* one that clears internal garbage: no failure, and C2 only where the global
\* hash has been removed.
NoFailure(r, f) == \A p \in Pairs(r) : PairCategory(r, f, p) \notin {"C4", "C5"}

OnlyShared(r, f) ==
    /\ GlobalOrphans(r) = {}
    /\ \A p \in Pairs(r) :
          \/ PairCategory(r, f, p) = "OK"
          \/ PairCategory(r, f, p) = "C2" /\ r.global_blobs[p[2]] = NoKey

NoDrift(r, f) ==
    /\ GlobalOrphans(r) = {}
    /\ \A p \in Pairs(r) : PairCategory(r, f, p) = "OK"

\* A global hash goes for an op of its digest.
CauseInv ==
    \A d \in Digests : redis.global_blobs[d] # snapshot.global_blobs[d] =>
        \E o \in PlannedOps(Issues) : o.digest = d

\* A run that has not been disturbed works on what it has scanned.
FreshInv ==
    undisturbed => /\ fs = storage /\ rewritten = {} /\ failures = <<>>
                   /\ pc # "aborted"
                   /\ ShrinkInv /\ PrefixInv /\ CauseInv

\* What undisturbed runs have left to the one after them.
SettledInv ==
    /\ settled >= 1 =>
          /\ undisturbed
          /\ NoFailure(snapshot, fs)
          /\ clear_internal_garbage => OnlyShared(snapshot, fs)
    /\ settled = 2 /\ clear_internal_garbage => NoDrift(snapshot, fs)

DInv == /\ IInv /\ DoctorTypeOK /\ ~dry_run
        /\ FreshInv /\ CompleteInv /\ SettledInv

-----------------------------------------------------------------------------
(***************************************************************************)
(* What one undisturbed run leaves.                                        *)
(***************************************************************************)

\* No pair ends as a failure.
LEMMA RunRemovesFailures ==
    ASSUME TypeOK, ShrinkInv, AllGone
    PROVE  NoFailure(redis, fs)
<1> SUFFICES ASSUME NEW p \in Pairs(redis),
                    PairCategory(redis, fs, p) \in {"C4", "C5"}
             PROVE  FALSE
  BY DEF NoFailure
<1>1. p \in Pair
  BY DEF TypeOK, RedisState, Pairs
<1>2. Verdict(redis, p) = PairCategory(redis, fs, p)
  BY DEF Verdict
<1>3. Verdict(snapshot, p) = Verdict(redis, p)
  <2>1. \A x : <<x, Verdict(redis, p)>> \notin Degrades
    BY <1>2 DEF Degrades
  <2> QED BY <1>1, <2>1, ShrunkVerdicts
<1>4. p \in Pairs(snapshot) /\ PairCategory(snapshot, fs, p) \in {"C4", "C5"}
  BY <1>2, <1>3 DEF Verdict
<1> QED BY <1>4, PlannedPairIsGone DEF ShrinkInv

\* With internal garbage cleared, what is left is C2, on pairs that were well
\* and whose global hash another repository's op has taken.
LEMMA RunLeavesSharedC2 ==
    ASSUME TypeOK, ShrinkInv, CauseInv, AllGone, clear_internal_garbage
    PROVE  /\ GlobalOrphans(redis) = {}
           /\ \A p \in Pairs(redis) :
                 \/ PairCategory(redis, fs, p) = "OK"
                 \/ /\ PairCategory(redis, fs, p) = "C2"
                    /\ redis.global_blobs[p[2]] = NoKey
                    /\ PairCategory(snapshot, fs, p) = "OK"
                    /\ \E o \in PlannedOps(Issues) :
                          o.digest = p[2] /\ o.repo # p[1]
<1>1. ASSUME NEW d \in GlobalOrphans(redis) PROVE FALSE
  <2>1. d \in Digests /\ redis.global_blobs[d] # NoKey
    BY <1>1 DEF GlobalOrphans
  <2>2. snapshot.global_blobs[d] # NoKey
    BY <2>1 DEF ShrinkInv, Shrunk
  <2>3. CASE d \in GlobalOrphans(snapshot)
    <3>1. PICK o \in PlannedOps(Issues) : o.digest = d
      BY <2>3, OrphanIsPlanned
    <3> QED BY <2>1, <3>1, OpGone
  <2>4. CASE d \notin GlobalOrphans(snapshot)
    <3>1. PICK p \in snapshot.repo_blob_sets : p[2] = d
      BY <2>1, <2>2, <2>4 DEF GlobalOrphans, ReferencedDigests
    <3>2. p \notin redis.repo_blob_sets
      BY <1>1, <3>1 DEF GlobalOrphans, ReferencedDigests
    <3>3. PairCategory(snapshot, fs, p) \in NeedsSrem
      BY <3>1, <3>2 DEF ShrinkInv
    <3>4. p \in Pairs(snapshot) /\ PairCategory(snapshot, fs, p) # "OK"
      BY <3>1, <3>3 DEF Pairs, NeedsSrem
    <3> QED BY <2>1, <3>1, <3>4, PlannedPairIsGone DEF ShrinkInv
  <2> QED BY <2>3, <2>4
<1>2. ASSUME NEW p \in Pairs(redis), PairCategory(redis, fs, p) # "OK"
      PROVE  /\ PairCategory(redis, fs, p) = "C2"
             /\ redis.global_blobs[p[2]] = NoKey
             /\ PairCategory(snapshot, fs, p) = "OK"
             /\ \E o \in PlannedOps(Issues) : o.digest = p[2] /\ o.repo # p[1]
  <2>1. p \in Pair /\ p \in Pairs(snapshot) /\ p[2] \in Digests
    BY DEF TypeOK, RedisState, Pairs, ShrinkInv, Shrunk, Pair
  <2>2. PairCategory(snapshot, fs, p) = "OK"
    BY <2>1, PlannedPairIsGone DEF ShrinkInv
  <2>3. /\ Verdict(redis, p) = PairCategory(redis, fs, p)
        /\ Verdict(snapshot, p) = "OK"
    BY <2>1, <2>2 DEF Verdict
  <2>4. PairCategory(redis, fs, p) = "C2"
    <3>1. <<"OK", PairCategory(redis, fs, p)>> \in Degrades
      BY <1>2, <2>1, <2>3, ShrunkVerdicts
    <3>2. PairCategory(redis, fs, p) # "none"
      BY DEF PairCategory
    <3> QED BY <3>1, <3>2 DEF Degrades
  <2>5. /\ p \in redis.repo_blob_sets
        /\ ~GlobalValid(redis, p[2])
    BY <2>4 DEF PairCategory
  <2>6. GlobalValid(snapshot, p[2])
    <3>1. p \in snapshot.repo_blob_sets
      BY <2>5 DEF ShrinkInv, Shrunk
    <3> QED BY <2>2, <3>1 DEF PairCategory
  <2>7. /\ redis.global_blobs[p[2]] # snapshot.global_blobs[p[2]]
        /\ redis.global_blobs[p[2]] = NoKey
    BY <2>1, <2>5, <2>6 DEF GlobalValid, ShrinkInv, Shrunk
  <2>8. PICK o \in PlannedOps(Issues) : o.digest = p[2]
    BY <2>1, <2>7 DEF CauseInv
  <2>9. o.repo # p[1]
    <3> SUFFICES ASSUME o.repo = p[1] PROVE FALSE
      OBVIOUS
    <3>1. o.repo \in Repos /\ <<o.repo, o.digest>> = p
      BY <2>1, <2>8 DEF Pair
    <3>2. o.category = "OK"
      BY <2>2, <3>1, OpIsVerdict
    <3>3. o \in CleanOp
      <4>1. Issues \in SUBSET Issue
        BY ClassifyType DEF TypeOK, Issues
      <4> QED BY <4>1, PlannedOpsType
    <3> QED BY <3>2, <3>3 DEF CleanOp, InternalGarbage, RealFailures
  <2> QED BY <2>2, <2>4, <2>7, <2>8, <2>9
<1> QED BY <1>1, <1>2

\* An issue of drift is a pair's verdict or an orphan.
LEMMA DriftMeaning ==
    ASSUME NEW r \in RedisState, NEW f \in FsState,
           NEW i \in Classify(r, f), i.category # "C7"
    PROVE  \/ i.category = "C1" /\ i.digest \in GlobalOrphans(r)
           \/ /\ <<i.repo, i.digest>> \in Pairs(r)
              /\ i.category = PairCategory(r, f, <<i.repo, i.digest>>)
              /\ i.category # "OK"
<1>1. CASE i \in OrphanIssues(r, f)
  BY <1>1 DEF OrphanIssues, MkIssue
<1>2. CASE i \in PairIssues(r, f)
  <2>1. PICK p \in Pairs(r) :
           /\ PairCategory(r, f, p) # "OK"
           /\ i = MkIssue(r, f, PairCategory(r, f, p), p[2], p[1])
    BY <1>2 DEF PairIssues
  <2>2. /\ i.repo = p[1] /\ i.digest = p[2]
        /\ i.category = PairCategory(r, f, p)
    BY <2>1 DEF MkIssue
  <2>3. p = <<p[1], p[2]>>
    <3>1. p \in Repos \X Digests
      BY DEF Pairs, RedisState, Pair
    <3> QED BY <3>1
  <2> QED BY <2>1, <2>2, <2>3
<1>3. i \notin LeftoverIssues(r, f)
  BY DEF LeftoverIssues, MkIssue
<1> QED BY <1>1, <1>2, <1>3 DEF Classify

\* An op without a repository takes an orphan.
LEMMA OrphanOp ==
    ASSUME TypeOK, NEW o \in PlannedOps(Issues), o.repo \notin Repos
    PROVE  o.digest \in GlobalOrphans(snapshot)
<1>1. PICK i \in Issues :
         /\ o.category = i.category /\ o.digest = i.digest
         /\ o.category # "C1" => o.repo \in Repos
  BY OpHasIssue
<1>2. i.category = "C1"
  BY <1>1
<1>3. \A p : PairCategory(snapshot, fs, p) # "C1"
  BY DEF PairCategory
<1> QED BY <1>1, <1>2, <1>3, DriftMeaning DEF Issues, TypeOK

\* A run that starts without drift changes nothing.
LEMMA NoDriftStays ==
    ASSUME TypeOK, ShrinkInv, CauseInv, NoDrift(snapshot, fs)
    PROVE  NoDrift(redis, fs)
<1>1. \A o \in PlannedOps(Issues) : FALSE
  <2> SUFFICES ASSUME NEW o \in PlannedOps(Issues) PROVE FALSE
    OBVIOUS
  <2>1. o.repo \in Repos
    BY OrphanOp DEF NoDrift
  <2>2. /\ <<o.repo, o.digest>> \in Pairs(snapshot)
        /\ o.category = PairCategory(snapshot, fs, <<o.repo, o.digest>>)
    BY <2>1, OpIsVerdict
  <2>3. o.category = "OK"
    BY <2>2 DEF NoDrift
  <2>4. o \in CleanOp
    <3>1. Issues \in SUBSET Issue
      BY ClassifyType DEF TypeOK, Issues
    <3> QED BY <3>1, PlannedOpsType
  <2> QED BY <2>3, <2>4 DEF CleanOp, InternalGarbage, RealFailures
<1>2. \A d \in Digests : redis.global_blobs[d] = snapshot.global_blobs[d]
  BY <1>1 DEF CauseInv
<1>3. redis.repo_blob_sets = snapshot.repo_blob_sets
  <2> SUFFICES ASSUME NEW p \in snapshot.repo_blob_sets \ redis.repo_blob_sets
               PROVE  FALSE
    BY DEF ShrinkInv, Shrunk
  <2>1. PairCategory(snapshot, fs, p) \in NeedsSrem
    BY DEF ShrinkInv
  <2> QED BY <2>1 DEF NoDrift, Pairs, NeedsSrem
<1>4. redis.repo_blob_hashes = snapshot.repo_blob_hashes
  <2> SUFFICES ASSUME NEW p \in snapshot.repo_blob_hashes \ redis.repo_blob_hashes
               PROVE  FALSE
    BY DEF ShrinkInv, Shrunk
  <2>1. PairCategory(snapshot, fs, p) \in RepoScoped
    BY DEF ShrinkInv
  <2> QED BY <2>1 DEF NoDrift, Pairs, RepoScoped
<1>5. redis.global_blobs = snapshot.global_blobs
  BY <1>2 DEF TypeOK, RedisState
<1> QED BY <1>3, <1>4, <1>5
        DEF NoDrift, Pairs, PairCategory, GlobalValid, RedisSize, GlobalOrphans,
            ReferencedDigests

\* A run that starts with C2 alone, where the global hash is gone, ends
\* without drift: nobody shares with those pairs what it takes.
LEMMA SecondRunLeavesNone ==
    ASSUME TypeOK, ShrinkInv, CauseInv, AllGone, clear_internal_garbage,
           OnlyShared(snapshot, fs)
    PROVE  NoDrift(redis, fs)
<1>1. GlobalOrphans(redis) = {}
  BY RunLeavesSharedC2
<1>2. ASSUME NEW p \in Pairs(redis), PairCategory(redis, fs, p) # "OK"
      PROVE  FALSE
  <2>1. /\ PairCategory(redis, fs, p) = "C2"
        /\ PairCategory(snapshot, fs, p) = "OK"
        /\ \E o \in PlannedOps(Issues) : o.digest = p[2]
    BY <1>2, RunLeavesSharedC2
  <2>2. PICK o \in PlannedOps(Issues) : o.digest = p[2]
    BY <2>1
  <2>3. p \in snapshot.repo_blob_sets
    BY <2>1 DEF PairCategory, ShrinkInv, Shrunk
  <2>4. snapshot.global_blobs[p[2]] # NoKey
    BY <2>1, <2>3, SpecialValues DEF PairCategory, GlobalValid
  <2>5. o.repo \in Repos
    BY OrphanOp DEF OnlyShared
  <2>6. /\ <<o.repo, o.digest>> \in Pairs(snapshot)
        /\ o.category = PairCategory(snapshot, fs, <<o.repo, o.digest>>)
    BY <2>5, OpIsVerdict
  <2>7. o.category # "OK"
    <3>1. Issues \in SUBSET Issue
      BY ClassifyType DEF TypeOK, Issues
    <3>2. o \in CleanOp
      BY <3>1, PlannedOpsType
    <3> QED BY <3>2 DEF CleanOp, InternalGarbage, RealFailures
  <2>8. snapshot.global_blobs[o.digest] = NoKey
    <3> DEFINE q == <<o.repo, o.digest>>
    <3>1. q[2] = o.digest
      OBVIOUS
    <3> HIDE DEF q
    <3>2. q \in Pairs(snapshot) /\ PairCategory(snapshot, fs, q) # "OK"
      BY <2>6, <2>7 DEF q
    <3> QED BY <3>1, <3>2 DEF OnlyShared
  <2> QED BY <2>2, <2>4, <2>8
<1> QED BY <1>1, <1>2 DEF NoDrift

-----------------------------------------------------------------------------
(***************************************************************************)
(* Run after run.                                                          *)
(***************************************************************************)

\* What completed runs guarantee of the present state.
LEMMA CompletedMeans ==
    ASSUME DInv
    PROVE  /\ Completed >= 1 => undisturbed /\ NoFailure(redis, storage)
           /\ Completed >= 1 /\ clear_internal_garbage /\ pc = "done" =>
                 OnlyShared(redis, storage)
           /\ Completed >= 2 /\ clear_internal_garbage => NoDrift(redis, storage)
<1>1. settled \in 0 .. 2 /\ TypeOK
  BY DEF DInv, DoctorTypeOK
<1>2. ASSUME Completed >= 1 PROVE undisturbed
  BY <1>1, <1>2 DEF Completed, DInv, SettledInv
<1>3. ASSUME undisturbed
      PROVE  fs = storage /\ ShrinkInv /\ CauseInv /\ (pc = "done" => AllGone)
  BY <1>3, DoneMeansGone DEF DInv, FreshInv
<1>4. ASSUME Completed >= 1 PROVE NoFailure(redis, storage)
  <2>1. CASE pc = "done"
    BY <1>1, <1>2, <1>3, <1>4, <2>1, RunRemovesFailures
  <2>2. CASE pc # "done"
    <3>1. settled >= 1
      BY <1>1, <1>4, <2>2 DEF Completed
    <3>2. NoFailure(snapshot, fs) /\ fs = storage /\ ShrinkInv
      BY <1>2, <1>3, <1>4, <3>1 DEF DInv, SettledInv
    <3>3. ASSUME NEW p \in Pairs(redis),
                 PairCategory(redis, fs, p) \in {"C4", "C5"}
          PROVE  FALSE
      <4>1. p \in Pair
        BY <1>1 DEF TypeOK, RedisState, Pairs
      <4>2. Verdict(redis, p) = PairCategory(redis, fs, p)
        BY DEF Verdict
      <4>3. \A x : <<x, Verdict(redis, p)>> \notin Degrades
        BY <3>3, <4>2 DEF Degrades
      <4>4. Verdict(snapshot, p) = Verdict(redis, p)
        BY <1>1, <3>2, <4>1, <4>3, ShrunkVerdicts
      <4>5. /\ p \in Pairs(snapshot)
            /\ PairCategory(snapshot, fs, p) \in {"C4", "C5"}
        BY <3>3, <4>2, <4>4 DEF Verdict
      <4> QED BY <3>2, <4>5 DEF NoFailure
    <3> QED BY <3>2, <3>3 DEF NoFailure
  <2> QED BY <2>1, <2>2
<1>5. ASSUME Completed >= 1, clear_internal_garbage, pc = "done"
      PROVE  OnlyShared(redis, storage)
  <2>1. fs = storage /\ ShrinkInv /\ CauseInv /\ AllGone
    BY <1>2, <1>3, <1>5
  <2> QED BY <1>1, <1>5, <2>1, RunLeavesSharedC2 DEF OnlyShared
<1>6. ASSUME Completed >= 2, clear_internal_garbage
      PROVE  NoDrift(redis, storage)
  <2>1. undisturbed
    BY <1>1, <1>2, <1>6 DEF Completed
  <2>2. CASE settled = 2
    BY <1>1, <1>3, <1>6, <2>1, <2>2, NoDriftStays DEF DInv, SettledInv
  <2>3. CASE settled # 2
    <3>1. settled = 1 /\ pc = "done"
      BY <1>1, <1>6, <2>3 DEF Completed
    <3>2. OnlyShared(snapshot, fs)
      BY <1>6, <3>1 DEF DInv, SettledInv
    <3> QED BY <1>1, <1>3, <1>6, <2>1, <3>1, <3>2, SecondRunLeavesNone
  <2> QED BY <2>2, <2>3
<1> QED BY <1>2, <1>4, <1>5, <1>6

LEMMA DInvInit == DoctorInit => DInv
<1> SUFFICES ASSUME DoctorInit PROVE DInv
  OBVIOUS
<1>1. Init /\ IInv
  BY InitIInv DEF DoctorInit
<1>2. DoctorTypeOK /\ ~dry_run
  BY <1>1, DoctorAssumption DEF DoctorInit, DoctorTypeOK, IInv
<1>3. FreshInv
  BY <1>1 DEF DoctorInit, Init, FreshInv, ShrinkInv, Shrunk, PrefixInv, CauseInv
<1>4. CompleteInv /\ SettledInv
  BY <1>1 DEF DoctorInit, Init, CompleteInv, SettledInv
<1> QED BY <1>1, <1>2, <1>3, <1>4 DEF DInv

\* The steps of the call that lose no op, failed attempts included.
LEMMA CallStep ==
    ASSUME DInv,
           \/ Plan \/ Send \/ ExecuteOk \/ ExecuteErrorRetry
           \/ \E n \in 1 .. Len(wire) : Serve(n),
           UNCHANGED <<storage, undisturbed, settled>>, failed' \in 0 .. MaxFailures
    PROVE  DInv'
<1>1. IInv /\ [Next]_vars
  BY DEF DInv, Next
<1>2. /\ UNCHANGED <<snapshot, fs, dry_run, clear_internal_garbage, writes,
                     storage, undisturbed, settled, rewritten, failures>>
      /\ UNCHANGED call
  <2>1. UNCHANGED <<call, writes, rewritten, failures>>
    BY DEF Plan, Send, ExecuteOk, ExecuteErrorRetry, Serve, local, report
  <2> QED BY <2>1 DEF call
<1>3. ~Registry
  <2>1. writes \in Nat
    BY <1>1, CleanAssumption DEF IInv, TypeOK
  <2>2. Registry => writes' = writes + 1
    BY DEF Registry, RegistrySadd, RegistryHmset, RegistryHsetnx, RegistryHset,
           RegistryClear, RegistryWrite
  <2> QED BY <1>2, <2>1, <2>2
<1>4. IInv'
  BY <1>1, IInvStep
<1>5. DoctorTypeOK' /\ ~dry_run'
  BY <1>2, <1>4 DEF DInv, DoctorTypeOK, IInv
<1>6. Issues' = Issues /\ PlannedOps(Issues)' = PlannedOps(Issues)
  BY <1>2, PlannedStay
<1>7. FreshInv'
  <2> SUFFICES ASSUME undisturbed PROVE FreshInv'
    BY <1>2 DEF FreshInv
  <2>1. /\ fs = storage /\ rewritten = {} /\ failures = <<>> /\ pc # "aborted"
        /\ ShrinkInv /\ PrefixInv /\ CauseInv
    BY DEF DInv, FreshInv
  <2>2. ShrinkInv' /\ PrefixInv'
    BY <1>1, <1>3, <2>1, ShrinkingStep
  <2>3. pc' # "aborted"
    BY <2>1 DEF Plan, Send, ExecuteOk, ExecuteErrorRetry, NextChunk, Serve, local
  <2>4. CauseInv'
    <3> SUFFICES ASSUME NEW d \in Digests,
                        redis'.global_blobs[d] # snapshot.global_blobs[d]
                 PROVE  \E o \in PlannedOps(Issues) : o.digest = d
      BY <1>2, <1>6 DEF CauseInv
    <3>1. CASE redis.global_blobs[d] # snapshot.global_blobs[d]
      BY <2>1, <3>1 DEF CauseInv
    <3>2. CASE redis'.global_blobs[d] # redis.global_blobs[d]
      <4>1. PICK n \in 1 .. Len(wire) : Serve(n)
        BY <3>2 DEF Plan, Send, ExecuteOk, ExecuteErrorRetry
      <4> QED BY <1>1, <2>1, <3>2, <4>1, ServeShrinks DEF ShrinkInv
    <3> QED BY <3>1, <3>2
  <2> QED BY <1>2, <2>1, <2>2, <2>3, <2>4 DEF FreshInv
<1>8. CompleteInv'
  BY <1>1, CompleteStep DEF DInv
<1>9. SettledInv'
  BY <1>2 DEF DInv, SettledInv
<1> QED BY <1>4, <1>5, <1>7, <1>8, <1>9 DEF DInv

LEMMA ProgressStep == DInv /\ Progress => DInv'
<1> SUFFICES ASSUME DInv, Progress PROVE DInv'
  OBVIOUS
<1>1. UNCHANGED <<storage, undisturbed, settled>> /\ failed' \in 0 .. MaxFailures
  BY DEF Progress, doctor, DInv, DoctorTypeOK
<1> QED BY <1>1, CallStep DEF Progress

LEMMA FailedAttemptStep == DInv /\ FailedAttempt => DInv'
<1> SUFFICES ASSUME DInv, FailedAttempt PROVE DInv'
  OBVIOUS
<1>1. failed' \in 0 .. MaxFailures
  BY DoctorAssumption DEF FailedAttempt, Fails, DInv, DoctorTypeOK
<1> QED BY <1>1, CallStep DEF FailedAttempt

\* After a disturbance little is left to show.
LEMMA DisturbedStep ==
    ASSUME DInv, IInv', Disturbs, UNCHANGED <<call, ops>>,
           pc' # "plan" => pc # "plan",
           storage' \in FsState, failed' \in 0 .. MaxFailures
    PROVE  DInv'
<1>1. FreshInv' /\ SettledInv'
  BY DEF Disturbs, FreshInv, SettledInv
<1>2. CompleteInv'
  BY PlannedStay DEF DInv, CompleteInv
<1>3. DoctorTypeOK'
  <2>1. undisturbed' \in BOOLEAN
    BY DEF Disturbs
  <2>2. settled' \in 0 .. 2
    BY DEF Disturbs
  <2> QED BY <2>1, <2>2 DEF IInv, DoctorTypeOK
<1>4. ~dry_run'
  BY DEF DInv, call
<1> QED BY <1>1, <1>2, <1>3, <1>4 DEF DInv

LEMMA FailureStep == DInv /\ Failure => DInv'
<1> SUFFICES ASSUME DInv, Failure PROVE DInv'
  OBVIOUS
<1>1. ExecuteErrorGiveUp \/ Abort
  BY DEF Failure
<1>2. IInv'
  BY <1>1, ExecuteErrorGiveUpStep, AbortStep DEF DInv
<1>3. UNCHANGED <<call, ops>> /\ pc # "plan"
  BY <1>1 DEF ExecuteErrorGiveUp, Abort
<1>4. Disturbs /\ storage' \in FsState /\ failed' \in 0 .. MaxFailures
  BY DoctorAssumption DEF Failure, Fails, DInv, DoctorTypeOK
<1> QED BY <1>2, <1>3, <1>4, DisturbedStep

LEMMA RegistryWritesStep == DInv /\ RegistryWrites => DInv'
<1> SUFFICES ASSUME DInv, RegistryWrites PROVE DInv'
  OBVIOUS
<1>1. IInv'
  BY RegistryStep DEF DInv, RegistryWrites
<1>2. UNCHANGED <<call, ops, pc>>
  <2>1. UNCHANGED local
    BY RegistryKeeps DEF DInv, IInv, RegistryWrites
  <2> QED BY <2>1 DEF local
<1>3. Disturbs /\ storage' \in FsState /\ failed' \in 0 .. MaxFailures
  BY DEF RegistryWrites, DInv, DoctorTypeOK
<1> QED BY <1>1, <1>2, <1>3, DisturbedStep

LEMMA FilesChangeStep == DInv /\ FilesChange => DInv'
<1> SUFFICES ASSUME DInv, FilesChange PROVE DInv'
  OBVIOUS
<1>1. /\ UNCHANGED <<redis, call, snapshot, fs, dry_run, clear_internal_garbage,
                     pc, ops, start, attempts, applied, retried, failures, wire,
                     rewritten, failed>>
      /\ writes' = writes + 1 /\ writes < MaxWrites
  BY DEF FilesChange, local, call, report
<1>2. IInv'
  <2>1. WorldKeeps
    BY <1>1, CleanAssumption DEF DInv, IInv, TypeOK, WorldKeeps, Effective
  <2>2. UNCHANGED <<local, wire>>
    BY DEF FilesChange
  <2> QED BY <2>1, <2>2, BesideStep DEF DInv
<1>3. storage' \in FsState
  BY DEF FilesChange, DInv, DoctorTypeOK, FsState
<1>4. Disturbs /\ failed' \in 0 .. MaxFailures
  BY <1>1 DEF FilesChange, DInv, DoctorTypeOK
<1> QED BY <1>1, <1>2, <1>3, <1>4, DisturbedStep

\* A new run stands where the first one stood.
LEMMA NextRunStarts ==
    ASSUME DInv, NEW tree \in FsState, NextRun(tree)
    PROVE  IInv' /\ PrefixInv' /\ ~dry_run' /\ CompleteInv'
<1>1. /\ redis' \in RedisState /\ snapshot' \in RedisState
      /\ fs' \in FsState /\ writes' \in 0 .. MaxWrites
      /\ dry_run' = FALSE /\ clear_internal_garbage' \in BOOLEAN
      /\ rewritten' \subseteq Command
  BY DEF DInv, IInv, TypeOK, NextRun
<1> QED BY <1>1, FreshCall DEF NextRun

LEMMA MountedRunStep == DInv /\ MountedRun => DInv'
<1> SUFFICES ASSUME DInv, MountedRun PROVE DInv'
  OBVIOUS
<1>1. /\ NextRun(storage) /\ storage \in FsState
      /\ undisturbed' /\ failed' = failed
      /\ settled' = IF Completed > 2 THEN 2 ELSE Completed
  BY DEF MountedRun, DInv, DoctorTypeOK
<1>2. IInv' /\ ~dry_run' /\ CompleteInv'
  BY <1>1, NextRunStarts
<1>3. settled \in 0 .. 2 /\ Completed \in 0 .. 3
  BY DEF DInv, DoctorTypeOK, Completed
<1>4. /\ snapshot' = redis /\ redis' = redis /\ fs' = storage
      /\ storage' = storage /\ clear_internal_garbage' = clear_internal_garbage
      /\ rewritten' = {} /\ failures' = <<>> /\ wire' = <<>> /\ pc' = "plan"
  BY <1>1 DEF NextRun
<1>5. DoctorTypeOK'
  BY <1>1, <1>2, <1>3, <1>4 DEF MountedRun, DInv, IInv, DoctorTypeOK
<1>6. FreshInv'
  <2>1. PrefixInv' /\ ShrinkInv' /\ CauseInv'
    BY <1>1, <1>4, NextRunStarts DEF ShrinkInv, Shrunk, CauseInv
  <2> QED BY <1>4, <2>1 DEF FreshInv
<1>7. SettledInv'
  <2>1. Completed >= 1 => pc = "done"
    <3>1. Completed >= 1 => undisturbed
      BY CompletedMeans
    <3>2. undisturbed => pc # "aborted"
      BY DEF DInv, FreshInv
    <3> QED BY <1>1, <3>1, <3>2 DEF NextRun, Finished
  <2>2. settled' >= 1 => Completed >= 1
    BY <1>1, <1>3
  <2>3. settled' = 2 => Completed >= 2
    BY <1>1, <1>3
  <2>4. Completed >= 1 =>
           /\ NoFailure(redis, storage)
           /\ clear_internal_garbage => OnlyShared(redis, storage)
    BY <2>1, CompletedMeans
  <2>5. Completed >= 2 /\ clear_internal_garbage => NoDrift(redis, storage)
    BY CompletedMeans
  <2> QED BY <1>1, <1>4, <2>2, <2>3, <2>4, <2>5 DEF SettledInv
<1> QED BY <1>2, <1>5, <1>6, <1>7 DEF DInv

LEMMA UnmountedRunStep == DInv /\ UnmountedRun => DInv'
<1> SUFFICES ASSUME DInv, UnmountedRun PROVE DInv'
  OBVIOUS
<1>1. NextRun(EmptyTree) /\ EmptyTree \in FsState
  BY DEF UnmountedRun, EmptyTree, FsState
<1>2. IInv' /\ ~dry_run' /\ CompleteInv'
  BY <1>1, NextRunStarts
<1>3. /\ Disturbs /\ storage' = storage /\ failed' \in 0 .. MaxFailures
  BY <1>1, DoctorAssumption DEF UnmountedRun, Fails, NextRun, DInv, DoctorTypeOK
<1>4. FreshInv' /\ SettledInv'
  BY <1>3 DEF Disturbs, FreshInv, SettledInv
<1>5. DoctorTypeOK'
  <2>1. undisturbed' \in BOOLEAN
    BY <1>3 DEF Disturbs
  <2>2. settled' \in 0 .. 2
    BY <1>3 DEF Disturbs
  <2>3. storage' \in FsState
    BY <1>3 DEF DInv, DoctorTypeOK
  <2> QED BY <1>2, <1>3, <2>1, <2>2, <2>3 DEF IInv, DoctorTypeOK
<1> QED BY <1>2, <1>4, <1>5 DEF DInv

LEMMA DInvStep == DInv /\ [DoctorNext]_<<vars, doctor>> => DInv'
<1> SUFFICES ASSUME DInv, [DoctorNext]_<<vars, doctor>> PROVE DInv'
  OBVIOUS
<1>1. CASE DoctorNext
  BY <1>1, MountedRunStep, UnmountedRunStep, ProgressStep, FailedAttemptStep,
     FailureStep, RegistryWritesStep, FilesChangeStep DEF DoctorNext
<1>2. CASE UNCHANGED <<vars, doctor>>
  <2>1. IInv'
    BY <1>2, IInvStep DEF DInv
  <2>2. UNCHANGED <<call, snapshot, fs, dry_run, clear_internal_garbage, redis,
                    ops, pc, wire, failures, rewritten, storage, failed,
                    undisturbed, settled>>
    BY <1>2 DEF vars, doctor, local, call, report
  <2>3. PlannedOps(Issues)' = PlannedOps(Issues)
    BY <2>2, PlannedStay
  <2>4. DoctorTypeOK'
    BY <2>1, <2>2 DEF DInv, IInv, DoctorTypeOK
  <2>5. FreshInv'
    BY <2>2, <2>3 DEF DInv, FreshInv, ShrinkInv, Shrunk, PrefixInv, CauseInv, Drained
  <2>6. CompleteInv' /\ SettledInv'
    BY <2>2, <2>3 DEF DInv, CompleteInv, SettledInv
  <2> QED BY <2>1, <2>2, <2>4, <2>5, <2>6 DEF DInv
<1> QED BY <1>1, <1>2

LEMMA DoctorInductive == DoctorSpec => []DInv
BY DInvInit, DInvStep, PTL DEF DoctorSpec

\* The variables of repeated runs keep their types.
THEOREM DoctorTypeCorrect == DoctorSpec => []DoctorTypeOK
<1>1. DInv => DoctorTypeOK
  BY DEF DInv
<1> QED BY <1>1, DoctorInductive, PTL

\* For any cache, plan and batches: one undisturbed run leaves no real failure,
\* from whatever state writes, failures, kills and lost mounts have left.
THEOREM OneRunSuffices == DoctorSpec => []OneRunRemovesFailures
<1>1. DInv => OneRunRemovesFailures
  <2> SUFFICES ASSUME DInv, Completed >= 1, NEW i \in Drift,
                      i.category \in {"C4", "C5"}
               PROVE  FALSE
    BY DEF OneRunRemovesFailures, DriftCategories
  <2>1. redis \in RedisState /\ storage \in FsState
    BY DEF DInv, DoctorTypeOK, TypeOK
  <2>2. /\ <<i.repo, i.digest>> \in Pairs(redis)
        /\ PairCategory(redis, storage, <<i.repo, i.digest>>) = i.category
    BY <2>1, DriftMeaning DEF Drift
  <2>3. NoFailure(redis, storage)
    BY CompletedMeans
  <2> DEFINE p == <<i.repo, i.digest>>
  <2>4. p \in Pairs(redis) /\ PairCategory(redis, storage, p) \in {"C4", "C5"}
    BY <2>2
  <2> HIDE DEF p
  <2> QED BY <2>3, <2>4 DEF NoFailure
<1> QED BY <1>1, DoctorInductive, PTL

\* What one undisturbed run that clears internal garbage leaves is C2 on pairs
\* that were well, of a digest that it has taken from another repository.
THEOREM OneRunLeavesLittle == DoctorSpec => []OneRunLeavesSharedC2
<1>1. DInv => OneRunLeavesSharedC2
  <2> SUFFICES ASSUME DInv, clear_internal_garbage, pc = "done", undisturbed,
                      NEW i \in Drift
               PROVE  /\ i.category = "C2"
                      /\ PairCategory(snapshot, fs, <<i.repo, i.digest>>) = "OK"
                      /\ \E o \in Range(ops) :
                            o.digest = i.digest /\ o.repo # i.repo
    BY DEF OneRunLeavesSharedC2
  <2>1. /\ redis \in RedisState /\ storage \in FsState /\ TypeOK
        /\ fs = storage /\ ShrinkInv /\ CauseInv /\ AllGone
    BY DoneMeansGone DEF DInv, DoctorTypeOK, TypeOK, FreshInv
  <2>2. GlobalOrphans(redis) = {}
    BY <2>1, RunLeavesSharedC2
  <2> DEFINE p == <<i.repo, i.digest>>
  <2>3. /\ p \in Pairs(redis) /\ PairCategory(redis, fs, p) = i.category
        /\ i.category # "OK"
    BY <2>1, <2>2, DriftMeaning DEF Drift
  <2>4. p[1] = i.repo /\ p[2] = i.digest
    OBVIOUS
  <2> HIDE DEF p
  <2>5. /\ PairCategory(redis, fs, p) = "C2"
        /\ PairCategory(snapshot, fs, p) = "OK"
        /\ \E o \in PlannedOps(Issues) : o.digest = p[2] /\ o.repo # p[1]
    BY <2>1, <2>3, RunLeavesSharedC2
  <2>6. Range(ops) = PlannedOps(Issues)
    BY DEF DInv, CompleteInv
  <2> QED BY <2>3, <2>4, <2>5, <2>6 DEF p
<1> QED BY <1>1, DoctorInductive, PTL

\* Two undisturbed runs in a row leave no drift at all, and no later state has
\* any until something else disturbs it.
THEOREM TwoRunsSuffice == DoctorSpec => []TwoRunsConverge
<1>1. DInv => TwoRunsConverge
  <2> SUFFICES ASSUME DInv, Completed >= 2, clear_internal_garbage,
                      NEW i \in Drift
               PROVE  FALSE
    BY DEF TwoRunsConverge
  <2>1. redis \in RedisState /\ storage \in FsState
    BY DEF DInv, DoctorTypeOK, TypeOK
  <2>2. NoDrift(redis, storage)
    BY CompletedMeans
  <2> DEFINE p == <<i.repo, i.digest>>
  <2>3. \/ i.digest \in GlobalOrphans(redis)
        \/ p \in Pairs(redis) /\ PairCategory(redis, storage, p) # "OK"
    BY <2>1, DriftMeaning DEF Drift
  <2> HIDE DEF p
  <2> QED BY <2>2, <2>3 DEF NoDrift
<1> QED BY <1>1, DoctorInductive, PTL
=============================================================================
