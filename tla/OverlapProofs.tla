---------------------------- MODULE OverlapProofs ----------------------------
(***************************************************************************)
(* Proofs about module Overlap: two calls on one Redis.                    *)
(*                                                                         *)
(* What CleanProofs shows of a call is shown of the second one, too: its   *)
(* lemmas are instantiated with the second call's variables.  Each call's  *)
(* invariant survives the other's steps, because a call does nothing to    *)
(* the world that a removal command does not (WorldKeeps).  The properties *)
(* of a quiet registry need an invariant on both, QuietlyShared: Redis is  *)
(* what removals have left of either scan, no digest has been touched that *)
(* the first scan does not condemn, and a set member has gone for the      *)
(* verdict of one of the scans.  The second scan is torn by the commands   *)
(* of the first call, but it lies between the two: it has nothing that the *)
(* first scan has not (Seen), and at its end all that Redis then has       *)
(* (Covered).                                                              *)
(***************************************************************************)
EXTENDS Overlap, CleanProofs

Second == INSTANCE CleanProofs
    WITH snapshot <- snapshot2, pc <- pc2, ops <- ops2, start <- start2,
         attempts <- attempts2, applied <- applied2, retried <- retried2,
         failures <- failures2, wire <- wire2

\* The instance rests on the same assumptions.
LEMMA SecondAssumptions ==
    Second!SpecialValues /\ Second!KeyShapes /\ Second!CleanAssumption
BY SpecialValues, KeyShapes, CleanAssumption
   DEF Second!SpecialValues, Second!KeyShapes, Second!CleanAssumption,
       Second!IsFiniteSet, IsFiniteSet, Second!Pair, Pair

-----------------------------------------------------------------------------
(***************************************************************************)
(* What the two calls share means the same to both.                        *)
(***************************************************************************)

LEMMA SameCommands ==
    /\ Second!Command = Command /\ Second!Pair = Pair
    /\ Second!RedisState = RedisState /\ Second!FsState = FsState
    /\ \A r, c : Second!Exec(r, c) = Exec(r, c) /\ Second!Gone(r, c) = Gone(r, c)
    /\ \A c : Second!Effective(c) = Effective(c)
BY DEF Second!Command, Command, Second!Pair, Pair, Second!RedisState, RedisState,
       Second!GlobalBlob, GlobalBlob, Second!FsState, FsState, Second!Exec, Exec,
       Second!Gone, Gone, Second!Effective, Effective

LEMMA SameWorld == WorldKeeps <=> Second!WorldKeeps
<1>1. /\ Second!RedisState = RedisState /\ Second!Command = Command
      /\ \A r, c : Second!Gone(r, c) = Gone(r, c)
  BY SameCommands
<1>2. \A e : Effective(e) = Second!Effective(e) /\ Effective(e)' = Second!Effective(e)'
  BY <1>1 DEF Effective, Second!Effective
<1> QED BY <1>1, <1>2 DEF WorldKeeps, Second!WorldKeeps

\* Plans and verdicts.
LEMMA SamePlans ==
    /\ \A r, f, p : Second!PairCategory(r, f, p) = PairCategory(r, f, p)
    /\ \A r : Second!Pairs(r) = Pairs(r) /\ Second!GlobalOrphans(r) = GlobalOrphans(r)
    /\ \A r, f : Second!Classify(r, f) = Classify(r, f)
    /\ \A i : Second!PlannedOps(i) = PlannedOps(i)
    /\ \A o : Second!QueueOp(o) = QueueOp(o)
    /\ Second!NeedsSrem = NeedsSrem
<1>1. \A r, f, p : Second!PairCategory(r, f, p) = PairCategory(r, f, p)
  BY DEF Second!PairCategory, PairCategory, Second!GlobalValid, GlobalValid,
         Second!RedisSize, RedisSize
<1>2. \A r : Second!Pairs(r) = Pairs(r) /\ Second!GlobalOrphans(r) = GlobalOrphans(r)
  BY DEF Second!Pairs, Pairs, Second!GlobalOrphans, GlobalOrphans,
         Second!ReferencedDigests, ReferencedDigests
<1>3. \A r, f, c, d, x : Second!MkIssue(r, f, c, d, x) = MkIssue(r, f, c, d, x)
  BY DEF Second!MkIssue, MkIssue, Second!RedisSize, RedisSize
<1>4. \A r, f : Second!Classify(r, f) = Classify(r, f)
  <2>1. \A r, f : Second!PairIssues(r, f) = PairIssues(r, f)
    BY <1>1, <1>2, <1>3 DEF Second!PairIssues, PairIssues
  <2>2. \A r, f : Second!OrphanIssues(r, f) = OrphanIssues(r, f)
    BY <1>2, <1>3 DEF Second!OrphanIssues, OrphanIssues
  <2>3. \A r, f : Second!LeftoverIssues(r, f) = LeftoverIssues(r, f)
    BY <1>2, <1>3 DEF Second!LeftoverIssues, LeftoverIssues, Second!FsLeftovers,
       FsLeftovers, Second!SeenDigests, SeenDigests
  <2> QED BY <2>1, <2>2, <2>3 DEF Second!Classify, Classify
<1>5. \A i : Second!PlannedOps(i) = PlannedOps(i)
  BY DEF Second!PlannedOps, PlannedOps, Second!ToCleanOp, ToCleanOp,
         Second!Eligible, Eligible, Second!InternalGarbage, InternalGarbage,
         Second!RealFailures, RealFailures, Second!RepoScoped, RepoScoped
<1>6. \A o : Second!QueueOp(o) = QueueOp(o)
  BY DEF Second!QueueOp, QueueOp, Second!NeedsSrem, NeedsSrem, Second!Srem, Srem,
         Second!Del, Del, Second!Hdel, Hdel
<1>7. Second!NeedsSrem = NeedsSrem
  BY DEF Second!NeedsSrem, NeedsSrem
<1> QED BY <1>1, <1>2, <1>4, <1>5, <1>6, <1>7

LEMMA SameShrinking ==
    /\ \A r, s : Second!Shrunk(r, s) <=> Shrunk(r, s)
    /\ \A r, s, d : Second!SameKeys(r, s, d) <=> SameKeys(r, s, d)
BY DEF Second!Shrunk, Shrunk, Second!SameKeys, SameKeys, Second!Pair, Pair

-----------------------------------------------------------------------------
(***************************************************************************)
(* A step of module Overlap is a step of one of the calls.                 *)
(***************************************************************************)

LEMMA SecondPlans == Other!Plan => Second!Plan
<1>1. \A r, f : Other!Classify(r, f) = Second!Classify(r, f)
  BY DEF Other!Pairs, Second!Pairs, Other!PairCategory, Second!PairCategory,
         Other!GlobalValid, Second!GlobalValid, Other!RedisSize,
         Second!RedisSize, Other!GlobalOrphans, Second!GlobalOrphans,
         Other!ReferencedDigests, Second!ReferencedDigests, Other!MkIssue,
         Second!MkIssue, Other!PairIssues, Second!PairIssues,
         Other!OrphanIssues, Second!OrphanIssues, Other!LeftoverIssues,
         Second!LeftoverIssues, Other!FsLeftovers, Second!FsLeftovers,
         Other!SeenDigests, Second!SeenDigests, Other!Classify, Second!Classify
<1>2. \A S : Other!SetToSeqs(S) = Second!SetToSeqs(S)
  <2>1. \A S : Other!Cardinality(S) = Second!Cardinality(S)
    BY DEF Other!Cardinality, Second!Cardinality, Other!IsFiniteSet, Second!IsFiniteSet
  <2> QED BY <2>1 DEF Other!SetToSeqs, Second!SetToSeqs
<1>3. \A i : Other!PlannedOps(i) = Second!PlannedOps(i)
  BY DEF Other!PlannedOps, Second!PlannedOps, Other!ToCleanOp, Second!ToCleanOp,
         Other!Eligible, Second!Eligible, Other!InternalGarbage,
         Second!InternalGarbage, Other!RealFailures, Second!RealFailures,
         Other!RepoScoped, Second!RepoScoped
<1>4. \A i : Other!Plans(i) = Second!Plans(i)
  <2> SUFFICES ASSUME NEW i PROVE Other!Plans(i) = Second!Plans(i)
    OBVIOUS
  <2> DEFINE Orphans(P) == {o \in P : o.category = "C1"}
             Orders(P) == {u \o v : u \in Other!SetToSeqs(P \ Orphans(P)),
                                    v \in Other!SetToSeqs(Orphans(P))}
             Orders2(P) == {u \o v : u \in Second!SetToSeqs(P \ Orphans(P)),
                                     v \in Second!SetToSeqs(Orphans(P))}
  <2>1. Other!Plans(i) = Orders(Other!PlannedOps(i))
    BY DEF Other!Plans
  <2>2. Second!Plans(i) = Orders2(Second!PlannedOps(i))
    BY DEF Second!Plans
  <2>3. Orders(Second!PlannedOps(i)) = Orders2(Second!PlannedOps(i))
    <3> DEFINE P == Second!PlannedOps(i)
               Cat(A, B) == {u \o v : u \in A, v \in B}
    <3>1. /\ Other!SetToSeqs(P \ Orphans(P)) = Second!SetToSeqs(P \ Orphans(P))
          /\ Other!SetToSeqs(Orphans(P)) = Second!SetToSeqs(Orphans(P))
      BY <1>2
    <3>2. /\ Orders(P) = Cat(Other!SetToSeqs(P \ Orphans(P)),
                             Other!SetToSeqs(Orphans(P)))
          /\ Orders2(P) = Cat(Second!SetToSeqs(P \ Orphans(P)),
                              Second!SetToSeqs(Orphans(P)))
      OBVIOUS
    <3> HIDE DEF Cat, Orphans, P, Orders, Orders2
    <3>3. Orders(P) = Orders2(P)
      BY <3>1, <3>2
    <3> QED BY <3>3 DEF P
  <2> HIDE DEF Orders, Orders2
  <2> QED BY <1>3, <2>1, <2>2, <2>3
<1> QED BY <1>1, <1>4 DEF Other!Plan, Second!Plan, Other!NothingToExecute,
                          Second!NothingToExecute, Other!call, Second!call,
                          Other!report, Second!report

LEMMA SecondServes ==
    ASSUME NEW n, Other!Serve(n)
    PROVE  Second!Serve(n)
BY DEF Other!Serve, Second!Serve, Other!Drained, Second!Drained, Other!QueueOp,
       Second!QueueOp, Other!NeedsSrem, Second!NeedsSrem, Other!Srem,
       Second!Srem, Other!Del, Second!Del, Other!Hdel, Second!Hdel, Other!Exec,
       Second!Exec, Other!local, Second!local, Other!call, Second!call,
       Other!report, Second!report

LEMMA SecondReturns ==
    \/ Other!Send \/ Other!ExecuteOk \/ Other!ExecuteErrorRetry
    \/ Other!ExecuteErrorGiveUp \/ Other!Abort
    => \/ Second!Send \/ Second!ExecuteOk \/ Second!ExecuteErrorRetry
       \/ Second!ExecuteErrorGiveUp \/ Second!Abort
BY DEF Other!Send, Second!Send, Other!ExecuteOk, Second!ExecuteOk,
       Other!ExecuteErrorRetry, Second!ExecuteErrorRetry,
       Other!ExecuteErrorGiveUp, Second!ExecuteErrorGiveUp, Other!Abort,
       Second!Abort, Other!MaxAttempts, Second!MaxAttempts, Other!MayRetry,
       Second!MayRetry, Other!Pipeline, Second!Pipeline, Other!ChunkEnd,
       Second!ChunkEnd, Other!ChunkLen, Second!ChunkLen, Other!NextChunk,
       Second!NextChunk, Other!Drained, Second!Drained, Other!call, Second!call,
       Other!report, Second!report

LEMMA SecondRegistry == Other!Registry => Second!Registry
<1>1. \A r, u : Other!RegistryWrite(r, u) <=> Second!RegistryWrite(r, u)
  BY DEF Other!RegistryWrite, Second!RegistryWrite, Other!local, Second!local,
         Other!call, Second!call, Other!report, Second!report
<1>2. \A r, c : Other!Exec(r, c) = Second!Exec(r, c)
  BY DEF Other!Exec, Second!Exec
<1>3. /\ \A p : Other!RegistrySadd(p) <=> Second!RegistrySadd(p)
      /\ \A p : Other!RegistryHset(p) <=> Second!RegistryHset(p)
      /\ \A d, s : Other!RegistryHmset(d, s) <=> Second!RegistryHmset(d, s)
      /\ \A d : Other!RegistryHsetnx(d) <=> Second!RegistryHsetnx(d)
      /\ \A c : Other!RegistryClear(c) <=> Second!RegistryClear(c)
  BY <1>1, <1>2
     DEF Other!RegistrySadd, Second!RegistrySadd, Other!RegistryHmset,
         Second!RegistryHmset, Other!RegistryHsetnx, Second!RegistryHsetnx,
         Other!RegistryHset, Second!RegistryHset, Other!RegistryClear,
         Second!RegistryClear, Other!Srem, Second!Srem, Other!Del, Second!Del,
         Other!Hdel, Second!Hdel, Other!Sadd, Second!Sadd, Other!Hmset,
         Second!Hmset, Other!Hsetnx, Second!Hsetnx, Other!Hset, Second!Hset
<1> QED BY <1>3 DEF Other!Registry, Second!Registry, Other!Pair, Second!Pair,
                    Other!Command, Second!Command

LEMMA SecondStep == Other!Next => Second!Next
BY SecondPlans, SecondServes, SecondReturns, SecondRegistry
   DEF Other!Next, Second!Next

\* A write of the registry belongs to neither call; until the second process
\* scans, that is all that its part of OverlapNext allows.
LEMMA RegistryIsShared ==
    ASSUME Other!Registry, UNCHANGED <<local, wire, scan2>>
    PROVE  Registry /\ UNCHANGED second
<1>1. \A r, u : Other!RegistryWrite(r, u) =>
                  RegistryWrite(r, u) /\ UNCHANGED second
  BY DEF Other!RegistryWrite, RegistryWrite, Other!local, local, Other!call,
         call, Other!report, report, second, scan2, call2
<1>2. \A r, c : Other!Exec(r, c) = Exec(r, c)
  BY DEF Other!Exec, Exec
<1>3. /\ \A p : Other!RegistrySadd(p) => RegistrySadd(p) /\ UNCHANGED second
      /\ \A p : Other!RegistryHset(p) => RegistryHset(p) /\ UNCHANGED second
      /\ \A d, s : Other!RegistryHmset(d, s) =>
                      RegistryHmset(d, s) /\ UNCHANGED second
      /\ \A d : Other!RegistryHsetnx(d) => RegistryHsetnx(d) /\ UNCHANGED second
      /\ \A c : Other!RegistryClear(c) => RegistryClear(c) /\ UNCHANGED second
  BY <1>1, <1>2
     DEF Other!RegistrySadd, RegistrySadd, Other!RegistryHmset, RegistryHmset,
         Other!RegistryHsetnx, RegistryHsetnx, Other!RegistryHset, RegistryHset,
         Other!RegistryClear, RegistryClear, Other!Srem, Srem, Other!Del, Del,
         Other!Hdel, Hdel, Other!Sadd, Sadd, Other!Hmset, Hmset, Other!Hsetnx,
         Hsetnx, Other!Hset, Hset
<1> QED BY <1>3 DEF Other!Registry, Registry, Other!Pair, Pair, Other!Command,
                    Command

LEMMA IdleStep ==
    ASSUME pc2 = "idle", wire2 = <<>>, Other!Next
    PROVE  Other!Registry
<1>1. 1 .. Len(wire2) = {}
  OBVIOUS
<1> QED BY <1>1 DEF Other!Next, Other!Plan, Other!Send, Other!ExecuteOk,
                    Other!ExecuteErrorRetry, Other!ExecuteErrorGiveUp, Other!Abort

-----------------------------------------------------------------------------
(***************************************************************************)
(* The second process's scan.                                              *)
(***************************************************************************)

\* The scan in progress: a pass looks at keys of its own.
LookInv ==
    /\ snapshot2 \in RedisState
    /\ scan_pc \in DOMAIN Looking!NextPass => todo \subseteq Looking!KeysOf(scan_pc)

LEMMA SameKeysLooked ==
    /\ Looking!Pair = Pair
    /\ \A r, d : Looking!RedisSize(r, d) = RedisSize(r, d)
    /\ \A d \in Digests : Looking!Exists(d) <=> redis.global_blobs[d] # NoKey
    /\ \A repo \in Repos : Looking!Exists(repo) <=>
          \E d \in Digests : <<repo, d>> \in redis.repo_blob_sets
    /\ \A p \in Pair : Looking!Exists(p) <=> p \in redis.repo_blob_hashes
<1>1. Looking!Pair = Pair
  BY DEF Looking!Pair, Pair
<1>2. \A r, d : Looking!RedisSize(r, d) = RedisSize(r, d)
  BY DEF Looking!RedisSize, RedisSize
<1>3. /\ \A d \in Digests : d \notin Repos /\ d \notin Pair
      /\ \A repo \in Repos : repo \notin Digests /\ repo \notin Pair
      /\ \A p \in Pair : p \notin Repos /\ p \notin Digests
  BY KeyShapes
<1> QED BY <1>1, <1>2, <1>3 DEF Looking!Exists

LEMMA Passes ==
    /\ DOMAIN Looking!NextPass = {"globals", "repos", "hmget", "hget", "smembers"}
    /\ Looking!NextPass["globals"] = "repos" /\ Looking!NextPass["repos"] = "hmget"
    /\ Looking!NextPass["hmget"] = "hget" /\ Looking!NextPass["hget"] = "smembers"
    /\ Looking!NextPass["smembers"] = "done"
    /\ Looking!KeysOf("globals") = Digests
    /\ Looking!KeysOf("repos") = Repos \union Pair
    /\ Looking!KeysOf("hmget") = found \intersect Digests
    /\ Looking!KeysOf("hget") = found \intersect Pair
    /\ Looking!KeysOf("smembers") = found \intersect Repos
    /\ Looking!KeysOf("done") = {}
BY SameKeysLooked DEF Looking!NextPass, Looking!KeysOf, Looking!RepositoryKeys

\* The steps of the scan.
Scans(k) ==
    /\ scan_pc \in {"globals", "repos"}
    /\ found' = IF Looking!Exists(k) THEN found \union {k} ELSE found
    /\ snapshot2' = snapshot2

FetchesGlobal(d) ==
    /\ scan_pc = "hmget" /\ d \in found \intersect Digests
    /\ snapshot2' = [snapshot2 EXCEPT !.global_blobs[d] = RedisSize(redis, d)]

FetchesHash(p) ==
    /\ scan_pc = "hget" /\ p \in found \intersect Pair
    /\ snapshot2' = [snapshot2 EXCEPT !.repo_blob_hashes = @ \union {p}]

FetchesSet(repo) ==
    /\ scan_pc = "smembers" /\ repo \in found \intersect Repos
    /\ snapshot2' = [snapshot2 EXCEPT !.repo_blob_sets =
                        @ \union {p \in redis.repo_blob_sets : p[1] = repo}]

EndsPass ==
    \/ scan_pc = "globals" /\ scan_pc' = "repos" /\ todo' = Repos \union Pair
    \/ scan_pc = "repos" /\ scan_pc' = "hmget" /\ todo' = found \intersect Digests
    \/ scan_pc = "hmget" /\ scan_pc' = "hget" /\ todo' = found \intersect Pair
    \/ scan_pc = "hget" /\ scan_pc' = "smembers" /\ todo' = found \intersect Repos
    \/ scan_pc = "smembers" /\ scan_pc' = "done"

LEMMA LookSteps ==
    ASSUME LookInv, Looking!ScanRedis \/ Looking!ScanError
    PROVE  \/ \E k \in todo :
                 /\ scan_pc' = scan_pc /\ todo' = todo \ {k}
                 /\ \/ Scans(k)
                    \/ /\ found' = found
                       /\ FetchesGlobal(k) \/ FetchesHash(k) \/ FetchesSet(k)
           \/ EndsPass /\ todo = {} /\ found' = found /\ snapshot2' = snapshot2
           \/ scan_pc' = "failed" /\ found' = found /\ snapshot2' = snapshot2
<1>1. ASSUME NEW k \in todo, Looking!ScanKey(k)
      PROVE  scan_pc' = scan_pc /\ todo' = todo \ {k} /\ Scans(k)
  BY <1>1 DEF Looking!ScanKey, Looking!Ticks, Scans
<1>2. ASSUME NEW k \in todo, Looking!FetchGlobal(k)
      PROVE  /\ scan_pc' = scan_pc /\ todo' = todo \ {k} /\ found' = found
             /\ FetchesGlobal(k)
  <2>1. /\ scan_pc = "hmget" /\ scan_pc' = scan_pc /\ todo' = todo \ {k}
        /\ found' = found
    BY <1>2 DEF Looking!FetchGlobal, Looking!Ticks
  <2>2. snapshot2' = [snapshot2 EXCEPT !.global_blobs[k] = RedisSize(redis, k)]
    BY <1>2, SameKeysLooked DEF Looking!FetchGlobal, Looking!Fetched
  <2> QED BY <2>1, <2>2, Passes DEF LookInv, FetchesGlobal
<1>3. ASSUME NEW k \in todo, Looking!FetchRepoHash(k)
      PROVE  /\ scan_pc' = scan_pc /\ todo' = todo \ {k} /\ found' = found
             /\ FetchesHash(k)
  BY <1>3, Passes DEF Looking!FetchRepoHash, Looking!Ticks, LookInv, FetchesHash
<1>4. ASSUME NEW k \in todo, Looking!FetchRepoSet(k)
      PROVE  /\ scan_pc' = scan_pc /\ todo' = todo \ {k} /\ found' = found
             /\ FetchesSet(k)
  BY <1>4, Passes DEF Looking!FetchRepoSet, Looking!Ticks, LookInv, FetchesSet
<1>5. ASSUME Looking!EndPass
      PROVE  EndsPass /\ todo = {} /\ found' = found /\ snapshot2' = snapshot2
  <2>1. /\ todo = {} /\ scan_pc \in DOMAIN Looking!NextPass
        /\ scan_pc' = Looking!NextPass[scan_pc] /\ todo' = Looking!KeysOf(scan_pc')
        /\ found' = found /\ snapshot2' = snapshot2
    BY <1>5 DEF Looking!EndPass
  <2> QED BY <2>1, Passes DEF EndsPass
<1>6. ASSUME Looking!ScanError
      PROVE  scan_pc' = "failed" /\ found' = found /\ snapshot2' = snapshot2
  BY <1>6 DEF Looking!ScanError
<1> QED BY <1>1, <1>2, <1>3, <1>4, <1>5, <1>6 DEF Looking!ScanRedis

\* What a step of it makes of the snapshot.
LEMMA Fetches ==
    ASSUME redis \in RedisState, snapshot2 \in RedisState, NEW k
    PROVE  /\ FetchesGlobal(k) =>
                 /\ snapshot2' \in RedisState
                 /\ snapshot2'.repo_blob_sets = snapshot2.repo_blob_sets
                 /\ snapshot2'.repo_blob_hashes = snapshot2.repo_blob_hashes
                 /\ \A d \in Digests : snapshot2'.global_blobs[d] =
                       IF d = k THEN RedisSize(redis, d) ELSE snapshot2.global_blobs[d]
           /\ FetchesHash(k) =>
                 /\ snapshot2' \in RedisState
                 /\ snapshot2'.global_blobs = snapshot2.global_blobs
                 /\ snapshot2'.repo_blob_sets = snapshot2.repo_blob_sets
                 /\ snapshot2'.repo_blob_hashes = snapshot2.repo_blob_hashes \union {k}
           /\ FetchesSet(k) =>
                 /\ snapshot2' \in RedisState
                 /\ snapshot2'.global_blobs = snapshot2.global_blobs
                 /\ snapshot2'.repo_blob_hashes = snapshot2.repo_blob_hashes
                 /\ snapshot2'.repo_blob_sets = snapshot2.repo_blob_sets
                       \union {p \in redis.repo_blob_sets : p[1] = k}
<1>1. ASSUME FetchesGlobal(k)
      PROVE  /\ snapshot2' \in RedisState
             /\ snapshot2'.repo_blob_sets = snapshot2.repo_blob_sets
             /\ snapshot2'.repo_blob_hashes = snapshot2.repo_blob_hashes
             /\ \A d \in Digests : snapshot2'.global_blobs[d] =
                   IF d = k THEN RedisSize(redis, d) ELSE snapshot2.global_blobs[d]
  <2>1. RedisSize(redis, k) \in GlobalBlob
    BY <1>1 DEF FetchesGlobal, RedisSize, RedisState, GlobalBlob
  <2> QED BY <1>1, <2>1 DEF FetchesGlobal, RedisState
<1>2. ASSUME FetchesHash(k)
      PROVE  /\ snapshot2' \in RedisState
             /\ snapshot2'.global_blobs = snapshot2.global_blobs
             /\ snapshot2'.repo_blob_sets = snapshot2.repo_blob_sets
             /\ snapshot2'.repo_blob_hashes = snapshot2.repo_blob_hashes \union {k}
  BY <1>2 DEF FetchesHash, RedisState
<1>3. ASSUME FetchesSet(k)
      PROVE  /\ snapshot2' \in RedisState
             /\ snapshot2'.global_blobs = snapshot2.global_blobs
             /\ snapshot2'.repo_blob_hashes = snapshot2.repo_blob_hashes
             /\ snapshot2'.repo_blob_sets = snapshot2.repo_blob_sets
                   \union {p \in redis.repo_blob_sets : p[1] = k}
  <2> DEFINE members == {p \in redis.repo_blob_sets : p[1] = k}
  <2>1. members \subseteq Pair
    BY DEF RedisState
  <2>2. snapshot2' = [snapshot2 EXCEPT !.repo_blob_sets = @ \union members]
    BY <1>3 DEF FetchesSet
  <2> HIDE DEF members
  <2>3. /\ snapshot2' \in RedisState
        /\ snapshot2'.global_blobs = snapshot2.global_blobs
        /\ snapshot2'.repo_blob_hashes = snapshot2.repo_blob_hashes
        /\ snapshot2'.repo_blob_sets = snapshot2.repo_blob_sets \union members
    BY <2>1, <2>2 DEF RedisState
  <2> QED BY <2>3 DEF members
<1> QED BY <1>1, <1>2, <1>3

LEMMA LookStep ==
    ASSUME LookInv, redis \in RedisState, Looking!ScanRedis \/ Looking!ScanError
    PROVE  LookInv'
<1>1. snapshot2' \in RedisState
  BY LookSteps, Fetches DEF LookInv, Scans
<1>2. CASE Looking!EndPass
  <2>1. todo' = Looking!KeysOf(scan_pc') /\ found' = found
    BY <1>2 DEF Looking!EndPass
  <2> QED BY <1>1, <2>1 DEF LookInv, Looking!KeysOf
<1>3. CASE Looking!ScanError
  BY <1>1, <1>3, Passes DEF Looking!ScanError, LookInv
<1>4. CASE \E k \in todo : \/ Looking!ScanKey(k) \/ Looking!FetchGlobal(k)
                          \/ Looking!FetchRepoHash(k) \/ Looking!FetchRepoSet(k)
  <2>1. scan_pc' = scan_pc /\ todo' \subseteq todo /\ found \subseteq found'
    BY <1>4 DEF Looking!ScanKey, Looking!FetchGlobal, Looking!FetchRepoHash,
                Looking!FetchRepoSet, Looking!Ticks
  <2>2. Looking!KeysOf(scan_pc) \subseteq Looking!KeysOf(scan_pc)'
    BY <2>1 DEF Looking!KeysOf
  <2> QED BY <1>1, <2>1, <2>2 DEF LookInv
<1> QED BY <1>2, <1>3, <1>4 DEF Looking!ScanRedis

-----------------------------------------------------------------------------
(***************************************************************************)
(* Each call's invariant, beside the other call.                           *)
(***************************************************************************)

SecondIdle ==
    /\ LookInv
    /\ ops2 = <<>> /\ start2 = 1 /\ attempts2 = 0
    /\ applied2 = 0 /\ retried2 = 0 /\ failures2 = <<>>
    /\ wire2 = <<>>

SecondInv == IF pc2 = "idle" THEN SecondIdle
                             ELSE Second!IInv /\ Second!CompleteInv

BothInv == IInv /\ CompleteInv /\ ~dry_run /\ SecondInv

LEMMA BothInit == OverlapInit => BothInv
<1> SUFFICES ASSUME OverlapInit PROVE BothInv
  OBVIOUS
<1>1. IInv /\ CompleteInv
  BY InitIInv DEF OverlapInit, Init, CompleteInv
<1>2. LookInv
  <2>1. scan_pc = "globals" /\ todo = Looking!KeysOf("globals")
    BY DEF OverlapInit, Looking!ThreadInit
  <2>2. snapshot2 \in RedisState
    BY DEF OverlapInit, Looking!ThreadInit, Looking!EmptyRedis, RedisState, GlobalBlob
  <2> QED BY <2>1, <2>2 DEF LookInv
<1> QED BY <1>1, <1>2 DEF OverlapInit, BothInv, SecondInv, SecondIdle

LEMMA BothFirst ==
    ASSUME BothInv, [Next]_vars, UNCHANGED second
    PROVE  BothInv'
<1>1. IInv' /\ CompleteInv'
  BY IInvStep, CompleteStep DEF BothInv
<1>2. UNCHANGED call
  BY RegistryKeeps DEF BothInv, IInv, Next, Plan, Send, Serve, ExecuteOk,
     ExecuteErrorRetry, ExecuteErrorGiveUp, Abort, vars, local
<1>3. Second!WorldKeeps
  BY CallKeeps, SameWorld DEF BothInv
<1>4. UNCHANGED <<Second!local, wire2, Second!call>>
  BY <1>2 DEF second, scan2, call2, call, Second!local, Second!call, Second!report
<1>5. CASE pc2 = "idle"
  <2>1. UNCHANGED <<scan_pc, todo, found, snapshot2>> /\ UNCHANGED call2
    BY DEF second, scan2
  <2>2. SecondIdle
    BY <1>5 DEF BothInv, SecondInv
  <2>3. LookInv'
    BY <2>1, <2>2 DEF SecondIdle, LookInv, Looking!KeysOf
  <2> QED BY <1>1, <1>2, <1>5, <2>1, <2>2, <2>3
          DEF BothInv, SecondInv, SecondIdle, call, call2
<1>6. CASE pc2 # "idle"
  <2>1. Second!IInv /\ Second!CompleteInv
    BY <1>6 DEF BothInv, SecondInv
  <2>2. Second!IInv'
    BY <1>3, <1>4, <2>1, Second!BesideStep, SecondAssumptions
  <2>3. Second!CompleteInv'
    <3>1. Second!PlannedOps(Second!Issues)' = Second!PlannedOps(Second!Issues)
      BY <1>4, Second!PlannedStay, SecondAssumptions
    <3> QED BY <2>1, <3>1 DEF Second!CompleteInv, second, call2
  <2>4. pc2' # "idle" /\ ~dry_run'
    BY <1>2, <1>6 DEF second, call2, call, BothInv
  <2> QED BY <1>1, <2>2, <2>3, <2>4 DEF BothInv, SecondInv
<1> QED BY <1>5, <1>6

LEMMA BothSecond ==
    ASSUME BothInv, Other!Next, UNCHANGED <<local, wire, scan2>>
    PROVE  BothInv'
<1>1. CASE Other!Registry
  BY <1>1, RegistryIsShared, BothFirst DEF Next
<1>2. CASE ~Other!Registry
  <2>1. pc2 # "idle"
    BY <1>2, IdleStep DEF BothInv, SecondInv, SecondIdle
  <2>2. Second!IInv /\ Second!CompleteInv
    BY <2>1 DEF BothInv, SecondInv
  <2>3. Second!Next
    BY SecondStep
  <2>4. Second!IInv' /\ Second!CompleteInv' /\ Second!WorldKeeps
    BY <2>2, <2>3, Second!IInvStep, Second!CompleteStep, Second!CallKeeps,
       SecondAssumptions
  <2>5. IInv'
    BY <2>4, SameWorld, BesideStep DEF BothInv
  <2>6. UNCHANGED <<call, pc, ops>>
    BY DEF local
  <2>7. CompleteInv'
    BY <2>6, PlannedStay DEF CompleteInv, BothInv
  <2>8. pc2' # "idle"
    BY <2>4 DEF Second!IInv, Second!TypeOK
  <2> QED BY <2>4, <2>5, <2>6, <2>7, <2>8 DEF BothInv, SecondInv, call
<1> QED BY <1>1, <1>2

LEMMA BothScans == BothInv /\ SecondScans => BothInv'
<1> SUFFICES ASSUME BothInv, SecondScans PROVE BothInv'
  OBVIOUS
<1>1. UNCHANGED vars /\ UNCHANGED call2 /\ pc2 = "idle"
  BY DEF SecondScans
<1>2. IInv' /\ CompleteInv' /\ ~dry_run'
  BY <1>1, IInvStep, CompleteStep DEF BothInv, vars, local, call
<1>3. LookInv /\ redis \in RedisState
  BY <1>1 DEF BothInv, SecondInv, SecondIdle, IInv, TypeOK
<1>4. LookInv'
  BY <1>3, LookStep DEF SecondScans
<1> QED BY <1>1, <1>2, <1>4 DEF BothInv, SecondInv, SecondIdle, call2

LEMMA BothCleans == BothInv /\ SecondCleans => BothInv'
<1> SUFFICES ASSUME BothInv, SecondCleans PROVE BothInv'
  OBVIOUS
<1>1. UNCHANGED vars /\ pc2 = "idle" /\ pc2' = "plan" /\ snapshot2' = snapshot2
      /\ UNCHANGED <<ops2, start2, attempts2, applied2, retried2, failures2, wire2>>
  BY DEF SecondCleans, scan2
<1>2. BothInv /\ IInv' /\ CompleteInv' /\ ~dry_run'
  BY <1>1, IInvStep, CompleteStep DEF BothInv, vars, local, call
<1>3. Second!IInv' /\ Second!CompleteInv'
  <2>1. /\ redis' \in Second!RedisState /\ fs' \in Second!FsState
        /\ rewritten' \subseteq Second!Command
        /\ dry_run' \in BOOLEAN /\ clear_internal_garbage' \in BOOLEAN
        /\ writes' \in 0 .. MaxWrites
    BY <1>2, SameCommands DEF IInv, TypeOK
  <2>2. SecondIdle
    BY <1>1 DEF BothInv, SecondInv
  <2>3. snapshot2' \in Second!RedisState
    BY <1>1, <2>2, SameCommands DEF SecondIdle, LookInv
  <2> QED BY <1>1, <2>1, <2>2, <2>3, Second!FreshCall, SecondAssumptions
          DEF SecondIdle
<1> QED BY <1>1, <1>2, <1>3 DEF BothInv, SecondInv

LEMMA BothStep == BothInv /\ [OverlapNext]_<<vars, second>> => BothInv'
<1> SUFFICES ASSUME BothInv, [OverlapNext]_<<vars, second>> PROVE BothInv'
  OBVIOUS
<1>1. CASE UNCHANGED <<vars, second>>
  BY <1>1, BothFirst
<1> QED BY <1>1, BothFirst, BothSecond, BothScans, BothCleans DEF OverlapNext

LEMMA BothInductive == OverlapSpec => []BothInv
BY BothInit, BothStep, PTL DEF OverlapSpec

-----------------------------------------------------------------------------
\* The types of both calls.
THEOREM OverlapTypeCorrect == OverlapSpec => []OverlapTypeOK
<1>1. BothInv => OverlapTypeOK
  <2>1. Second!TypeOK => Other!TypeOK
    BY DEF Other!TypeOK, Second!TypeOK, Other!RedisState, Second!RedisState,
           Other!GlobalBlob, Second!GlobalBlob, Other!Pair, Second!Pair,
           Other!FsState, Second!FsState, Other!CleanOp, Second!CleanOp,
           Other!InternalGarbage, Second!InternalGarbage, Other!RealFailures,
           Second!RealFailures, Other!MaxAttempts, Second!MaxAttempts,
           Other!PipelineType, Second!PipelineType, Other!Command,
           Second!Command
  <2>2. BothInv => snapshot2 \in RedisState
    BY SameCommands DEF BothInv, SecondInv, SecondIdle, LookInv, Second!IInv,
                        Second!TypeOK
  <2> QED BY <2>1, <2>2 DEF BothInv, SecondInv, IInv, Second!IInv, OverlapTypeOK
<1> QED BY <1>1, BothInductive, PTL

\* Whatever the other call does in between, and whatever the registry writes:
\* an op that either report counts as applied has its keys gone, or the
\* registry has written them since.
THEOREM BothReportsAreEffective == OverlapSpec => []BothAppliedAreGone
<1>1. BothInv => BothAppliedAreGone
  <2> SUFFICES ASSUME BothInv PROVE BothAppliedAreGone
    OBVIOUS
  <2>1. CASE pc2 = "idle"
    <3>1. ops2 = <<>>
      BY <2>1 DEF BothInv, SecondInv, SecondIdle
    <3>2. Other!AppliedIsGone
      BY <3>1 DEF Other!AppliedIsGone
    <3> QED BY <3>2 DEF BothInv, IInv, BothAppliedAreGone
  <2>2. CASE pc2 # "idle"
    <3>1. Second!AppliedIsGone
      BY <2>2 DEF BothInv, SecondInv, Second!IInv
    <3>2. /\ \A o : Other!QueueOp(o) = Second!QueueOp(o)
          /\ \A r, c : Other!Gone(r, c) = Second!Gone(r, c)
          /\ \A f : Other!Range(f) = Second!Range(f)
      BY DEF Other!QueueOp, Second!QueueOp, Other!NeedsSrem, Second!NeedsSrem,
             Other!Srem, Second!Srem, Other!Del, Second!Del, Other!Hdel,
             Second!Hdel, Other!Gone, Second!Gone, Other!Range, Second!Range
    <3>3. Other!AppliedIsGone
      BY <3>1, <3>2 DEF Other!AppliedIsGone, Second!AppliedIsGone
    <3> QED BY <3>3 DEF BothInv, IInv, BothAppliedAreGone
  <2> QED BY <2>1, <2>2
<1> QED BY <1>1, BothInductive, PTL

-----------------------------------------------------------------------------
(***************************************************************************)
(* A quiet registry.                                                       *)
(***************************************************************************)

\* One of the scans has found p to be no longer whole.
Unwhole(p) ==
    \/ PairCategory(snapshot, fs, p) # "OK"
    \/ /\ pc2 # "idle"
       /\ p \in snapshot2.repo_blob_sets
       /\ PairCategory(snapshot2, fs, p) # "OK"

\* What the scan in progress has seen, the first one has seen before it.
Seen ==
    /\ \A d \in found \intersect Digests : snapshot.global_blobs[d] # NoKey
    /\ found \intersect Pair \subseteq snapshot.repo_blob_hashes
    /\ snapshot2.repo_blob_sets \subseteq snapshot.repo_blob_sets
    /\ snapshot2.repo_blob_hashes \subseteq snapshot.repo_blob_hashes
    /\ \A d \in Digests : snapshot2.global_blobs[d] # NoKey =>
          snapshot.global_blobs[d] # NoKey

\* What is still there is still to be looked at, or has been found, or is in
\* its snapshot.
GlobalsCovered ==
    \A d \in Digests : redis.global_blobs[d] # NoKey =>
        /\ scan_pc = "globals" => d \in todo \union found
        /\ scan_pc = "repos" => d \in found
        /\ scan_pc = "hmget" =>
              d \in todo \/ snapshot2.global_blobs[d] = redis.global_blobs[d]
        /\ scan_pc \in {"hget", "smembers", "done"} =>
              snapshot2.global_blobs[d] = redis.global_blobs[d]

HashesCovered ==
    \A p \in redis.repo_blob_hashes :
        /\ scan_pc = "repos" => p \in todo \union found
        /\ scan_pc = "hmget" => p \in found
        /\ scan_pc = "hget" => p \in todo \union snapshot2.repo_blob_hashes
        /\ scan_pc \in {"smembers", "done"} => p \in snapshot2.repo_blob_hashes

SetsCovered ==
    \A p \in redis.repo_blob_sets :
        /\ scan_pc = "repos" => p[1] \in todo \union found
        /\ scan_pc \in {"hmget", "hget"} => p[1] \in found
        /\ scan_pc = "smembers" => p[1] \in todo \/ p \in snapshot2.repo_blob_sets
        /\ scan_pc = "done" => p \in snapshot2.repo_blob_sets

Covered == GlobalsCovered /\ HashesCovered /\ SetsCovered

QuietlyShared ==
    /\ rewritten = {}
    /\ Shrunk(redis, snapshot) /\ PrefixInv
    /\ \A d \in Digests \ Condemned : SameKeys(redis, snapshot, d)
    /\ \A p \in snapshot.repo_blob_sets \ redis.repo_blob_sets : Unwhole(p)
    /\ pc2 = "idle" => Seen /\ Covered
    /\ pc2 # "idle" =>
         /\ Shrunk(redis, snapshot2) /\ Second!PrefixInv
         /\ \A d \in Digests \ Condemned : SameKeys(snapshot2, snapshot, d)

LEMMA SameKeysTwice ==
    ASSUME NEW r, NEW s, NEW t, NEW d, SameKeys(r, s, d), SameKeys(s, t, d)
    PROVE  SameKeys(r, t, d)
BY DEF SameKeys

\* The second scan condemns nothing that the first one does not: the digests
\* that the first one leaves alone look the same to both.
LEMMA SecondCondemns ==
    ASSUME BothInv, QuietlyShared, pc2 # "idle",
           NEW o \in PlannedOps(Second!Issues)
    PROVE  o.digest \in Condemned
<1>1. PICK i \in Classify(snapshot2, fs) :
         /\ o = ToCleanOp(i) /\ i.category \in Eligible
         /\ ~(i.category \in RepoScoped /\ i.repo = None)
  BY SamePlans DEF PlannedOps, Second!Issues
<1>2. snapshot \in RedisState /\ snapshot2 \in RedisState /\ fs \in FsState
  BY SameCommands DEF BothInv, SecondInv, IInv, TypeOK, Second!IInv, Second!TypeOK
<1>3. i.digest \in Digests /\ o.digest = i.digest
  BY <1>1, <1>2, ClassifyType DEF Issue, ToCleanOp
<1> SUFFICES ASSUME o.digest \notin Condemned PROVE FALSE
  OBVIOUS
<1>4. SameKeys(snapshot2, snapshot, i.digest)
  BY <1>3 DEF QuietlyShared
<1>5. i \in Classify(snapshot, fs)
  BY <1>2, <1>3, <1>4, IssuesAreLocal DEF SameKeys
<1>6. o \in PlannedOps(Issues)
  BY <1>1, <1>5 DEF PlannedOps, Issues
<1> QED BY <1>6 DEF Condemned, BothInv

\* As Redis shrinks, no more is left to be seen.
LEMMA CoveredLasts ==
    ASSUME Covered, Shrunk(redis', redis), UNCHANGED <<scan_pc, todo, found, snapshot2>>
    PROVE  Covered'
<1>1. GlobalsCovered'
  BY DEF Covered, GlobalsCovered, Shrunk
<1>2. HashesCovered' /\ SetsCovered'
  BY DEF Covered, HashesCovered, SetsCovered, Shrunk
<1> QED BY <1>1, <1>2 DEF Covered

LEMMA QuietFirst ==
    ASSUME BothInv, QuietlyShared, [Next]_vars, UNCHANGED second, writes' = writes
    PROVE  QuietlyShared'
<1>1. /\ Shrunk(redis', redis) /\ PrefixInv'
      /\ UNCHANGED <<call, rewritten>>
      /\ \A p \in redis.repo_blob_sets \ redis'.repo_blob_sets :
            PairCategory(snapshot, fs, p) \in NeedsSrem
      /\ \A d \in Digests : ~SameKeys(redis', redis, d) =>
            ~dry_run /\ \E o \in PlannedOps(Issues) : o.digest = d
  BY QuietCall DEF BothInv, QuietlyShared
<1>2. UNCHANGED <<snapshot, fs, dry_run, Condemned>>
  BY <1>1, PlannedStay DEF call, Condemned
<1>3. Shrunk(redis', snapshot)
  BY <1>1, ShrunkTwice DEF QuietlyShared
<1>4. \A d \in Digests \ Condemned : SameKeys(redis', snapshot, d)
  BY <1>1, SameKeysTwice DEF Condemned, QuietlyShared
<1>5. \A p \in snapshot.repo_blob_sets \ redis'.repo_blob_sets : Unwhole(p)
  BY <1>1 DEF QuietlyShared, Unwhole, NeedsSrem
<1>6. ASSUME pc2 # "idle"
      PROVE  Shrunk(redis', snapshot2) /\ Second!PrefixInv'
  <2>1. Shrunk(redis', snapshot2) /\ Second!Shrunk(redis', redis)
    BY <1>1, <1>6, ShrunkTwice, SameShrinking DEF QuietlyShared
  <2>2. Second!IInv /\ Second!PrefixInv
    BY <1>6 DEF BothInv, SecondInv, QuietlyShared
  <2> QED BY <2>1, <2>2, Second!PrefixStays, SecondAssumptions DEF second, call2
<1>8. ASSUME pc2 = "idle"
      PROVE  (Seen /\ Covered)'
  <2>1. UNCHANGED <<scan_pc, todo, found, snapshot2>>
    BY DEF second, scan2
  <2>2. Seen /\ Covered
    BY <1>8 DEF QuietlyShared
  <2> QED BY <1>1, <1>2, <2>1, <2>2, CoveredLasts DEF Seen
<1>7. QuietlyShared' = (/\ rewritten' = {}
                        /\ Shrunk(redis', snapshot) /\ PrefixInv'
                        /\ \A d \in Digests \ Condemned : SameKeys(redis', snapshot, d)
                        /\ \A p \in snapshot.repo_blob_sets \ redis'.repo_blob_sets :
                              Unwhole(p)
                        /\ pc2 = "idle" => (Seen /\ Covered)'
                        /\ pc2 # "idle" =>
                             /\ Shrunk(redis', snapshot2) /\ Second!PrefixInv'
                             /\ \A d \in Digests \ Condemned :
                                   SameKeys(snapshot2, snapshot, d))
  BY <1>2 DEF QuietlyShared, Unwhole, second, scan2, call2
<1> QED BY <1>1, <1>3, <1>4, <1>5, <1>6, <1>7, <1>8 DEF QuietlyShared

LEMMA QuietSecond ==
    ASSUME BothInv, QuietlyShared, Other!Next, UNCHANGED <<local, wire, scan2>>,
           writes' = writes
    PROVE  QuietlyShared'
<1>1. CASE Other!Registry
  BY <1>1, RegistryIsShared, QuietFirst DEF Next
<1>2. CASE ~Other!Registry
  <2>1. pc2 # "idle"
    BY <1>2, IdleStep DEF BothInv, SecondInv, SecondIdle
  <2>2. /\ Second!IInv /\ Second!Next /\ Second!PrefixInv
        /\ Second!Shrunk(redis, snapshot2)
    BY <2>1, SecondStep, SameShrinking DEF BothInv, SecondInv, QuietlyShared
  <2>3. /\ Second!Shrunk(redis', redis) /\ Second!PrefixInv'
        /\ UNCHANGED <<Second!call, rewritten>>
        /\ \A p \in redis.repo_blob_sets \ redis'.repo_blob_sets :
              Second!PairCategory(snapshot2, fs, p) \in Second!NeedsSrem
        /\ \A d \in Digests : ~Second!SameKeys(redis', redis, d) =>
              \E o \in Second!PlannedOps(Second!Issues) : o.digest = d
    BY <2>2, Second!QuietCall, SecondAssumptions
  <2>4. /\ Shrunk(redis', redis)
        /\ \A p \in redis.repo_blob_sets \ redis'.repo_blob_sets :
              PairCategory(snapshot2, fs, p) # "OK"
        /\ \A d \in Digests \ Condemned : SameKeys(redis', redis, d)
    BY <2>1, <2>3, SamePlans, SameShrinking, SecondCondemns DEF NeedsSrem
  <2>5. UNCHANGED <<snapshot, fs, dry_run, snapshot2, Condemned, ops, wire>>
    BY <2>3, PlannedStay DEF local, call, Condemned, Second!call
  <2>6. Shrunk(redis', snapshot) /\ Shrunk(redis', snapshot2)
    BY <2>1, <2>4, ShrunkTwice DEF QuietlyShared
  <2>7. PrefixInv'
    BY <2>4, <2>5, PrefixStays DEF BothInv, QuietlyShared
  <2>8. \A d \in Digests \ Condemned : SameKeys(redis', snapshot, d)
    BY <2>4, SameKeysTwice DEF QuietlyShared
  <2>9. \A p \in snapshot.repo_blob_sets \ redis'.repo_blob_sets : Unwhole(p)
    BY <2>1, <2>4 DEF QuietlyShared, Unwhole, Shrunk
  <2>10. pc2' # "idle"
    BY <2>2, Second!IInvStep, SecondAssumptions DEF Second!IInv, Second!TypeOK
  <2>11. (\A p \in snapshot.repo_blob_sets \ redis.repo_blob_sets : Unwhole(p))'
    BY <2>1, <2>5, <2>9, <2>10 DEF Unwhole
  <2>12. (\A d \in Digests \ Condemned : /\ SameKeys(redis, snapshot, d)
                                         /\ SameKeys(snapshot2, snapshot, d))'
    BY <2>1, <2>5, <2>8 DEF QuietlyShared
  <2> QED BY <2>3, <2>5, <2>6, <2>7, <2>10, <2>11, <2>12 DEF QuietlyShared
<1> QED BY <1>1, <1>2

\* A step of the second scan.
LEMMA SeenStep ==
    ASSUME LookInv, redis \in RedisState, Shrunk(redis, snapshot), Seen,
           Looking!ScanRedis \/ Looking!ScanError, UNCHANGED <<redis, snapshot>>
    PROVE  Seen'
<1>1. snapshot2 \in RedisState
  BY DEF LookInv
<1>2. ASSUME NEW k \in todo, Scans(k)
      PROVE  Seen'
  <2>1. k \in Digests /\ Looking!Exists(k) => snapshot.global_blobs[k] # NoKey
    BY SameKeysLooked DEF Shrunk
  <2>2. k \in Pair /\ Looking!Exists(k) => k \in snapshot.repo_blob_hashes
    BY SameKeysLooked DEF Shrunk
  <2> QED BY <1>2, <2>1, <2>2 DEF Seen, Scans
<1>3. ASSUME NEW k, FetchesGlobal(k), found' = found
      PROVE  Seen'
  <2>1. snapshot.global_blobs[k] # NoKey
    BY <1>3 DEF Seen, FetchesGlobal
  <2> QED BY <1>1, <1>3, <2>1, Fetches DEF Seen
<1>4. ASSUME NEW k, FetchesHash(k), found' = found
      PROVE  Seen'
  <2>1. k \in snapshot.repo_blob_hashes
    BY <1>4 DEF Seen, FetchesHash
  <2> QED BY <1>1, <1>4, <2>1, Fetches DEF Seen
<1>5. ASSUME NEW k, FetchesSet(k), found' = found
      PROVE  Seen'
  BY <1>1, <1>5, Fetches DEF Seen, Shrunk
<1>6. ASSUME found' = found, snapshot2' = snapshot2
      PROVE  Seen'
  BY <1>6 DEF Seen
<1> QED BY <1>2, <1>3, <1>4, <1>5, <1>6, LookSteps

LEMMA CoveredStep ==
    ASSUME LookInv, redis \in RedisState, Covered,
           Looking!ScanRedis \/ Looking!ScanError, redis' = redis
    PROVE  Covered'
<1>1. snapshot2 \in RedisState
  BY DEF LookInv
<1>2. ASSUME NEW k \in todo, Scans(k), scan_pc' = scan_pc, todo' = todo \ {k}
      PROVE  Covered'
  <2>1. GlobalsCovered'
    <3>1. \A d \in Digests : redis.global_blobs[d] # NoKey => Looking!Exists(d)
      BY SameKeysLooked
    <3> QED BY <1>2, <3>1 DEF Covered, GlobalsCovered, Scans
  <2>2. HashesCovered'
    <3>1. \A p \in redis.repo_blob_hashes : Looking!Exists(p)
      BY SameKeysLooked DEF RedisState
    <3> QED BY <1>2, <3>1 DEF Covered, HashesCovered, Scans
  <2>3. SetsCovered'
    <3>1. \A p \in redis.repo_blob_sets : Looking!Exists(p[1])
      <4> SUFFICES ASSUME NEW p \in redis.repo_blob_sets
                   PROVE  Looking!Exists(p[1])
        OBVIOUS
      <4>1. p[1] \in Repos /\ p[2] \in Digests /\ p = <<p[1], p[2]>>
        BY DEF RedisState, Pair
      <4>2. \E d \in Digests : <<p[1], d>> \in redis.repo_blob_sets
        BY <4>1
      <4> QED BY <4>1, <4>2, SameKeysLooked
    <3> QED BY <1>2, <3>1 DEF Covered, SetsCovered, Scans
  <2> QED BY <2>1, <2>2, <2>3 DEF Covered
<1>3. ASSUME NEW k \in todo, FetchesGlobal(k), scan_pc' = scan_pc,
             todo' = todo \ {k}, found' = found
      PROVE  Covered'
  <2>1. scan_pc = "hmget"
    BY <1>3 DEF FetchesGlobal
  <2>2. \A d \in Digests : redis.global_blobs[d] # NoKey =>
           RedisSize(redis, d) = redis.global_blobs[d]
    BY DEF RedisSize
  <2>3. GlobalsCovered'
    BY <1>1, <1>3, <2>1, <2>2, Fetches DEF Covered, GlobalsCovered
  <2>4. HashesCovered' /\ SetsCovered'
    BY <1>3, <2>1 DEF Covered, HashesCovered, SetsCovered
  <2> QED BY <2>3, <2>4 DEF Covered
<1>4. ASSUME NEW k \in todo, FetchesHash(k), scan_pc' = scan_pc,
             todo' = todo \ {k}, found' = found
      PROVE  Covered'
  <2>1. scan_pc = "hget"
    BY <1>4 DEF FetchesHash
  <2>2. GlobalsCovered' /\ SetsCovered'
    BY <1>1, <1>4, <2>1, Fetches DEF Covered, GlobalsCovered, SetsCovered
  <2>3. HashesCovered'
    BY <1>1, <1>4, <2>1, Fetches DEF Covered, HashesCovered
  <2> QED BY <2>2, <2>3 DEF Covered
<1>5. ASSUME NEW k \in todo, FetchesSet(k), scan_pc' = scan_pc,
             todo' = todo \ {k}, found' = found
      PROVE  Covered'
  <2>1. scan_pc = "smembers"
    BY <1>5 DEF FetchesSet
  <2>2. GlobalsCovered' /\ HashesCovered'
    BY <1>1, <1>5, <2>1, Fetches DEF Covered, GlobalsCovered, HashesCovered
  <2>3. SetsCovered'
    <3>1. \A p \in redis.repo_blob_sets :
             p[1] = k => p \in snapshot2'.repo_blob_sets
      BY <1>1, <1>5, Fetches
    <3>2. snapshot2.repo_blob_sets \subseteq snapshot2'.repo_blob_sets
      BY <1>1, <1>5, Fetches
    <3> QED BY <1>5, <2>1, <3>1, <3>2 DEF Covered, SetsCovered
  <2> QED BY <2>2, <2>3 DEF Covered
<1>6. ASSUME EndsPass, todo = {}, found' = found, snapshot2' = snapshot2
      PROVE  Covered'
  <2>1. GlobalsCovered'
    BY <1>6 DEF Covered, GlobalsCovered, EndsPass
  <2>2. HashesCovered'
    BY <1>6 DEF Covered, HashesCovered, EndsPass, RedisState
  <2>3. SetsCovered'
    <3>1. \A p \in redis.repo_blob_sets : p[1] \in Repos
      BY DEF RedisState, Pair
    <3> QED BY <1>6, <3>1 DEF Covered, SetsCovered, EndsPass
  <2> QED BY <2>1, <2>2, <2>3 DEF Covered
<1>7. ASSUME scan_pc' = "failed"
      PROVE  Covered'
  BY <1>7 DEF Covered, GlobalsCovered, HashesCovered, SetsCovered
<1> QED BY <1>2, <1>3, <1>4, <1>5, <1>6, <1>7, LookSteps

LEMMA QuietScans ==
    ASSUME BothInv, QuietlyShared, SecondScans
    PROVE  QuietlyShared'
<1>1. UNCHANGED vars /\ UNCHANGED call2 /\ pc2 = "idle" /\ pc2' = "idle"
  BY DEF SecondScans, call2
<1>2. UNCHANGED <<redis, snapshot, fs, ops, wire, rewritten, Condemned>>
  BY <1>1, PlannedStay DEF vars, local, call, Condemned
<1>3. Shrunk(redis, snapshot)' /\ PrefixInv'
  BY <1>2 DEF QuietlyShared, PrefixInv, Drained
<1>4. Seen' /\ Covered'
  <2>1. LookInv /\ redis \in RedisState /\ Shrunk(redis, snapshot) /\ Seen /\ Covered
    BY <1>1 DEF BothInv, SecondInv, SecondIdle, IInv, TypeOK, QuietlyShared
  <2>2. Looking!ScanRedis \/ Looking!ScanError
    BY DEF SecondScans
  <2> QED BY <1>2, <2>1, <2>2, SeenStep, CoveredStep
<1>5. (\A p \in snapshot.repo_blob_sets \ redis.repo_blob_sets : Unwhole(p))'
  BY <1>1, <1>2 DEF QuietlyShared, Unwhole
<1>6. (\A d \in Digests \ Condemned : SameKeys(redis, snapshot, d))'
  BY <1>2 DEF QuietlyShared
<1> QED BY <1>1, <1>2, <1>3, <1>4, <1>5, <1>6 DEF QuietlyShared

\* When it is over, Redis is what removals have left of its snapshot, too, and
\* the digests that the first scan leaves alone look the same in both.
LEMMA SeenAndCovered ==
    ASSUME QuietlyShared, Seen, Covered, scan_pc = "done",
           redis \in RedisState, snapshot \in RedisState, snapshot2 \in RedisState
    PROVE  /\ Shrunk(redis, snapshot2)
           /\ \A d \in Digests \ Condemned : SameKeys(snapshot2, snapshot, d)
<1>1. Shrunk(redis, snapshot)
  BY DEF QuietlyShared
<1>2. /\ \A d \in Digests : redis.global_blobs[d] # NoKey =>
            snapshot2.global_blobs[d] = redis.global_blobs[d]
      /\ redis.repo_blob_hashes \subseteq snapshot2.repo_blob_hashes
      /\ redis.repo_blob_sets \subseteq snapshot2.repo_blob_sets
  BY DEF Covered, GlobalsCovered, HashesCovered, SetsCovered
<1>3. Shrunk(redis, snapshot2)
  BY <1>1, <1>2 DEF Shrunk, Seen
<1>4. ASSUME NEW d \in Digests \ Condemned
      PROVE  SameKeys(snapshot2, snapshot, d)
  <2>1. SameKeys(redis, snapshot, d)
    BY DEF QuietlyShared
  <2>2. snapshot2.global_blobs[d] = snapshot.global_blobs[d]
    BY <1>2, <2>1 DEF SameKeys, Seen
  <2>3. \A p \in Pair : p[2] = d =>
           /\ p \in snapshot2.repo_blob_sets <=> p \in snapshot.repo_blob_sets
           /\ p \in snapshot2.repo_blob_hashes <=> p \in snapshot.repo_blob_hashes
    BY <1>2, <2>1 DEF SameKeys, Seen
  <2> QED BY <2>2, <2>3 DEF SameKeys
<1> QED BY <1>3, <1>4

LEMMA QuietCleans ==
    ASSUME BothInv, QuietlyShared, SecondCleans
    PROVE  QuietlyShared'
<1>1. /\ UNCHANGED vars /\ snapshot2' = snapshot2 /\ wire2' = wire2
      /\ pc2 = "idle" /\ pc2' = "plan" /\ scan_pc = "done"
  BY DEF SecondCleans, scan2
<1>2. UNCHANGED <<redis, snapshot, fs, ops, wire, rewritten, Condemned>>
  BY <1>1, PlannedStay DEF vars, local, call, Condemned
<1>3. Shrunk(redis, snapshot)' /\ PrefixInv'
  BY <1>2 DEF QuietlyShared, PrefixInv, Drained
<1>4. Second!PrefixInv'
  <2>1. wire2' = <<>>
    BY <1>1 DEF BothInv, SecondInv, SecondIdle
  <2> QED BY <2>1 DEF Second!PrefixInv
<1>5. /\ Shrunk(redis, snapshot2)
      /\ \A d \in Digests \ Condemned : SameKeys(snapshot2, snapshot, d)
  <2>1. /\ redis \in RedisState /\ snapshot \in RedisState
        /\ snapshot2 \in RedisState /\ Seen /\ Covered
    BY <1>1 DEF BothInv, SecondInv, SecondIdle, LookInv, IInv, TypeOK, QuietlyShared
  <2> QED BY <1>1, <2>1, SeenAndCovered
<1>6. (\A p \in snapshot.repo_blob_sets \ redis.repo_blob_sets : Unwhole(p))'
  BY <1>1, <1>2 DEF QuietlyShared, Unwhole
<1>7. (/\ Shrunk(redis, snapshot2)
       /\ \A d \in Digests \ Condemned : /\ SameKeys(redis, snapshot, d)
                                          /\ SameKeys(snapshot2, snapshot, d))'
  BY <1>1, <1>2, <1>5 DEF QuietlyShared
<1> QED BY <1>1, <1>2, <1>3, <1>4, <1>6, <1>7 DEF QuietlyShared

SharedInv == writes = 0 => QuietlyShared

LEMMA SharedStep ==
    BothInv /\ SharedInv /\ [OverlapNext]_<<vars, second>> => SharedInv'
<1> SUFFICES ASSUME BothInv, SharedInv, [OverlapNext]_<<vars, second>>,
                    writes' = 0
             PROVE  QuietlyShared'
  BY DEF SharedInv
<1>1. CASE [Next]_vars /\ UNCHANGED second
  <2>1. writes' = writes
    BY <1>1, WritesCount DEF BothInv
  <2> QED BY <1>1, <2>1, QuietFirst DEF SharedInv
<1>2. CASE Other!Next /\ UNCHANGED <<local, wire, scan2>> /\ ~Other!Registry
  <2>1. Second!IInv /\ Second!Next
    BY <1>2, IdleStep, SecondStep DEF BothInv, SecondInv, SecondIdle
  <2>2. writes' = writes
    BY <2>1, Second!WritesCount, SecondAssumptions
  <2> QED BY <1>2, <2>2, QuietSecond DEF SharedInv
<1>3. CASE SecondScans \/ SecondCleans
  BY <1>3, QuietScans, QuietCleans DEF SharedInv, SecondScans, SecondCleans, vars
<1> QED BY <1>1, <1>2, <1>3, RegistryIsShared DEF OverlapNext, Next

LEMMA SharedInductive == OverlapSpec => [](BothInv /\ SharedInv)
<1>1. OverlapInit => SharedInv
  <2> SUFFICES ASSUME OverlapInit PROVE QuietlyShared
    BY DEF SharedInv
  <2>1. /\ redis \in RedisState /\ snapshot = redis /\ pc2 = "idle"
        /\ scan_pc = "globals" /\ todo = Digests /\ found = {}
        /\ snapshot2 = Looking!EmptyRedis
    BY Passes DEF OverlapInit, Init, CacheState, Looking!ThreadInit
  <2>2. Seen
    BY <2>1 DEF Seen, Looking!EmptyRedis
  <2>3. Covered
    BY <2>1 DEF Covered, GlobalsCovered, HashesCovered, SetsCovered
  <2> QED BY <2>1, <2>2, <2>3
          DEF OverlapInit, Init, QuietlyShared, Shrunk, PrefixInv, SameKeys
<1> QED BY <1>1, BothInit, BothStep, SharedStep, PTL DEF OverlapSpec

\* However the commands of two calls and the SCAN passes and fetches of the
\* second one interleave, a pair's verdict moves only towards a harmless one,
\* and none becomes a failure.
THEOREM OverlapIsHarmless == OverlapSpec => []OverlapDegrades
<1>1. SharedInv => OverlapDegrades
  BY ShrunkVerdict DEF SharedInv, QuietlyShared, OverlapDegrades
<1> QED BY <1>1, SharedInductive, PTL

\* A step of either call is, to the registry's clients, an eviction of a digest
\* that the first scan has condemned, though the second plan is made of a
\* snapshot that was never the state of Redis.
THEOREM TwoCallsAreEvictions == OverlapSpec => OverlapEvictsOnly
<1>1. ASSUME BothInv, SharedInv, [OverlapNext]_<<vars, second>>
      PROVE  [writes' = 0 => Evictions!Next]_(Evictions!vars)
  <2> SUFFICES ASSUME writes' = 0
               PROVE  [Evictions!Next]_(Evictions!vars)
    OBVIOUS
  <2>1. CASE [Next]_vars
    <3>1. IInv
      BY <1>1 DEF BothInv
    <3> QED BY <2>1, <3>1, EvictionsStep, Zenon
  <2>2. CASE /\ Other!Next /\ UNCHANGED <<local, wire, scan2>> /\ ~Other!Registry
    <3>1. pc2 # "idle" /\ Second!IInv /\ Second!Next
      BY <1>1, <2>2, IdleStep, SecondStep DEF BothInv, SecondInv, SecondIdle
    <3>2. writes' = writes /\ writes = 0 /\ writes \in Nat
      BY <3>1, Second!WritesCount, SecondAssumptions
    <3>3. UNCHANGED Condemned
      BY <2>2, PlannedStay DEF local, call, Condemned
    <3>4. [Second!Evictions!Next]_(Second!Evictions!vars)
      BY <3>1, Second!EvictionsStep, SecondAssumptions
    <3>5. Second!Condemned \subseteq Condemned
      BY <1>1, <3>1, <3>2, SecondCondemns, SamePlans
         DEF SharedInv, Second!Condemned, BothInv
    <3>6. [p \in Second!Pair |-> Second!Served(redis, p)]
            = [p \in Pair |-> Served(redis, p)]
      BY DEF Second!Pair, Pair, Second!Served, Served, Second!StatHit, StatHit
    <3>7. [p \in Second!Pair |-> Second!Served(redis', p)]
            = [p \in Pair |-> Served(redis', p)]
      BY DEF Second!Pair, Pair, Second!Served, Served, Second!StatHit, StatHit
    <3>8. CASE UNCHANGED Second!Evictions!vars
      <4>1. UNCHANGED Evictions!vars
        BY <3>2, <3>3, <3>6, <3>7, <3>8 DEF Second!Evictions!vars, Evictions!vars
      <4> QED BY <4>1
    <3>9. CASE Second!Evictions!Next
      <4>1. PICK d \in Digests : Second!Evictions!Evict(d)
        BY <3>2, <3>9 DEF Second!Evictions!Next, Second!Evictions!Update
      <4>2. Evictions!Evict(d)
        BY <3>2, <3>3, <3>5, <3>6, <3>7, <4>1
           DEF Second!Evictions!Evict, Evictions!Evict
      <4> QED BY <4>2 DEF Evictions!Next
    <3> QED BY <3>4, <3>8, <3>9
  <2>3. CASE SecondScans \/ SecondCleans
    <3>1. UNCHANGED <<redis, call, writes>>
      BY <2>3 DEF SecondScans, SecondCleans, vars, local
    <3>2. UNCHANGED Condemned
      BY <3>1, PlannedStay DEF call, Condemned
    <3> QED BY <3>1, <3>2 DEF Evictions!vars
  <2> QED BY <1>1, <2>1, <2>2, <2>3, RegistryIsShared DEF OverlapNext, Next
<1> QED BY <1>1, SharedInductive, PTL DEF OverlapSpec, OverlapEvictsOnly

-----------------------------------------------------------------------------
(***************************************************************************)
(* What two calls leave.                                                   *)
(***************************************************************************)

\* A pair that either scan has found unwhole is gone when both plans have
\* taken effect, and so is its global hash.
LEMMA UnwholeIsGone ==
    ASSUME BothInv, QuietlyShared, pc2 # "idle", clear_internal_garbage,
           AllGone, Second!AllGone, NEW p \in Pair,
           \/ p \in Pairs(snapshot) /\ PairCategory(snapshot, fs, p) # "OK"
           \/ p \in Pairs(snapshot2) /\ PairCategory(snapshot2, fs, p) # "OK"
    PROVE  p \notin Pairs(redis) /\ redis.global_blobs[p[2]] = NoKey
<1>1. CASE p \in Pairs(snapshot) /\ PairCategory(snapshot, fs, p) # "OK"
  BY <1>1, PlannedPairIsGone DEF BothInv, IInv, QuietlyShared
<1>2. CASE p \in Pairs(snapshot2) /\ PairCategory(snapshot2, fs, p) # "OK"
  <2>1. /\ p \in Second!Pairs(snapshot2)
        /\ Second!PairCategory(snapshot2, fs, p) # "OK"
        /\ Second!Shrunk(redis, snapshot2) /\ Second!TypeOK
    BY <1>2, SamePlans, SameShrinking
       DEF BothInv, SecondInv, Second!IInv, QuietlyShared
  <2>2. p \notin Second!Pairs(redis) /\ redis.global_blobs[p[2]] = NoKey
    BY <2>1, Second!PlannedPairIsGone, SecondAssumptions
  <2> QED BY <2>2, SamePlans
<1> QED BY <1>1, <1>2

\* What is left of a pair was healthy in both scans, and is C2 at most: its set
\* member is there, but its digest's hash may have been taken by the first call.
LEMMA LeftOfPair ==
    ASSUME BothInv, QuietlyShared, pc # "plan", pc2 # "idle",
           clear_internal_garbage, AllGone, Second!AllGone,
           NEW p \in Pairs(redis), PairCategory(redis, fs, p) # "OK"
    PROVE  /\ PairCategory(redis, fs, p) = "C2"
           /\ Verdict(snapshot, p) = "OK"
           /\ \E o \in Range(ops) : o.digest = p[2]
<1>1. p \in Pair /\ p \in Pairs(snapshot)
  BY DEF BothInv, IInv, TypeOK, RedisState, Pairs, QuietlyShared, Shrunk
<1>2. PairCategory(snapshot, fs, p) = "OK"
  BY <1>1, UnwholeIsGone
<1>3. Verdict(snapshot, p) = "OK" /\ Verdict(redis, p) = PairCategory(redis, fs, p)
  BY <1>1, <1>2 DEF Verdict
<1>4. p \in snapshot.repo_blob_sets
  BY <1>1, <1>2 DEF Pairs, PairCategory
<1>5. p \in redis.repo_blob_sets
  <2> SUFFICES ASSUME p \notin redis.repo_blob_sets PROVE FALSE
    OBVIOUS
  <2>1. Unwhole(p)
    BY <1>4 DEF QuietlyShared
  <2> QED BY <1>1, <1>2, <2>1, UnwholeIsGone DEF Unwhole, Pairs
<1>6. PairCategory(redis, fs, p) = "C2"
  <2>1. PairCategory(redis, fs, p) \in {"C2", "C6", "none"}
    <3>1. \/ <<Verdict(snapshot, p), Verdict(redis, p)>> \in Degrades
          \/ Verdict(redis, p) \in {"C6", "none"}
      BY <1>1, <1>3, ShrunkVerdict DEF QuietlyShared
    <3>2. \A x : <<"OK", x>> \in Degrades => x = "C2"
      BY DEF Degrades
    <3> QED BY <1>3, <3>1, <3>2
  <2>2. PairCategory(redis, fs, p) # "C6"
    BY <1>5 DEF PairCategory
  <2>3. PairCategory(redis, fs, p) # "none"
    BY DEF PairCategory
  <2> QED BY <2>1, <2>2, <2>3
<1>7. p[2] \in Condemned
  <2>1. p[2] \in Digests
    BY <1>1 DEF Pair
  <2>2. GlobalValid(snapshot, p[2]) /\ ~GlobalValid(redis, p[2])
    BY <1>2, <1>4, <1>5, <1>6 DEF PairCategory
  <2>3. ~SameKeys(redis, snapshot, p[2])
    BY <2>2 DEF GlobalValid, SameKeys
  <2> QED BY <2>1, <2>3 DEF QuietlyShared
<1>8. \E o \in PlannedOps(Issues) : o.digest = p[2]
  BY <1>7 DEF Condemned, BothInv
<1> QED BY <1>3, <1>6, <1>8 DEF BothInv, CompleteInv

\* No orphan is left: it was one, or its references have gone with their hash.
LEMMA NoOrphanLeft ==
    ASSUME BothInv, QuietlyShared, pc2 # "idle",
           clear_internal_garbage, AllGone, Second!AllGone
    PROVE  GlobalOrphans(redis) = {}
<1> SUFFICES ASSUME NEW d \in GlobalOrphans(redis) PROVE FALSE
  OBVIOUS
<1>1. /\ d \in Digests /\ redis.global_blobs[d] # NoKey
      /\ d \notin ReferencedDigests(redis)
  BY DEF GlobalOrphans
<1>2. snapshot.global_blobs[d] # NoKey
  BY <1>1 DEF QuietlyShared, Shrunk
<1>3. CASE d \in GlobalOrphans(snapshot)
  <2>1. PICK o \in PlannedOps(Issues) : o.digest = d
    BY <1>3, OrphanIsPlanned DEF BothInv, IInv
  <2>2. redis.global_blobs[d] = NoKey
    BY <2>1, OpGone DEF BothInv, IInv
  <2> QED BY <1>1, <2>2
<1>4. CASE d \notin GlobalOrphans(snapshot)
  <2>1. PICK p \in snapshot.repo_blob_sets : p[2] = d
    BY <1>1, <1>2, <1>4 DEF GlobalOrphans, ReferencedDigests
  <2>2. p \in Pair /\ p \notin redis.repo_blob_sets
    BY <1>1, <2>1 DEF ReferencedDigests, BothInv, IInv, TypeOK, RedisState
  <2>3. Unwhole(p)
    BY <2>1, <2>2 DEF QuietlyShared
  <2>4. redis.global_blobs[p[2]] = NoKey
    BY <2>1, <2>2, <2>3, UnwholeIsGone DEF Unwhole, Pairs
  <2> QED BY <1>1, <2>1, <2>4
<1> QED BY <1>3, <1>4

\* Two calls that have returned without a failure leave only C2 of digests that
\* the first has removed in another repository: what one call leaves, whatever
\* the second one's scan has seen of the first one's work.
THEOREM TwoCallsLeaveSharedC2 == OverlapSpec => []OverlapLeavesSharedC2
<1>1. BothInv /\ SharedInv => OverlapLeavesSharedC2
  <2> SUFFICES ASSUME BothInv, QuietlyShared, pc = "done", pc2 = "done",
                      failures = <<>>, failures2 = <<>>, clear_internal_garbage,
                      NEW i \in Classify(redis, fs), i.category # "C7"
               PROVE  /\ i.category = "C2"
                      /\ Verdict(snapshot, <<i.repo, i.digest>>) = "OK"
                      /\ \E o \in Range(ops) : o.digest = i.digest
    BY DEF SharedInv, OverlapLeavesSharedC2
  <2>1. AllGone
    BY DoneMeansGone DEF BothInv, QuietlyShared
  <2>2. Second!AllGone
    BY Second!DoneMeansGone, SecondAssumptions DEF BothInv, SecondInv, QuietlyShared
  <2>3. i \in PairIssues(redis, fs)
    <3>1. i \notin OrphanIssues(redis, fs)
      BY <2>1, <2>2, NoOrphanLeft DEF OrphanIssues
    <3>2. i \notin LeftoverIssues(redis, fs)
      BY DEF LeftoverIssues, MkIssue
    <3> QED BY <3>1, <3>2 DEF Classify
  <2>4. PICK p \in Pairs(redis) :
           /\ PairCategory(redis, fs, p) # "OK"
           /\ i.category = PairCategory(redis, fs, p)
           /\ i.repo = p[1] /\ i.digest = p[2]
    BY <2>3 DEF PairIssues, MkIssue
  <2>5. p = <<i.repo, i.digest>>
    BY <2>4 DEF Pairs, BothInv, IInv, TypeOK, RedisState, Pair
  <2> QED BY <2>1, <2>2, <2>4, <2>5, LeftOfPair
<1> QED BY <1>1, SharedInductive, PTL
=============================================================================
