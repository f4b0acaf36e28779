-------------------------------- MODULE Scan --------------------------------
(***************************************************************************)
(* One scan of one registry: scan_redis and scan_fs in two threads, while  *)
(* the registry serves its clients, storage loses files and another `rcd   *)
(* clean` may be at work.  Nothing is locked, and each file is looked at   *)
(* on its own.                                                             *)
(* Definitions marked "Slip" are mistakes that the properties must see.    *)
(***************************************************************************)
EXTENDS RedisScan, Integers, Sequences

CONSTANTS BlobSize,    \* the size of each digest's content
          MaxFaults    \* bound: losses, Clears and foreign removals

ASSUME ScanAssumption ==
    /\ BlobSize \in [Digests -> Sizes]
    /\ MaxFaults \in Nat

VARIABLES
    storage,            \* the registry's files, beside its Redis
    request,            \* progress of the registry's request for each pair
    faults,             \* faults so far
    mounted,            \* the blobs directory of the storage root exists
    fs_todo,            \* digests the storage thread has still to look at
    fs,                 \* the FsSnapshot under construction
    ever, always,       \* history: facts that held at some, at every moment
    broken              \* history: pairs whose pull was broken at some moment

world   == <<redis, storage, request, faults>>
thread  == <<scan_pc, todo, found, snapshot>>
files   == <<mounted, fs_todo, fs>>
history == <<ever, always, broken>>
vars    == <<world, thread, files, history>>

-----------------------------------------------------------------------------
EmptyFs == [d \in Digests |-> None]

\* What a state of Redis and of storage, or a pair of snapshots, says.
Facts(r, s) ==
    {<<"member", p>> : p \in r.repo_blob_sets}
      \union {<<"hash", p>> : p \in r.repo_blob_hashes}
      \union {<<"global", d, r.global_blobs[d]>> :
                 d \in {e \in Digests : r.global_blobs[e] # NoKey}}
      \union {<<"file", d, s[d]>> : d \in {e \in Digests : s[e] # None}}

BrokenPulls(r, s) == {p \in Pair : PullBroken(r, s, p)}

TypeOK ==
    /\ redis \in RedisState /\ snapshot \in RedisState
    /\ storage \in FsState /\ fs \in FsState
    /\ request \in [Pair -> 0 .. 5]
    /\ faults \in 0 .. MaxFaults
    /\ scan_pc \in DOMAIN NextPass \union {"done", "failed"}
    /\ todo \union found \subseteq Digests \union Repos \union Pair
    /\ mounted \in BOOLEAN
    /\ fs_todo \subseteq Digests

\* The fields of a global hash are those that SetDescriptor and Clear leave:
\* with a size, and only then, it has a digest.  (Module Classification is
\* about the other hashes.)
Init ==
    /\ redis \in CacheState
    /\ redis.digest_fields = {d \in Digests : GlobalValid(redis, d)}
    /\ storage \in FsState
    /\ request = [p \in Pair |-> 0]
    /\ faults = 0
    /\ ThreadInit
    /\ mounted \in BOOLEAN
    /\ fs_todo = IF mounted THEN Digests ELSE {}
    /\ fs = EmptyFs
    /\ ever = Facts(redis, storage)
    /\ always = ever
    /\ broken = BrokenPulls(redis, storage)

-----------------------------------------------------------------------------
\* The two threads have returned.
Scanned == scan_pc = "done" /\ fs_todo = {}

\* scan_redis, which may fail at any point.
Thread == (ScanRedis \/ ScanError) /\ UNCHANGED <<world, files, history>>

\* scan_fs

\* Slip: a file that is gone is recorded instead of skipped.
StatSizeRecorded(d) == IF storage[d] = None THEN NoKey ELSE storage[d]

\* A file that is not there, or no longer, is skipped.
StatSize(d) == storage[d]

StatFile(d) ==
    /\ d \in fs_todo
    /\ fs_todo' = fs_todo \ {d}
    /\ fs' = [fs EXCEPT ![d] = StatSize(d)]
    /\ UNCHANGED <<world, thread, history, mounted>>

\* An error of the walk that is not a missing file: the scan has no result.
WalkError ==
    /\ fs_todo # {}
    /\ scan_pc # "failed"
    /\ scan_pc' = "failed"
    /\ UNCHANGED <<world, files, history, todo, found, snapshot>>

Walk == (\E d \in Digests : StatFile(d)) \/ WalkError

-----------------------------------------------------------------------------
\* The world: the registry stores a blob before it announces it.

Happens(r, s) ==
    /\ redis' = r
    /\ storage' = s
    /\ ever' = ever \union Facts(r, s)
    /\ always' = always \intersect Facts(r, s)
    /\ broken' = broken \union BrokenPulls(r, s)
    /\ UNCHANGED <<thread, files>>

Request(p) ==
    /\ request[p] < 5
    /\ request' = [request EXCEPT ![p] = @ + 1]
    /\ Happens(CASE request[p] = 1 -> Sadd(redis, p)
                 [] request[p] = 2 -> Hmset(redis, p[2], BlobSize[p[2]])
                 [] request[p] = 3 -> Hsetnx(redis, p[2])
                 [] request[p] = 4 -> Hset(redis, p)
                 [] OTHER          -> redis,
               IF request[p] = 0 THEN [storage EXCEPT ![p[2]] = BlobSize[p[2]]]
                                 ELSE storage)
    /\ UNCHANGED faults

Fault(r, s) ==
    /\ faults < MaxFaults
    /\ faults' = faults + 1
    /\ Happens(r, s)
    /\ UNCHANGED request

\* A file is lost or truncated; the registry clears a descriptor; a clean
\* that the cron container runs at the same time executes a command.
LoseFile(d)     == /\ storage[d] # None
                   /\ \E s \in Sizes \union {None} :
                         Fault(redis, [storage EXCEPT ![d] = s])
ForeignClean(c) == Fault(Exec(redis, c), storage)

World == \/ \E p \in Pair : Request(p)
         \/ \E d \in Digests : LoseFile(d)
         \/ \E c \in Command : ForeignClean(c)

-----------------------------------------------------------------------------
Next == Thread \/ Walk \/ World

Fairness == WF_vars(Thread) /\ WF_vars(Walk)

Spec == Init /\ [][Next]_vars /\ Fairness

-----------------------------------------------------------------------------
\* What held throughout the scan is in the snapshots, unless the storage
\* tree is not mounted, in which case no file is.
NothingMissed ==
    Scanned => \A f \in always : \/ f \in Facts(snapshot, fs)
                                 \/ f[1] = "file" /\ ~mounted

\* What is in the snapshots held at some moment of the scan.  The exception is
\* a global hash that vanished between SCAN and HMGET, which is taken for a
\* hash without a size.
NothingInvented ==
    Scanned => \A f \in Facts(snapshot, fs) :
        \/ f \in ever
        \/ /\ f[1] = "global" /\ f[3] = None
           /\ \E s \in Sizes : <<"global", f[2], s>> \in ever

\* A digest of which nothing has changed is judged as if the scan were atomic,
\* whatever goes on around it: its issues, sizes included, are those of the
\* registry's own state.
DigestOf(f) == IF f[1] \in {"member", "hash"} THEN f[2][2] ELSE f[2]

Stable(d) == \A f \in ever : DigestOf(f) = d => f \in always

UndisturbedIsExact ==
    (Scanned /\ mounted) =>
        \A d \in Digests : Stable(d) =>
            {i \in Classify(snapshot, fs) : i.digest = d}
              = {i \in Classify(redis, storage) : i.digest = d}

\* A pair that was in the cache with one size, and without a file of that
\* size, all along: its pull was broken at every moment.
StandingFailure(p) ==
    /\ {<<"member", p>>, <<"hash", p>>} \subseteq always
    /\ \E s \in Sizes : /\ <<"global", p[2], s>> \in always
                        /\ <<"file", p[2], s>> \notin ever

\* Such a pair is reported: by the end of the scan it is C4 or C5.
StandingFailureIsFound ==
    Scanned => \A p \in Pair : StandingFailure(p) =>
                   PairCategory(snapshot, fs, p) \in {"C4", "C5"}

\* README.md, fault matrix, column "Real failure?" of C4: a pair that the
\* classifier takes for a blob without a file was broken at some moment of the
\* scan.
RealFailureIsReal ==
    (Scanned /\ mounted) =>
        \A p \in Pairs(snapshot) :
            PairCategory(snapshot, fs, p) = "C4" => p \in broken
=============================================================================
