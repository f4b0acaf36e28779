----------------------------- MODULE Classifier -----------------------------
(***************************************************************************)
(* rcd.classifier: the verdict on a pair of snapshots.  `classify` is a    *)
(* pure function; its passes are the operators below and their union is    *)
(* the set of issues.  The order of `issues` (that of a Python set, then   *)
(* of a dict) is left to the module that consumes it.                      *)
(* Definitions marked "Slip" are mistakes that the properties must see.    *)
(***************************************************************************)
EXTENDS BlobCache, FiniteSets

Category == {"OK", "C1", "C2", "C3", "C4", "C5", "C6", "C7"}

Issue == [category   : Category \ {"OK"},
          digest     : Digests,
          repo       : Repos \union {None},
          redis_size : Sizes \union {None},
          fs_size    : Sizes \union {None}]

\* Slip: a global hash counts as valid as soon as its key exists.
GlobalValidByKey(redis, d) == redis.global_blobs[d] # NoKey

\* Upstream answers a hash that lacks a size as an unknown blob.
GlobalValid(redis, d) == redis.global_blobs[d] \in Sizes

\* Slip: the size is read without asking whether the snapshot has the hash.
RedisSizeUnchecked(redis, d) == redis.global_blobs[d]

\* The size in the snapshot: None both for no hash and for a hash without one.
RedisSize(redis, d) ==
    IF redis.global_blobs[d] = NoKey THEN None ELSE redis.global_blobs[d]

\* The (repo, digest) pairs that a set or a repository hash mentions.
Pairs(redis) == redis.repo_blob_sets \union redis.repo_blob_hashes

ReferencedDigests(redis) == {p[2] : p \in redis.repo_blob_sets}

SeenDigests(redis) == {p[2] : p \in Pairs(redis)}

-----------------------------------------------------------------------------
\* Slip: the chain compares sizes only for files that are missing.
PairCategoryNoC5(redis, fs, p) ==
    LET d == p[2]
    IN  IF p \notin redis.repo_blob_sets THEN "C6"
        ELSE IF ~GlobalValid(redis, d) THEN "C2"
        ELSE IF p \notin redis.repo_blob_hashes THEN "C3"
        ELSE IF fs[d] = None THEN "C4"
        ELSE "OK"

\* The if/elif chain of the repository-scoped pass, for a pair of Pairs(redis).
PairCategory(redis, fs, p) ==
    LET d            == p[2]
        in_set       == p \in redis.repo_blob_sets
        in_repo_hash == p \in redis.repo_blob_hashes
        global_ok    == GlobalValid(redis, d)
    IN  IF ~in_set /\ in_repo_hash THEN "C6"
        ELSE IF in_set /\ ~global_ok THEN "C2"
        ELSE IF in_set /\ global_ok /\ ~in_repo_hash THEN "C3"
        ELSE IF in_set /\ global_ok /\ in_repo_hash /\ fs[d] = None THEN "C4"
        ELSE IF /\ in_set /\ global_ok /\ in_repo_hash
                /\ fs[d] # None /\ RedisSize(redis, d) # fs[d] THEN "C5"
        ELSE "OK"

MkIssue(redis, fs, cat, d, repo) ==
    [category |-> cat, digest |-> d, repo |-> repo,
     redis_size |-> RedisSize(redis, d), fs_size |-> fs[d]]

PairIssues(redis, fs) ==
    {MkIssue(redis, fs, PairCategory(redis, fs, p), p[2], p[1]) :
        p \in {q \in Pairs(redis) : PairCategory(redis, fs, q) # "OK"}}

\* Slip: a referenced global hash is reported once more.
GlobalOrphansReferenced(redis) == {d \in Digests : redis.global_blobs[d] # NoKey}

\* The global pass: a global hash that no repository set references.
GlobalOrphans(redis) ==
    {d \in Digests : /\ redis.global_blobs[d] # NoKey
                     /\ d \notin ReferencedDigests(redis)}

OrphanIssues(redis, fs) ==
    {MkIssue(redis, fs, "C1", d, None) : d \in GlobalOrphans(redis)}

\* The last pass: a file that neither a pair nor a global hash mentions.
FsLeftovers(redis, fs) ==
    {d \in Digests : /\ fs[d] # None
                     /\ d \notin SeenDigests(redis) \union GlobalOrphans(redis)
                     /\ redis.global_blobs[d] = NoKey}

LeftoverIssues(redis, fs) ==
    {MkIssue(redis, fs, "C7", d, None) : d \in FsLeftovers(redis, fs)}

Classify(redis, fs) == PairIssues(redis, fs) \union OrphanIssues(redis, fs)
                         \union LeftoverIssues(redis, fs)

\* The per-category tally; OK counts the pairs that raise no issue.
Counts(redis, fs) ==
    [c \in Category |->
        IF c = "OK"
        THEN Cardinality({p \in Pairs(redis) : PairCategory(redis, fs, p) = c})
        ELSE Cardinality({i \in Classify(redis, fs) : i.category = c})]
=============================================================================
