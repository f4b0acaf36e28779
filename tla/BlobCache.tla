----------------------------- MODULE BlobCache -----------------------------
(***************************************************************************)
(* The blob descriptor cache that the doctor examines: the three key       *)
(* shapes of distribution's Redis cache, the storage tree beside it, the   *)
(* Redis commands that the registry and `rcd clean` send, and what a pull  *)
(* makes of the result.  The shapes are those of src/src/rcd/models.py;    *)
(* Redis and the registry are external and follow the way src/ uses them.  *)
(***************************************************************************)
CONSTANTS Repos,     \* repository names
          Digests,   \* blob digests
          Sizes,     \* blob sizes, in Redis and on disk
          None,      \* Python's None: no size, no repository, no file
          NoKey      \* a digest with no global hash at all

ASSUME SpecialValues ==
    /\ None \notin Sizes /\ NoKey \notin Sizes
    /\ None # NoKey
    /\ None \notin Repos

Pair == Repos \X Digests

\* The three shapes of key, `blobs::<digest>`, `repository::<repo>::blobs` and
\* `repository::<repo>::blobs::<digest>`, are told apart by their parts: in the
\* models a digest, a repository and a pair of them.
ASSUME KeyShapes ==
    /\ Repos \intersect Digests = {}
    /\ \A k \in Repos \union Digests : k \notin Pair

\* A global hash holds a size, or exists without one, or does not exist.
GlobalBlob == Sizes \union {None, NoKey}

(***************************************************************************)
(* A state of Redis and a snapshot of it have the same shape.  Redis       *)
(* removes a set or hash with its last element, so both are just members.  *)
(* digest_fields are the global hashes that have the field `digest`: the   *)
(* registry wants to see it, and the doctor fetches it and looks away.     *)
(***************************************************************************)
RedisState == [global_blobs     : [Digests -> GlobalBlob],
               digest_fields    : SUBSET Digests,
               repo_blob_sets   : SUBSET Pair,
               repo_blob_hashes : SUBSET Pair]

\* A hash that does not exist has no field; one that exists may lack any.
CacheState == {r \in RedisState :
                  \A d \in r.digest_fields : r.global_blobs[d] # NoKey}

FsState == [Digests -> Sizes \union {None}]

-----------------------------------------------------------------------------
\* Redis commands.  Each one is atomic; a pipeline of them is not.

Srem(p) == [verb |-> "SREM", repo |-> p[1], digest |-> p[2]]
Del(p)  == [verb |-> "DEL",  repo |-> p[1], digest |-> p[2]]
Hdel(d) == [verb |-> "HDEL", repo |-> None, digest |-> d]

Command == [verb : {"SREM", "DEL"}, repo : Repos, digest : Digests]
             \union [verb : {"HDEL"}, repo : {None}, digest : Digests]

\* HDEL names all three fields of a global hash, which removes the key.
Exec(r, c) ==
    CASE c.verb = "SREM" ->
            [r EXCEPT !.repo_blob_sets = @ \ {<<c.repo, c.digest>>}]
      [] c.verb = "DEL"  ->
            [r EXCEPT !.repo_blob_hashes = @ \ {<<c.repo, c.digest>>}]
      [] c.verb = "HDEL" ->
            [r EXCEPT !.global_blobs[c.digest] = NoKey,
                      !.digest_fields = @ \ {c.digest}]

\* What a removal command leaves behind: the thing it names is not there.
Gone(r, c) ==
    CASE c.verb = "SREM" -> <<c.repo, c.digest>> \notin r.repo_blob_sets
      [] c.verb = "DEL"  -> <<c.repo, c.digest>> \notin r.repo_blob_hashes
      [] c.verb = "HDEL" -> r.global_blobs[c.digest] = NoKey

\* The commands of the registry's SetDescriptor, in the order it sends them:
\* SADD, HMSET digest size, HSETNX mediatype, HSET mediatype of the repository.
Sadd(r, p)     == [r EXCEPT !.repo_blob_sets = @ \union {p}]
Hmset(r, d, s) == [r EXCEPT !.global_blobs[d] = s,
                            !.digest_fields = @ \union {d}]
Hsetnx(r, d)   == [r EXCEPT !.global_blobs[d] = IF @ = NoKey THEN None ELSE @]
Hset(r, p)     == [r EXCEPT !.repo_blob_hashes = @ \union {p}]

-----------------------------------------------------------------------------
\* The registry's read path.  Stat hits when the repository's set has the
\* digest, the global hash has both its digest and a size and the repository's
\* hash exists.

StatHit(r, p) == /\ p \in r.repo_blob_sets
                 /\ p[2] \in r.digest_fields
                 /\ r.global_blobs[p[2]] \in Sizes
                 /\ p \in r.repo_blob_hashes

\* The size a pull announces from the cache; None is a miss, which sends the
\* pull to the backend and rewrites the descriptor.
Served(r, p) == IF StatHit(r, p) THEN r.global_blobs[p[2]] ELSE None

\* A hit whose file is missing or has another size: the client sees a broken
\* body.  A miss never breaks a pull.
PullBroken(r, fs, p) == /\ StatHit(r, p)
                        /\ fs[p[2]] # r.global_blobs[p[2]]
=============================================================================
