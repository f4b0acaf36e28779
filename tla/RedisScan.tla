----------------------------- MODULE RedisScan -----------------------------
(***************************************************************************)
(* scan_redis, one scan of one registry's Redis: two SCAN passes, then the *)
(* fetches of what they have found, key by key.  Nothing is locked, and    *)
(* Redis may change at any moment: SCAN looks at every key at some moment  *)
(* of its pass, the fetches that follow look again, in any order.  Who     *)
(* changes Redis is a matter of the modules that use this one.             *)
(* Definitions marked "Slip" are mistakes that the properties must see.    *)
(***************************************************************************)
EXTENDS Classifier

VARIABLES redis,
          scan_pc,      \* what the thread is doing
          todo,         \* keys it has still to look at in this pass
          found,        \* keys that SCAN has returned
          snapshot      \* the RedisSnapshot under construction

-----------------------------------------------------------------------------
\* Keys.  A digest stands for its global hash, a repository for its set, a
\* pair for its repository hash.

\* Slip: a key counts as found wherever the cursor looks.
ExistsAnywhere(k) == TRUE

Exists(k) == \/ k \in Digests /\ redis.global_blobs[k] # NoKey
             \/ k \in Repos /\ \E d \in Digests : <<k, d>> \in redis.repo_blob_sets
             \/ k \in Pair /\ k \in redis.repo_blob_hashes

\* Slip: the pattern of the second SCAN matches the sets alone.
RepositoryKeysSetsOnly == Repos

\* What the second SCAN comes across: one pattern for two shapes.
RepositoryKeys == Repos \union Pair

\* Slip: the cursor of the second SCAN starts over.
NextPassAgain == [globals |-> "repos", repos |-> "globals", hmget |-> "hget",
                  hget |-> "smembers", smembers |-> "done"]

\* Both SCANs come first, then the fetches of what they found.
NextPass == [globals |-> "repos", repos |-> "hmget", hmget |-> "hget",
             hget |-> "smembers", smembers |-> "done"]

KeysOf(pass) == CASE pass = "globals"  -> Digests
                  [] pass = "repos"    -> RepositoryKeys
                  [] pass = "hmget"    -> found \intersect Digests
                  [] pass = "hget"     -> found \intersect Pair
                  [] pass = "smembers" -> found \intersect Repos
                  [] OTHER             -> {}

\* A snapshot has no field `digest`: the fetch drops it.
EmptyRedis == [global_blobs     |-> [d \in Digests |-> NoKey],
               digest_fields    |-> {},
               repo_blob_sets   |-> {},
               repo_blob_hashes |-> {}]

ThreadInit == /\ scan_pc = "globals"
              /\ todo = KeysOf("globals")
              /\ found = {}
              /\ snapshot = EmptyRedis

-----------------------------------------------------------------------------
\* The thread is done with one key of the pass.
Ticks(pass, k) ==
    /\ scan_pc = pass
    /\ k \in todo
    /\ todo' = todo \ {k}
    /\ UNCHANGED scan_pc

\* SCAN comes across a key, or across the place where it is not.
ScanKey(k) ==
    /\ Ticks("globals", k) \/ Ticks("repos", k)
    /\ found' = IF Exists(k) THEN found \union {k} ELSE found
    /\ UNCHANGED snapshot

\* Slip: a hash without a size is dropped from the snapshot.
FetchedIfSized(d) == IF GlobalValid(redis, d) THEN RedisSize(redis, d) ELSE NoKey

\* HMGET of a global hash.  A key that has gone since answers None for every
\* field, like a hash without a size.
Fetched(d) == RedisSize(redis, d)

FetchGlobal(d) ==
    /\ Ticks("hmget", d)
    /\ snapshot' = [snapshot EXCEPT !.global_blobs[d] = Fetched(d)]
    /\ UNCHANGED found

\* HGET of a repository hash: the pair is kept whatever the answer.
FetchRepoHash(p) ==
    /\ Ticks("hget", p)
    /\ snapshot' = [snapshot EXCEPT !.repo_blob_hashes = @ \union {p}]
    /\ UNCHANGED found

\* SMEMBERS of a repository's set.
FetchRepoSet(repo) ==
    /\ Ticks("smembers", repo)
    /\ snapshot' = [snapshot EXCEPT !.repo_blob_sets =
                       @ \union {p \in redis.repo_blob_sets : p[1] = repo}]
    /\ UNCHANGED found

EndPass ==
    /\ todo = {}
    /\ scan_pc \in DOMAIN NextPass
    /\ scan_pc' = NextPass[scan_pc]
    /\ todo' = KeysOf(scan_pc')
    /\ UNCHANGED <<found, snapshot>>

\* Any error of the client, and the scan has no result.
ScanError ==
    /\ scan_pc \in DOMAIN NextPass
    /\ scan_pc' = "failed"
    /\ UNCHANGED <<todo, found, snapshot>>

ScanRedis == \/ \E k \in todo : \/ ScanKey(k) \/ FetchGlobal(k)
                                \/ FetchRepoHash(k) \/ FetchRepoSet(k)
             \/ EndPass
=============================================================================
