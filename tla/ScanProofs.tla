----------------------------- MODULE ScanProofs -----------------------------
(***************************************************************************)
(* Proofs of what a scan of a moving registry may say, and `rcd inspect`   *)
(* with its two scans, for any repositories, digests, sizes and numbers of *)
(* faults.                                                                 *)
(***************************************************************************)
EXTENDS Inspect, ClassifierFacts

(***************************************************************************)
(* The inductive invariant: where a fact of the history is looked for in   *)
(* each pass, and where a fact of the snapshot comes from.                 *)
(***************************************************************************)

\* The histories bracket the state of the world.
HistoryInv == /\ Facts(redis, storage) \subseteq ever
              /\ always \subseteq Facts(redis, storage)

\* A pass looks at keys of its own.
TodoInv == scan_pc \in DOMAIN NextPass => todo \subseteq KeysOf(scan_pc)

\* The key of a fact that has held all along is still to be looked at, or has
\* been found, or its value is in the snapshot.
GlobalsInv ==
    \A d \in Digests, s \in Sizes \union {None} :
        <<"global", d, s>> \in always =>
            /\ scan_pc = "globals" => d \in todo \union found
            /\ scan_pc = "repos" => d \in found
            /\ scan_pc = "hmget" => d \in todo \/ snapshot.global_blobs[d] = s
            /\ scan_pc \in {"hget", "smembers", "done"} =>
                  snapshot.global_blobs[d] = s

HashesInv ==
    \A p \in Pair :
        <<"hash", p>> \in always =>
            /\ scan_pc = "repos" => p \in todo \union found
            /\ scan_pc = "hmget" => p \in found
            /\ scan_pc = "hget" => p \in todo \union snapshot.repo_blob_hashes
            /\ scan_pc \in {"smembers", "done"} => p \in snapshot.repo_blob_hashes

SetsInv ==
    \A p \in Pair :
        <<"member", p>> \in always =>
            /\ scan_pc = "repos" => p[1] \in todo \union found
            /\ scan_pc \in {"hmget", "hget"} => p[1] \in found
            /\ scan_pc = "smembers" => p[1] \in todo \/ p \in snapshot.repo_blob_sets
            /\ scan_pc = "done" => p \in snapshot.repo_blob_sets

FilesInv ==
    /\ \A d \in Digests, s \in Sizes :
          <<"file", d, s>> \in always /\ mounted => d \in fs_todo \/ fs[d] = s
    /\ \A d \in Digests : fs[d] # None => <<"file", d, fs[d]>> \in ever
    /\ ~mounted => fs_todo = {} /\ \A d \in Digests : fs[d] = None

\* Of a digest whose key SCAN has returned, some global hash has existed.
EverGlobal(d) == \E s \in Sizes \union {None} : <<"global", d, s>> \in ever

\* What has been found or fetched has been there.
InventedInv ==
    /\ \A d \in found \intersect Digests : EverGlobal(d)
    /\ \A p \in found \intersect Pair : <<"hash", p>> \in ever
    /\ \A p \in snapshot.repo_blob_sets : <<"member", p>> \in ever
    /\ \A p \in snapshot.repo_blob_hashes : <<"hash", p>> \in ever
    /\ \A d \in Digests : snapshot.global_blobs[d] # NoKey =>
          /\ EverGlobal(d)
          /\ snapshot.global_blobs[d] # None =>
                <<"global", d, snapshot.global_blobs[d]>> \in ever

SInv == /\ TypeOK /\ HistoryInv /\ TodoInv
        /\ GlobalsInv /\ HashesInv /\ SetsInv /\ FilesInv /\ InventedInv

-----------------------------------------------------------------------------
(***************************************************************************)
(* Facts.                                                                  *)
(***************************************************************************)

LEMMA FactsMeaning ==
    ASSUME NEW r, NEW s
    PROVE  /\ \A p : <<"member", p>> \in Facts(r, s) <=> p \in r.repo_blob_sets
           /\ \A p : <<"hash", p>> \in Facts(r, s) <=> p \in r.repo_blob_hashes
           /\ \A d, x : <<"global", d, x>> \in Facts(r, s) <=>
                 d \in Digests /\ r.global_blobs[d] # NoKey /\ x = r.global_blobs[d]
           /\ \A d, x : <<"file", d, x>> \in Facts(r, s) <=>
                 d \in Digests /\ s[d] # None /\ x = s[d]
<1>1. \A p : <<"member", p>> \in Facts(r, s) <=> p \in r.repo_blob_sets
  BY DEF Facts
<1>2. \A p : <<"hash", p>> \in Facts(r, s) <=> p \in r.repo_blob_hashes
  BY DEF Facts
<1>3. \A d, x : <<"global", d, x>> \in Facts(r, s) <=>
         d \in Digests /\ r.global_blobs[d] # NoKey /\ x = r.global_blobs[d]
  BY DEF Facts
<1>4. \A d, x : <<"file", d, x>> \in Facts(r, s) <=>
         d \in Digests /\ s[d] # None /\ x = s[d]
  BY DEF Facts
<1> QED BY <1>1, <1>2, <1>3, <1>4

LEMMA FactsForms ==
    ASSUME NEW r, NEW s, NEW f \in Facts(r, s)
    PROVE  \/ \E p \in r.repo_blob_sets : f = <<"member", p>>
           \/ \E p \in r.repo_blob_hashes : f = <<"hash", p>>
           \/ \E d \in Digests : /\ f = <<"global", d, r.global_blobs[d]>>
                                 /\ r.global_blobs[d] # NoKey
           \/ \E d \in Digests : f = <<"file", d, s[d]>> /\ s[d] # None
BY DEF Facts

\* What the world's steps leave of the histories.
LEMMA HistoryStep ==
    ASSUME NEW r, NEW s, HistoryInv, Happens(r, s)
    PROVE  HistoryInv' /\ always' \subseteq always /\ ever \subseteq ever'
BY DEF HistoryInv, Happens

\* Passes.
LEMMA Passes ==
    /\ DOMAIN NextPass = {"globals", "repos", "hmget", "hget", "smembers"}
    /\ NextPass["globals"] = "repos" /\ NextPass["repos"] = "hmget"
    /\ NextPass["hmget"] = "hget" /\ NextPass["hget"] = "smembers"
    /\ NextPass["smembers"] = "done"
BY DEF NextPass

LEMMA KeysOfPass ==
    /\ KeysOf("globals") = Digests
    /\ KeysOf("repos") = Repos \union Pair
    /\ KeysOf("hmget") = found \intersect Digests
    /\ KeysOf("hget") = found \intersect Pair
    /\ KeysOf("smembers") = found \intersect Repos
    /\ KeysOf("done") = {}
BY DEF KeysOf, RepositoryKeys

\* What a key that SCAN comes across stands for.
LEMMA ExistsMeaning ==
    /\ \A d \in Digests : Exists(d) <=> redis.global_blobs[d] # NoKey
    /\ \A repo \in Repos : Exists(repo) <=>
          \E d \in Digests : <<repo, d>> \in redis.repo_blob_sets
    /\ \A p \in Pair : Exists(p) <=> p \in redis.repo_blob_hashes
<1>1. /\ \A d \in Digests : d \notin Repos /\ d \notin Pair
      /\ \A repo \in Repos : repo \notin Digests /\ repo \notin Pair
      /\ \A p \in Pair : p \notin Repos /\ p \notin Digests
  BY KeyShapes
<1> QED BY <1>1 DEF Exists

-----------------------------------------------------------------------------
(***************************************************************************)
(* The steps.                                                              *)
(***************************************************************************)

\* The threads begin, before the histories have anything to miss.
LEMMA FreshThread ==
    ASSUME scan_pc = "globals", todo = Digests, found = {}, snapshot = EmptyRedis
    PROVE  TodoInv /\ GlobalsInv /\ HashesInv /\ SetsInv /\ InventedInv
<1>1. TodoInv
  BY KeysOfPass DEF TodoInv
<1>2. GlobalsInv /\ HashesInv /\ SetsInv
  BY DEF GlobalsInv, HashesInv, SetsInv
<1>3. /\ snapshot.repo_blob_sets = {} /\ snapshot.repo_blob_hashes = {}
      /\ \A d \in Digests : snapshot.global_blobs[d] = NoKey
  BY DEF EmptyRedis
<1>4. InventedInv
  BY <1>3 DEF InventedInv
<1> QED BY <1>1, <1>2, <1>4

LEMMA EmptyTypes == EmptyRedis \in RedisState /\ EmptyFs \in FsState
BY DEF EmptyRedis, EmptyFs, RedisState, FsState, GlobalBlob

LEMMA ScanInit == Init => SInv
<1> SUFFICES ASSUME Init PROVE SInv
  OBVIOUS
<1>1. /\ scan_pc = "globals" /\ todo = Digests /\ found = {}
      /\ snapshot = EmptyRedis
  BY KeysOfPass DEF Init, ThreadInit
<1>2. TypeOK
  <2>1. scan_pc \in DOMAIN NextPass
    BY <1>1, Passes
  <2> QED BY <1>1, <2>1, EmptyTypes, ScanAssumption DEF Init, TypeOK, CacheState
<1>3. HistoryInv
  BY DEF Init, HistoryInv
<1>4. FilesInv
  <2>1. \A d \in Digests : fs[d] = None
    BY DEF Init, EmptyFs
  <2>2. mounted => fs_todo = Digests
    BY DEF Init
  <2>3. ~mounted => fs_todo = {}
    BY DEF Init
  <2> QED BY <2>1, <2>2, <2>3 DEF FilesInv
<1> QED BY <1>1, <1>2, <1>3, <1>4, FreshThread DEF SInv

\* The thread's invariants speak of the histories only.
LEMMA Monotone ==
    ASSUME always' \subseteq always, ever \subseteq ever',
           UNCHANGED <<thread, files>>
    PROVE  /\ TodoInv => TodoInv'
           /\ GlobalsInv => GlobalsInv'
           /\ HashesInv => HashesInv'
           /\ SetsInv => SetsInv'
           /\ FilesInv => FilesInv'
           /\ InventedInv => InventedInv'
<1>1. UNCHANGED <<scan_pc, todo, found, snapshot, mounted, fs_todo, fs>>
  BY DEF thread, files
<1>2. TodoInv => TodoInv'
  BY <1>1 DEF TodoInv, KeysOf
<1>3. GlobalsInv => GlobalsInv'
  BY <1>1 DEF GlobalsInv
<1>4. HashesInv => HashesInv'
  BY <1>1 DEF HashesInv
<1>5. SetsInv => SetsInv'
  BY <1>1 DEF SetsInv
<1>6. FilesInv => FilesInv'
  BY <1>1 DEF FilesInv
<1>7. InventedInv => InventedInv'
  BY <1>1 DEF InventedInv, EverGlobal
<1> QED BY <1>2, <1>3, <1>4, <1>5, <1>6, <1>7

\* The registry's commands keep the shape of Redis.
LEMMA WriteType ==
    ASSUME NEW r \in RedisState, NEW p \in Pair
    PROVE  /\ Sadd(r, p) \in RedisState
           /\ Hmset(r, p[2], BlobSize[p[2]]) \in RedisState
           /\ Hsetnx(r, p[2]) \in RedisState
           /\ Hset(r, p) \in RedisState
<1>1. p[2] \in Digests /\ BlobSize[p[2]] \in Sizes
  BY ScanAssumption DEF Pair
<1>2. Sadd(r, p) \in RedisState /\ Hset(r, p) \in RedisState
  BY DEF RedisState, Sadd, Hset
<1>3. Hmset(r, p[2], BlobSize[p[2]]) \in RedisState
  BY <1>1 DEF RedisState, Hmset, GlobalBlob
<1>4. Hsetnx(r, p[2]) \in RedisState
  BY <1>1 DEF RedisState, Hsetnx, GlobalBlob
<1> QED BY <1>2, <1>3, <1>4

LEMMA RemovalType ==
    ASSUME NEW r \in RedisState, NEW c \in Command
    PROVE  Exec(r, c) \in RedisState
<1>1. c.digest \in Digests
  BY DEF Command
<1>2. CASE c.verb = "SREM"
  <2>1. Exec(r, c) = [r EXCEPT !.repo_blob_sets = @ \ {<<c.repo, c.digest>>}]
    BY <1>2 DEF Exec
  <2> QED BY <2>1 DEF RedisState
<1>3. CASE c.verb = "DEL"
  <2>1. Exec(r, c) = [r EXCEPT !.repo_blob_hashes = @ \ {<<c.repo, c.digest>>}]
    BY <1>3 DEF Exec
  <2> QED BY <2>1 DEF RedisState
<1>4. CASE c.verb = "HDEL"
  <2>1. Exec(r, c) = [r EXCEPT !.global_blobs[c.digest] = NoKey,
                              !.digest_fields = @ \ {c.digest}]
    BY <1>4 DEF Exec
  <2> QED BY <1>1, <2>1 DEF RedisState, GlobalBlob
<1> QED BY <1>2, <1>3, <1>4 DEF Command

LEMMA WorldStep == SInv /\ World => SInv'
<1> SUFFICES ASSUME SInv, World PROVE SInv'
  OBVIOUS
<1>1. redis \in RedisState /\ storage \in FsState
  BY DEF SInv, TypeOK
<1>2. /\ redis' \in RedisState /\ storage' \in FsState
      /\ request' \in [Pair -> 0 .. 5] /\ faults' \in 0 .. MaxFaults
      /\ \E r, s : Happens(r, s)
  <2>1. ASSUME NEW p \in Pair, Request(p)
        PROVE  /\ redis' \in RedisState /\ storage' \in FsState
               /\ request' \in [Pair -> 0 .. 5] /\ faults' \in 0 .. MaxFaults
               /\ \E r, s : Happens(r, s)
    <3> DEFINE r == CASE request[p] = 1 -> Sadd(redis, p)
                      [] request[p] = 2 -> Hmset(redis, p[2], BlobSize[p[2]])
                      [] request[p] = 3 -> Hsetnx(redis, p[2])
                      [] request[p] = 4 -> Hset(redis, p)
                      [] OTHER          -> redis
               s == IF request[p] = 0
                    THEN [storage EXCEPT ![p[2]] = BlobSize[p[2]]] ELSE storage
    <3>1. Happens(r, s)
      BY <2>1 DEF Request
    <3>2. r \in RedisState
      BY <1>1, WriteType
    <3>3. s \in FsState
      BY <1>1, ScanAssumption DEF FsState, Pair
    <3> HIDE DEF r, s
    <3>4. redis' = r /\ storage' = s
      BY <3>1 DEF Happens
    <3>5. request' \in [Pair -> 0 .. 5] /\ faults' = faults
      BY <2>1 DEF Request, SInv, TypeOK
    <3> QED BY <3>1, <3>2, <3>3, <3>4, <3>5 DEF SInv, TypeOK
  <2>2. ASSUME NEW d \in Digests, LoseFile(d)
        PROVE  /\ redis' \in RedisState /\ storage' \in FsState
               /\ request' \in [Pair -> 0 .. 5] /\ faults' \in 0 .. MaxFaults
               /\ \E r, s : Happens(r, s)
    <3>1. PICK s \in Sizes \union {None} :
             Fault(redis, [storage EXCEPT ![d] = s])
      BY <2>2 DEF LoseFile
    <3>2. [storage EXCEPT ![d] = s] \in FsState
      BY <1>1 DEF FsState
    <3>3. /\ Happens(redis, [storage EXCEPT ![d] = s])
          /\ request' = request /\ faults < MaxFaults /\ faults' = faults + 1
      BY <3>1 DEF Fault
    <3>4. redis' = redis /\ storage' = [storage EXCEPT ![d] = s]
      BY <3>3 DEF Happens
    <3> QED BY <1>1, <3>2, <3>3, <3>4, ScanAssumption DEF SInv, TypeOK
  <2>3. ASSUME NEW c \in Command, ForeignClean(c)
        PROVE  /\ redis' \in RedisState /\ storage' \in FsState
               /\ request' \in [Pair -> 0 .. 5] /\ faults' \in 0 .. MaxFaults
               /\ \E r, s : Happens(r, s)
    <3>1. /\ Happens(Exec(redis, c), storage)
          /\ request' = request /\ faults < MaxFaults /\ faults' = faults + 1
      BY <2>3 DEF ForeignClean, Fault
    <3>2. redis' = Exec(redis, c) /\ storage' = storage
      BY <3>1 DEF Happens
    <3>3. Exec(redis, c) \in RedisState
      BY <1>1, RemovalType
    <3> QED BY <1>1, <3>1, <3>2, <3>3, ScanAssumption DEF SInv, TypeOK
  <2> QED BY <2>1, <2>2, <2>3 DEF World
<1>3. PICK r, s : Happens(r, s)
  BY <1>2
<1>4. HistoryInv' /\ always' \subseteq always /\ ever \subseteq ever'
  BY <1>3, HistoryStep DEF SInv
<1>5. UNCHANGED <<thread, files>>
  BY <1>3 DEF Happens
<1>6. TypeOK'
  BY <1>2, <1>5 DEF SInv, TypeOK, thread, files
<1> QED BY <1>4, <1>5, <1>6, Monotone DEF SInv

LEMMA StatFileStep ==
    ASSUME SInv, NEW d \in Digests, StatFile(d)
    PROVE  SInv'
<1>1. /\ d \in fs_todo /\ fs_todo' = fs_todo \ {d}
      /\ fs' = [fs EXCEPT ![d] = storage[d]]
      /\ UNCHANGED <<redis, storage, request, faults, scan_pc, todo, found,
                     snapshot, ever, always, mounted>>
  BY DEF StatFile, StatSize, world, thread, history
<1>2. fs \in FsState /\ storage \in FsState
  BY DEF SInv, TypeOK
<1>3. TypeOK'
  BY <1>1, <1>2 DEF SInv, TypeOK, FsState
<1>4. FilesInv'
  <2>1. \A e \in Digests : fs'[e] = IF e = d THEN storage[d] ELSE fs[e]
    BY <1>1, <1>2 DEF FsState
  <2>2. mounted
    BY <1>1 DEF SInv, FilesInv
  <2>3. ASSUME NEW e \in Digests, NEW s \in Sizes, <<"file", e, s>> \in always
        PROVE  e \in fs_todo' \/ fs'[e] = s
    <3>1. CASE e = d
      <4>1. <<"file", d, s>> \in Facts(redis, storage)
        BY <2>3, <3>1 DEF SInv, HistoryInv
      <4>2. s = storage[d]
        BY <4>1, FactsMeaning
      <4> QED BY <2>1, <3>1, <4>2
    <3>2. CASE e # d
      BY <1>1, <2>1, <2>2, <2>3, <3>2 DEF SInv, FilesInv
    <3> QED BY <3>1, <3>2
  <2>4. ASSUME NEW e \in Digests, fs'[e] # None
        PROVE  <<"file", e, fs'[e]>> \in ever
    <3>1. CASE e = d
      <4>1. <<"file", d, storage[d]>> \in Facts(redis, storage)
        BY <2>1, <2>4, <3>1, FactsMeaning
      <4> QED BY <2>1, <3>1, <4>1 DEF SInv, HistoryInv
    <3>2. CASE e # d
      BY <2>1, <2>4, <3>2 DEF SInv, FilesInv
    <3> QED BY <3>1, <3>2
  <2> QED BY <1>1, <2>2, <2>3, <2>4 DEF FilesInv
<1>5. HistoryInv' /\ TodoInv' /\ GlobalsInv' /\ HashesInv' /\ SetsInv' /\ InventedInv'
  BY <1>1 DEF SInv, HistoryInv, TodoInv, KeysOf, GlobalsInv, HashesInv, SetsInv,
              InventedInv, EverGlobal
<1> QED BY <1>3, <1>4, <1>5 DEF SInv

\* A step of the thread leaves the world, the histories and the files alone.
LEMMA ThreadLeaves ==
    ASSUME UNCHANGED <<world, files, history>>
    PROVE  /\ HistoryInv => HistoryInv'
           /\ FilesInv => FilesInv'
<1>1. UNCHANGED <<redis, storage, ever, always, mounted, fs_todo, fs>>
  BY DEF world, files, history
<1> QED BY <1>1 DEF HistoryInv, FilesInv

LEMMA ScanKeyStep ==
    ASSUME SInv, NEW k \in todo, ScanKey(k),
           UNCHANGED <<world, files, history>>
    PROVE  SInv'
<1>1. /\ scan_pc \in {"globals", "repos"} /\ scan_pc' = scan_pc
      /\ todo' = todo \ {k}
      /\ found' = IF Exists(k) THEN found \union {k} ELSE found
      /\ snapshot' = snapshot
      /\ UNCHANGED <<world, files, history>>
  BY DEF ScanKey, Ticks
<1>2. UNCHANGED <<redis, storage, request, faults, mounted, fs_todo, fs, ever, always>>
  BY <1>1 DEF world, files, history
<1>3. TypeOK'
  BY <1>1, <1>2 DEF SInv, TypeOK
<1>4. TodoInv'
  <2>1. todo \subseteq KeysOf(scan_pc)
    BY <1>1, Passes DEF SInv, TodoInv
  <2>2. KeysOf(scan_pc)' = KeysOf(scan_pc)
    BY <1>1 DEF KeysOf
  <2> QED BY <1>1, <2>1, <2>2 DEF TodoInv
<1>5. GlobalsInv'
  <2> SUFFICES ASSUME NEW d \in Digests, NEW s \in Sizes \union {None},
                      <<"global", d, s>> \in always
               PROVE  /\ scan_pc = "globals" => d \in todo' \union found'
                      /\ scan_pc = "repos" => d \in found'
    BY <1>1, <1>2 DEF GlobalsInv
  <2>1. redis.global_blobs[d] # NoKey
    <3>1. <<"global", d, s>> \in Facts(redis, storage)
      BY DEF SInv, HistoryInv
    <3> QED BY <3>1, FactsMeaning
  <2>2. Exists(d)
    BY <2>1, ExistsMeaning
  <2> QED BY <1>1, <2>2 DEF SInv, GlobalsInv
<1>6. HashesInv'
  <2> SUFFICES ASSUME NEW p \in Pair, <<"hash", p>> \in always, scan_pc = "repos"
               PROVE  p \in todo' \union found'
    BY <1>1, <1>2 DEF HashesInv
  <2>1. p \in redis.repo_blob_hashes
    <3>1. <<"hash", p>> \in Facts(redis, storage)
      BY DEF SInv, HistoryInv
    <3> QED BY <3>1, FactsMeaning
  <2>2. Exists(p)
    BY <2>1, ExistsMeaning
  <2> QED BY <1>1, <2>2 DEF SInv, HashesInv
<1>7. SetsInv'
  <2> SUFFICES ASSUME NEW p \in Pair, <<"member", p>> \in always, scan_pc = "repos"
               PROVE  p[1] \in todo' \union found'
    BY <1>1, <1>2 DEF SetsInv
  <2>1. p \in redis.repo_blob_sets
    <3>1. <<"member", p>> \in Facts(redis, storage)
      BY DEF SInv, HistoryInv
    <3> QED BY <3>1, FactsMeaning
  <2>2. Exists(p[1])
    <3>1. p[1] \in Repos /\ p[2] \in Digests /\ p = <<p[1], p[2]>>
      BY DEF Pair
    <3>2. \E d \in Digests : <<p[1], d>> \in redis.repo_blob_sets
      BY <2>1, <3>1
    <3> QED BY <3>1, <3>2, ExistsMeaning
  <2> QED BY <1>1, <2>2 DEF SInv, SetsInv
<1>8. InventedInv'
  <2>1. ASSUME k \in Digests, Exists(k) PROVE EverGlobal(k)
    <3>1. /\ redis.global_blobs[k] # NoKey
          /\ redis.global_blobs[k] \in Sizes \union {None}
      BY <2>1, ExistsMeaning DEF SInv, TypeOK, RedisState, GlobalBlob
    <3>2. <<"global", k, redis.global_blobs[k]>> \in ever
      BY <2>1, <3>1, FactsMeaning DEF SInv, HistoryInv
    <3> QED BY <3>1, <3>2 DEF EverGlobal
  <2>2. ASSUME k \in Pair, Exists(k) PROVE <<"hash", k>> \in ever
    <3>1. k \in redis.repo_blob_hashes
      BY <2>2, ExistsMeaning
    <3> QED BY <3>1, FactsMeaning DEF SInv, HistoryInv
  <2> QED BY <1>1, <1>2, <2>1, <2>2 DEF SInv, InventedInv, EverGlobal
<1> QED BY <1>1, <1>3, <1>4, <1>5, <1>6, <1>7, <1>8, ThreadLeaves DEF SInv

LEMMA FetchGlobalStep ==
    ASSUME SInv, NEW d \in todo, FetchGlobal(d),
           UNCHANGED <<world, files, history>>
    PROVE  SInv'
<1>1. /\ scan_pc = "hmget" /\ scan_pc' = "hmget"
      /\ todo' = todo \ {d} /\ found' = found
      /\ snapshot' = [snapshot EXCEPT !.global_blobs[d] = RedisSize(redis, d)]
      /\ UNCHANGED <<world, files, history>>
  BY DEF FetchGlobal, Ticks, Fetched
<1>2. UNCHANGED <<redis, storage, request, faults, mounted, fs_todo, fs, ever, always>>
  BY <1>1 DEF world, files, history
<1>3. d \in found \intersect Digests
  BY <1>1, Passes, KeysOfPass DEF SInv, TodoInv
<1>4. redis \in RedisState /\ snapshot \in RedisState
  BY DEF SInv, TypeOK
<1>5. /\ RedisSize(redis, d) \in Sizes \union {None}
      /\ RedisSize(redis, d) # NoKey
      /\ redis.global_blobs[d] # NoKey => RedisSize(redis, d) = redis.global_blobs[d]
      /\ RedisSize(redis, d) # None => redis.global_blobs[d] # NoKey
  BY <1>3, <1>4, SpecialValues DEF RedisSize, RedisState, GlobalBlob
<1>6. /\ snapshot'.repo_blob_sets = snapshot.repo_blob_sets
      /\ snapshot'.repo_blob_hashes = snapshot.repo_blob_hashes
      /\ \A e \in Digests : snapshot'.global_blobs[e] =
            IF e = d THEN RedisSize(redis, d) ELSE snapshot.global_blobs[e]
      /\ snapshot' \in RedisState
  BY <1>1, <1>3, <1>4, <1>5 DEF RedisState, GlobalBlob
<1>7. TypeOK'
  BY <1>1, <1>2, <1>6 DEF SInv, TypeOK
<1>8. TodoInv'
  BY <1>1, Passes DEF SInv, TodoInv, KeysOf
<1>9. GlobalsInv'
  <2> SUFFICES ASSUME NEW e \in Digests, NEW s \in Sizes \union {None},
                      <<"global", e, s>> \in always
               PROVE  e \in todo' \/ snapshot'.global_blobs[e] = s
    BY <1>1, <1>2 DEF GlobalsInv
  <2>1. redis.global_blobs[e] # NoKey /\ s = redis.global_blobs[e]
    <3>1. <<"global", e, s>> \in Facts(redis, storage)
      BY DEF SInv, HistoryInv
    <3> QED BY <3>1, FactsMeaning
  <2>2. CASE e = d
    BY <1>5, <1>6, <2>1, <2>2
  <2>3. CASE e # d
    BY <1>1, <1>6, <2>3 DEF SInv, GlobalsInv
  <2> QED BY <2>2, <2>3
<1>10. HashesInv' /\ SetsInv'
  BY <1>1, <1>2 DEF SInv, HashesInv, SetsInv
<1>11. InventedInv'
  <2>1. EverGlobal(d)
    BY <1>3 DEF SInv, InventedInv
  <2>2. ASSUME RedisSize(redis, d) # None
        PROVE  <<"global", d, RedisSize(redis, d)>> \in ever
    <3>1. <<"global", d, redis.global_blobs[d]>> \in Facts(redis, storage)
      BY <1>3, <1>5, <2>2, FactsMeaning
    <3> QED BY <1>5, <2>2, <3>1 DEF SInv, HistoryInv
  <2>3. ASSUME NEW e \in Digests, snapshot'.global_blobs[e] # NoKey
        PROVE  /\ EverGlobal(e)
               /\ snapshot'.global_blobs[e] # None =>
                     <<"global", e, snapshot'.global_blobs[e]>> \in ever
    <3>1. CASE e = d
      BY <1>6, <2>1, <2>2, <3>1
    <3>2. CASE e # d
      BY <1>6, <2>3, <3>2 DEF SInv, InventedInv
    <3> QED BY <3>1, <3>2
  <2> QED BY <1>1, <1>2, <1>6, <2>3 DEF SInv, InventedInv, EverGlobal
<1> QED BY <1>1, <1>7, <1>8, <1>9, <1>10, <1>11, ThreadLeaves DEF SInv

LEMMA FetchRepoHashStep ==
    ASSUME SInv, NEW q \in todo, FetchRepoHash(q),
           UNCHANGED <<world, files, history>>
    PROVE  SInv'
<1>1. /\ scan_pc = "hget" /\ scan_pc' = "hget"
      /\ todo' = todo \ {q} /\ found' = found
      /\ snapshot' = [snapshot EXCEPT !.repo_blob_hashes = @ \union {q}]
      /\ UNCHANGED <<world, files, history>>
  BY DEF FetchRepoHash, Ticks
<1>2. UNCHANGED <<redis, storage, request, faults, mounted, fs_todo, fs, ever, always>>
  BY <1>1 DEF world, files, history
<1>3. q \in found \intersect Pair
  BY <1>1, Passes, KeysOfPass DEF SInv, TodoInv
<1>4. /\ snapshot'.repo_blob_sets = snapshot.repo_blob_sets
      /\ snapshot'.repo_blob_hashes = snapshot.repo_blob_hashes \union {q}
      /\ snapshot'.global_blobs = snapshot.global_blobs
      /\ snapshot' \in RedisState
  BY <1>1, <1>3 DEF SInv, TypeOK, RedisState
<1>5. TypeOK'
  BY <1>1, <1>2, <1>4 DEF SInv, TypeOK
<1>6. TodoInv'
  BY <1>1, Passes DEF SInv, TodoInv, KeysOf
<1>7. GlobalsInv' /\ SetsInv'
  BY <1>1, <1>2, <1>4 DEF SInv, GlobalsInv, SetsInv
<1>8. HashesInv'
  BY <1>1, <1>2, <1>4 DEF SInv, HashesInv
<1>9. InventedInv'
  <2>1. <<"hash", q>> \in ever
    BY <1>3 DEF SInv, InventedInv
  <2> QED BY <1>1, <1>2, <1>4, <2>1 DEF SInv, InventedInv, EverGlobal
<1> QED BY <1>1, <1>5, <1>6, <1>7, <1>8, <1>9, ThreadLeaves DEF SInv

LEMMA FetchRepoSetStep ==
    ASSUME SInv, NEW repo \in todo, FetchRepoSet(repo),
           UNCHANGED <<world, files, history>>
    PROVE  SInv'
<1> DEFINE members == {p \in redis.repo_blob_sets : p[1] = repo}
<1>1. /\ scan_pc = "smembers" /\ scan_pc' = "smembers"
      /\ todo' = todo \ {repo} /\ found' = found
      /\ snapshot' = [snapshot EXCEPT !.repo_blob_sets = @ \union members]
      /\ UNCHANGED <<world, files, history>>
  BY DEF FetchRepoSet, Ticks
<1>2. UNCHANGED <<redis, storage, request, faults, mounted, fs_todo, fs, ever, always>>
  BY <1>1 DEF world, files, history
<1>3. members \subseteq Pair /\ members \subseteq redis.repo_blob_sets
  BY DEF SInv, TypeOK, RedisState
<1>4. \A p \in redis.repo_blob_sets : p[1] = repo => p \in members
  OBVIOUS
<1> HIDE DEF members
<1>5. /\ snapshot'.repo_blob_sets = snapshot.repo_blob_sets \union members
      /\ snapshot'.repo_blob_hashes = snapshot.repo_blob_hashes
      /\ snapshot'.global_blobs = snapshot.global_blobs
      /\ snapshot' \in RedisState
  BY <1>1, <1>3 DEF SInv, TypeOK, RedisState
<1>6. TypeOK'
  BY <1>1, <1>2, <1>5 DEF SInv, TypeOK
<1>7. TodoInv'
  BY <1>1, Passes DEF SInv, TodoInv, KeysOf
<1>8. GlobalsInv' /\ HashesInv'
  BY <1>1, <1>2, <1>5 DEF SInv, GlobalsInv, HashesInv
<1>9. SetsInv'
  <2> SUFFICES ASSUME NEW p \in Pair, <<"member", p>> \in always
               PROVE  p[1] \in todo' \/ p \in snapshot'.repo_blob_sets
    BY <1>1, <1>2 DEF SetsInv
  <2>1. p \in redis.repo_blob_sets
    <3>1. <<"member", p>> \in Facts(redis, storage)
      BY DEF SInv, HistoryInv
    <3> QED BY <3>1, FactsMeaning
  <2>2. p[1] \in todo \/ p \in snapshot.repo_blob_sets
    BY <1>1 DEF SInv, SetsInv
  <2> QED BY <1>1, <1>4, <1>5, <2>1, <2>2
<1>10. InventedInv'
  <2>1. \A p \in members : <<"member", p>> \in ever
    BY <1>3, FactsMeaning DEF SInv, HistoryInv
  <2> QED BY <1>1, <1>2, <1>5, <2>1 DEF SInv, InventedInv, EverGlobal
<1> QED BY <1>1, <1>6, <1>7, <1>8, <1>9, <1>10, ThreadLeaves DEF SInv

LEMMA EndPassStep ==
    ASSUME SInv, EndPass, UNCHANGED <<world, files, history>>
    PROVE  SInv'
<1>1. /\ todo = {} /\ scan_pc \in DOMAIN NextPass
      /\ scan_pc' = NextPass[scan_pc] /\ todo' = KeysOf(scan_pc')
      /\ UNCHANGED <<found, snapshot>>
      /\ UNCHANGED <<world, files, history>>
  BY DEF EndPass
<1>2. UNCHANGED <<redis, storage, request, faults, mounted, fs_todo, fs, ever, always>>
  BY <1>1 DEF world, files, history
<1>3. \/ scan_pc = "globals" /\ scan_pc' = "repos" /\ todo' = Repos \union Pair
      \/ scan_pc = "repos" /\ scan_pc' = "hmget" /\ todo' = found \intersect Digests
      \/ scan_pc = "hmget" /\ scan_pc' = "hget" /\ todo' = found \intersect Pair
      \/ scan_pc = "hget" /\ scan_pc' = "smembers" /\ todo' = found \intersect Repos
      \/ scan_pc = "smembers" /\ scan_pc' = "done" /\ todo' = {}
  BY <1>1, Passes, KeysOfPass
<1>4. TypeOK'
  <2>1. scan_pc' \in DOMAIN NextPass \union {"done", "failed"}
    BY <1>3, Passes
  <2>2. todo' \union found' \subseteq Digests \union Repos \union Pair
    BY <1>1, <1>3 DEF SInv, TypeOK
  <2> QED BY <1>1, <1>2, <2>1, <2>2 DEF SInv, TypeOK
<1>5. TodoInv'
  BY <1>1 DEF TodoInv, KeysOf
<1>6. GlobalsInv'
  <2> SUFFICES ASSUME NEW d \in Digests, NEW s \in Sizes \union {None},
                      <<"global", d, s>> \in always
               PROVE  /\ scan_pc' = "globals" => d \in todo' \union found
                      /\ scan_pc' = "repos" => d \in found
                      /\ scan_pc' = "hmget" => d \in todo' \/ snapshot.global_blobs[d] = s
                      /\ scan_pc' \in {"hget", "smembers", "done"} =>
                            snapshot.global_blobs[d] = s
    BY <1>1, <1>2 DEF GlobalsInv
  <2>1. /\ scan_pc = "globals" => d \in found
        /\ scan_pc = "repos" => d \in found
        /\ scan_pc \in {"hmget", "hget", "smembers"} => snapshot.global_blobs[d] = s
    BY <1>1 DEF SInv, GlobalsInv
  <2> QED BY <1>3, <2>1
<1>7. HashesInv'
  <2> SUFFICES ASSUME NEW p \in Pair, <<"hash", p>> \in always
               PROVE  /\ scan_pc' = "repos" => p \in todo' \union found
                      /\ scan_pc' = "hmget" => p \in found
                      /\ scan_pc' = "hget" =>
                            p \in todo' \union snapshot.repo_blob_hashes
                      /\ scan_pc' \in {"smembers", "done"} =>
                            p \in snapshot.repo_blob_hashes
    BY <1>1, <1>2 DEF HashesInv
  <2>1. /\ scan_pc \in {"repos", "hmget"} => p \in found
        /\ scan_pc \in {"hget", "smembers"} => p \in snapshot.repo_blob_hashes
    BY <1>1 DEF SInv, HashesInv
  <2> QED BY <1>3, <2>1
<1>8. SetsInv'
  <2> SUFFICES ASSUME NEW p \in Pair, <<"member", p>> \in always
               PROVE  /\ scan_pc' = "repos" => p[1] \in todo' \union found
                      /\ scan_pc' \in {"hmget", "hget"} => p[1] \in found
                      /\ scan_pc' = "smembers" =>
                            p[1] \in todo' \/ p \in snapshot.repo_blob_sets
                      /\ scan_pc' = "done" => p \in snapshot.repo_blob_sets
    BY <1>1, <1>2 DEF SetsInv
  <2>1. /\ scan_pc \in {"repos", "hmget", "hget"} => p[1] \in found
        /\ scan_pc = "smembers" => p \in snapshot.repo_blob_sets
    BY <1>1 DEF SInv, SetsInv
  <2>2. p[1] \in Repos
    BY DEF Pair
  <2> QED BY <1>3, <2>1, <2>2
<1>9. InventedInv'
  BY <1>1, <1>2 DEF SInv, InventedInv, EverGlobal
<1> QED BY <1>1, <1>4, <1>5, <1>6, <1>7, <1>8, <1>9, ThreadLeaves DEF SInv

LEMMA ScanErrorStep ==
    ASSUME SInv, ScanError \/ WalkError, UNCHANGED <<world, files, history>>
    PROVE  SInv'
<1>1. /\ scan_pc' = "failed" /\ UNCHANGED <<todo, found, snapshot>>
      /\ UNCHANGED <<world, files, history>>
  BY DEF ScanError, WalkError
<1>2. UNCHANGED <<redis, storage, request, faults, mounted, fs_todo, fs, ever, always>>
  BY <1>1 DEF world, files, history
<1>3. TypeOK'
  BY <1>1, <1>2 DEF SInv, TypeOK
<1>4. TodoInv' /\ GlobalsInv' /\ HashesInv' /\ SetsInv'
  BY <1>1, Passes DEF TodoInv, GlobalsInv, HashesInv, SetsInv
<1>5. InventedInv'
  BY <1>1, <1>2 DEF SInv, InventedInv, EverGlobal
<1> QED BY <1>1, <1>3, <1>4, <1>5, ThreadLeaves DEF SInv

LEMMA ThreadStep == SInv /\ Thread => SInv'
BY ScanKeyStep, FetchGlobalStep, FetchRepoHashStep, FetchRepoSetStep,
   EndPassStep, ScanErrorStep DEF Thread, ScanRedis

LEMMA WalkStep == SInv /\ Walk => SInv'
BY StatFileStep, ScanErrorStep DEF Walk, WalkError

LEMMA ScanStep == SInv /\ [Next]_vars => SInv'
<1> SUFFICES ASSUME SInv, [Next]_vars PROVE SInv'
  OBVIOUS
<1>1. CASE Thread \/ Walk \/ World
  BY <1>1, ThreadStep, WalkStep, WorldStep
<1>2. CASE UNCHANGED vars
  <2>1. UNCHANGED <<redis, storage, request, faults, scan_pc, todo, found,
                    snapshot, mounted, fs_todo, fs, ever, always>>
    BY <1>2 DEF vars, world, thread, files, history
  <2> QED BY <2>1 DEF SInv, TypeOK, HistoryInv, TodoInv, KeysOf, GlobalsInv,
                      HashesInv, SetsInv, FilesInv, InventedInv, EverGlobal
<1> QED BY <1>1, <1>2 DEF Next

-----------------------------------------------------------------------------
(***************************************************************************)
(* What the snapshots of a scan say when it is over.                       *)
(***************************************************************************)

LEMMA MissedNothing == SInv => NothingMissed
<1> SUFFICES ASSUME SInv, Scanned, NEW f \in always
             PROVE  \/ f \in Facts(snapshot, fs)
                    \/ f[1] = "file" /\ ~mounted
  BY DEF NothingMissed
<1>1. scan_pc = "done" /\ fs_todo = {}
  BY DEF Scanned
<1>2. f \in Facts(redis, storage)
  BY DEF SInv, HistoryInv
<1>3. redis \in RedisState /\ storage \in FsState
  BY DEF SInv, TypeOK
<1>4. CASE \E p \in redis.repo_blob_sets : f = <<"member", p>>
  <2>1. PICK p \in redis.repo_blob_sets : f = <<"member", p>>
    BY <1>4
  <2>2. p \in snapshot.repo_blob_sets
    BY <1>1, <1>3, <2>1 DEF SInv, SetsInv, RedisState
  <2>3. <<"member", p>> \in Facts(snapshot, fs)
    BY <2>2, FactsMeaning
  <2> QED BY <2>1, <2>3
<1>5. CASE \E p \in redis.repo_blob_hashes : f = <<"hash", p>>
  <2>1. PICK p \in redis.repo_blob_hashes : f = <<"hash", p>>
    BY <1>5
  <2>2. p \in snapshot.repo_blob_hashes
    BY <1>1, <1>3, <2>1 DEF SInv, HashesInv, RedisState
  <2>3. <<"hash", p>> \in Facts(snapshot, fs)
    BY <2>2, FactsMeaning
  <2> QED BY <2>1, <2>3
<1>6. CASE \E d \in Digests : /\ f = <<"global", d, redis.global_blobs[d]>>
                              /\ redis.global_blobs[d] # NoKey
  <2>1. PICK d \in Digests : /\ f = <<"global", d, redis.global_blobs[d]>>
                             /\ redis.global_blobs[d] # NoKey
    BY <1>6
  <2>2. redis.global_blobs[d] \in Sizes \union {None}
    BY <1>3, <2>1 DEF RedisState, GlobalBlob
  <2>3. snapshot.global_blobs[d] = redis.global_blobs[d]
    BY <1>1, <2>1, <2>2 DEF SInv, GlobalsInv
  <2>4. <<"global", d, redis.global_blobs[d]>> \in Facts(snapshot, fs)
    BY <2>1, <2>3, FactsMeaning
  <2> QED BY <2>1, <2>4
<1>7. CASE \E d \in Digests : f = <<"file", d, storage[d]>> /\ storage[d] # None
  <2>1. PICK d \in Digests : f = <<"file", d, storage[d]>> /\ storage[d] # None
    BY <1>7
  <2>2. CASE mounted
    <3>1. storage[d] \in Sizes
      BY <1>3, <2>1 DEF FsState
    <3>2. fs[d] = storage[d]
      BY <1>1, <2>1, <2>2, <3>1 DEF SInv, FilesInv
    <3>3. <<"file", d, storage[d]>> \in Facts(snapshot, fs)
      BY <2>1, <3>2, FactsMeaning
    <3> QED BY <2>1, <3>3
  <2>3. CASE ~mounted
    <3>1. f[1] = "file"
      BY <2>1
    <3> QED BY <2>3, <3>1
  <2> QED BY <2>2, <2>3
<1> QED BY <1>2, <1>4, <1>5, <1>6, <1>7, FactsForms

LEMMA InventedNothing == SInv => NothingInvented
<1> SUFFICES ASSUME SInv, NEW f \in Facts(snapshot, fs)
             PROVE  \/ f \in ever
                    \/ /\ f[1] = "global" /\ f[3] = None
                       /\ \E s \in Sizes : <<"global", f[2], s>> \in ever
  BY DEF NothingInvented
<1>1. CASE \E p \in snapshot.repo_blob_sets : f = <<"member", p>>
  BY <1>1 DEF SInv, InventedInv
<1>2. CASE \E p \in snapshot.repo_blob_hashes : f = <<"hash", p>>
  BY <1>2 DEF SInv, InventedInv
<1>3. CASE \E d \in Digests : f = <<"file", d, fs[d]>> /\ fs[d] # None
  BY <1>3 DEF SInv, FilesInv
<1>4. CASE \E d \in Digests : /\ f = <<"global", d, snapshot.global_blobs[d]>>
                              /\ snapshot.global_blobs[d] # NoKey
  <2>1. PICK d \in Digests : /\ f = <<"global", d, snapshot.global_blobs[d]>>
                             /\ snapshot.global_blobs[d] # NoKey
    BY <1>4
  <2>2. /\ EverGlobal(d)
        /\ snapshot.global_blobs[d] # None => f \in ever
    BY <2>1 DEF SInv, InventedInv
  <2>3. CASE snapshot.global_blobs[d] # None
    BY <2>2, <2>3
  <2>4. CASE snapshot.global_blobs[d] = None
    <3>1. f[1] = "global" /\ f[2] = d /\ f[3] = None /\ f = <<"global", d, None>>
      BY <2>1, <2>4
    <3>2. PICK s \in Sizes \union {None} : <<"global", d, s>> \in ever
      BY <2>2 DEF EverGlobal
    <3>3. CASE s = None
      BY <3>1, <3>2, <3>3
    <3>4. CASE s \in Sizes
      BY <3>1, <3>2, <3>4
    <3> QED BY <3>3, <3>4
  <2> QED BY <2>3, <2>4
<1> QED BY <1>1, <1>2, <1>3, <1>4, FactsForms

LEMMA ExactWhenUndisturbed == SInv => UndisturbedIsExact
<1> SUFFICES ASSUME SInv, Scanned, mounted, NEW d \in Digests, Stable(d)
             PROVE  {i \in Classify(snapshot, fs) : i.digest = d}
                      = {i \in Classify(redis, storage) : i.digest = d}
  BY DEF UndisturbedIsExact
<1>1. /\ redis \in RedisState /\ storage \in FsState
      /\ snapshot \in RedisState /\ fs \in FsState
  BY DEF SInv, TypeOK
<1>2. scan_pc = "done" /\ fs_todo = {}
  BY DEF Scanned
<1>3. \A f \in ever : DigestOf(f) = d => f \in always /\ f \in Facts(redis, storage)
  BY DEF Stable, SInv, HistoryInv
<1>4. Facts(redis, storage) \subseteq ever
  BY DEF SInv, HistoryInv
<1>5. /\ \A p : DigestOf(<<"member", p>>) = p[2] /\ DigestOf(<<"hash", p>>) = p[2]
      /\ \A x : DigestOf(<<"global", d, x>>) = d /\ DigestOf(<<"file", d, x>>) = d
  BY DEF DigestOf
<1>6. ASSUME NEW p \in Pair, p[2] = d
      PROVE  /\ p \in snapshot.repo_blob_sets <=> p \in redis.repo_blob_sets
             /\ p \in snapshot.repo_blob_hashes <=> p \in redis.repo_blob_hashes
  <2>1. ASSUME p \in snapshot.repo_blob_sets PROVE p \in redis.repo_blob_sets
    <3>1. <<"member", p>> \in ever
      BY <2>1 DEF SInv, InventedInv
    <3>2. <<"member", p>> \in Facts(redis, storage)
      BY <1>3, <1>5, <1>6, <3>1
    <3> QED BY <3>2, FactsMeaning
  <2>2. ASSUME p \in redis.repo_blob_sets PROVE p \in snapshot.repo_blob_sets
    <3>1. <<"member", p>> \in Facts(redis, storage)
      BY <2>2, FactsMeaning
    <3>2. <<"member", p>> \in always
      BY <1>3, <1>4, <1>5, <1>6, <3>1
    <3> QED BY <1>2, <3>2 DEF SInv, SetsInv
  <2>3. ASSUME p \in snapshot.repo_blob_hashes PROVE p \in redis.repo_blob_hashes
    <3>1. <<"hash", p>> \in ever
      BY <2>3 DEF SInv, InventedInv
    <3>2. <<"hash", p>> \in Facts(redis, storage)
      BY <1>3, <1>5, <1>6, <3>1
    <3> QED BY <3>2, FactsMeaning
  <2>4. ASSUME p \in redis.repo_blob_hashes PROVE p \in snapshot.repo_blob_hashes
    <3>1. <<"hash", p>> \in Facts(redis, storage)
      BY <2>4, FactsMeaning
    <3>2. <<"hash", p>> \in always
      BY <1>3, <1>4, <1>5, <1>6, <3>1
    <3> QED BY <1>2, <3>2 DEF SInv, HashesInv
  <2> QED BY <2>1, <2>2, <2>3, <2>4
<1>7. snapshot.global_blobs[d] = redis.global_blobs[d]
  <2>1. CASE redis.global_blobs[d] # NoKey
    <3>1. <<"global", d, redis.global_blobs[d]>> \in Facts(redis, storage)
      BY <2>1, FactsMeaning
    <3>2. <<"global", d, redis.global_blobs[d]>> \in always
      BY <1>3, <1>4, <1>5, <3>1
    <3>3. redis.global_blobs[d] \in Sizes \union {None}
      BY <1>1, <2>1 DEF RedisState, GlobalBlob
    <3> QED BY <1>2, <3>2, <3>3 DEF SInv, GlobalsInv
  <2>2. CASE redis.global_blobs[d] = NoKey
    <3> SUFFICES ASSUME snapshot.global_blobs[d] # NoKey PROVE FALSE
      BY <2>2
    <3>1. PICK s \in Sizes \union {None} : <<"global", d, s>> \in ever
      BY DEF SInv, InventedInv, EverGlobal
    <3>2. <<"global", d, s>> \in Facts(redis, storage)
      BY <1>3, <1>5, <3>1
    <3> QED BY <2>2, <3>2, FactsMeaning
  <2> QED BY <2>1, <2>2
<1>8. fs[d] = storage[d]
  <2>1. CASE storage[d] # None
    <3>1. <<"file", d, storage[d]>> \in Facts(redis, storage)
      BY <2>1, FactsMeaning
    <3>2. <<"file", d, storage[d]>> \in always
      BY <1>3, <1>4, <1>5, <3>1
    <3>3. storage[d] \in Sizes
      BY <1>1, <2>1 DEF FsState
    <3> QED BY <1>2, <3>2, <3>3 DEF SInv, FilesInv
  <2>2. CASE storage[d] = None
    <3> SUFFICES ASSUME fs[d] # None PROVE FALSE
      BY <2>2
    <3>1. <<"file", d, fs[d]>> \in ever
      BY DEF SInv, FilesInv
    <3>2. <<"file", d, fs[d]>> \in Facts(redis, storage)
      BY <1>3, <1>5, <3>1
    <3> QED BY <2>2, <3>2, FactsMeaning
  <2> QED BY <2>1, <2>2
<1>9. /\ {i \in Classify(snapshot, fs) : i.digest = d} \subseteq Classify(redis, storage)
      /\ {i \in Classify(redis, storage) : i.digest = d} \subseteq Classify(snapshot, fs)
  BY <1>1, <1>6, <1>7, <1>8, IssuesAreLocal
<1> QED BY <1>9

\* What the snapshots hold of a pair that has been failing all along.
LEMMA StandingSnapshot ==
    ASSUME SInv, Scanned, NEW p \in Pair, StandingFailure(p)
    PROVE  /\ p \in snapshot.repo_blob_sets /\ p \in snapshot.repo_blob_hashes
           /\ snapshot.global_blobs[p[2]] \in Sizes
           /\ fs[p[2]] # snapshot.global_blobs[p[2]]
           /\ PairCategory(snapshot, fs, p) =
                 IF fs[p[2]] = None THEN "C4" ELSE "C5"
<1>1. scan_pc = "done" /\ p[2] \in Digests
  BY DEF Scanned, Pair
<1>2. PICK s \in Sizes : /\ <<"global", p[2], s>> \in always
                         /\ <<"file", p[2], s>> \notin ever
  BY DEF StandingFailure
<1>3. <<"member", p>> \in always /\ <<"hash", p>> \in always
  BY DEF StandingFailure
<1>4. p \in snapshot.repo_blob_sets /\ p \in snapshot.repo_blob_hashes
  BY <1>1, <1>3 DEF SInv, SetsInv, HashesInv
<1>5. snapshot.global_blobs[p[2]] = s
  BY <1>1, <1>2 DEF SInv, GlobalsInv
<1>6. fs[p[2]] # s
  <2>1. fs[p[2]] # None => <<"file", p[2], fs[p[2]]>> \in ever
    BY <1>1 DEF SInv, FilesInv
  <2> QED BY <1>2, <2>1, SpecialValues
<1>7. GlobalValid(snapshot, p[2]) /\ RedisSize(snapshot, p[2]) = s
  BY <1>5, SpecialValues DEF GlobalValid, RedisSize
<1> QED BY <1>4, <1>5, <1>6, <1>7 DEF PairCategory

LEMMA FoundStanding == SInv => StandingFailureIsFound
BY StandingSnapshot DEF StandingFailureIsFound

-----------------------------------------------------------------------------
\* A scan of a registry that never stands still: for any number of pulls,
\* losses and concurrent cleans, its snapshots miss nothing that held all
\* along and contain nothing that never did, a digest that nobody touched is
\* judged exactly, and a pair that is broken all along is reported.
THEOREM ScanIsSound ==
    Spec => [](/\ NothingMissed /\ NothingInvented
               /\ UndisturbedIsExact /\ StandingFailureIsFound)
BY ScanInit, ScanStep, MissedNothing, InventedNothing, ExactWhenUndisturbed,
   FoundStanding, PTL DEF Spec

-----------------------------------------------------------------------------
(***************************************************************************)
(* `rcd inspect`: the invariant of a scan holds through both of its scans, *)
(* and what is known of an issue is kept while the second scan runs and    *)
(* the events are written.                                                 *)
(***************************************************************************)


\* The issues are filtered and written after the last scan.
StageInv == stage \in {"filter", "emit"} => Scanned

\* The repositories that may speak of an issue: its own, or all of them.
Concerns(i, repo) == i.repo \in {None, repo}

\* What an issue says of a reference held at some moment of the first scan.
Grounded(i) ==
    \A repo \in Repos : Concerns(i, repo) =>
        /\ References(i, repo) => <<"member", <<repo, i.digest>>>> \in ever
        /\ ~References(i, repo) => <<"member", <<repo, i.digest>>>> \notin always

IssuesInv == \A i \in pending : Grounded(i)

\* So does what an event says of the references to its digest.
EventsInv ==
    \A e \in events : e.refs # None =>
        /\ Grounded(e.issue)
        /\ \A repo \in Repos :
              /\ repo \in e.refs => <<"member", <<repo, e.issue.digest>>>> \in ever
              /\ repo \notin e.refs =>
                    <<"member", <<repo, e.issue.digest>>>> \notin always

\* An issue that reports the standing failure of a pair.
Reports(i, p) == <<i.repo, i.digest>> = p /\ i.category = StandingCategory(p)

\* A standing failure is on its way to stdout.
ListedInv ==
    \A p \in Pair :
        (StandingFailure(p) /\ StandingCategory(p) \in Category) =>
            /\ stage \in {"rescan", "filter"} => \E i \in pending : Reports(i, p)
            /\ stage = "emit" /\ target = StandingCategory(p) =>
                  \/ \E i \in pending : Reports(i, p)
                  \/ \E e \in events : <<e.issue.repo, e.issue.digest>> = p
            /\ stage = "exit" /\ exit_code = 0 /\ target = StandingCategory(p) =>
                  \E e \in events : <<e.issue.repo, e.issue.digest>> = p

InspectInv == /\ SInv /\ InspectTypeOK
              /\ StageInv /\ IssuesInv /\ EventsInv /\ ListedInv

-----------------------------------------------------------------------------
(***************************************************************************)
(* While the histories grow and shrink.                                    *)
(***************************************************************************)

\* A standing failure has been one, of the same category, all the time.
LEMMA StandingPast ==
    ASSUME always' \subseteq always, ever \subseteq ever', mounted' = mounted,
           SInv, NEW p \in Pair, StandingFailure(p)',
           StandingCategory(p)' \in Category
    PROVE  StandingFailure(p) /\ StandingCategory(p) = StandingCategory(p)'
<1>1. StandingFailure(p)
  BY DEF StandingFailure
<1> DEFINE now == {s \in Sizes : <<"file", p[2], s>> \in ever'}
           past == {s \in Sizes : <<"file", p[2], s>> \in ever}
<1>2. past \subseteq now
  OBVIOUS
<1>3. StandingCategory(p) =
         IF past = {} \/ ~mounted THEN "C4"
         ELSE IF \E s \in past : <<"file", p[2], s>> \in always THEN "C5"
         ELSE "unsettled"
  BY DEF StandingCategory
<1>4. StandingCategory(p)' =
         IF now = {} \/ ~mounted' THEN "C4"
         ELSE IF \E s \in now : <<"file", p[2], s>> \in always' THEN "C5"
         ELSE "unsettled"
  BY DEF StandingCategory
<1>5. \A s \in now : <<"file", p[2], s>> \in always' => s \in past
  BY DEF SInv, HistoryInv
<1>6. StandingCategory(p)' # "unsettled"
  BY DEF Category
<1> HIDE DEF past, now
<1>7. StandingCategory(p) = StandingCategory(p)'
  <2>1. CASE now = {} \/ ~mounted
    <3>1. past = {} \/ ~mounted
      BY <1>2, <2>1
    <3> QED BY <1>3, <1>4, <2>1, <3>1
  <2>2. CASE ~(now = {} \/ ~mounted)
    <3>1. PICK s \in now : <<"file", p[2], s>> \in always'
      BY <1>4, <1>6, <2>2
    <3>2. s \in past /\ <<"file", p[2], s>> \in always
      BY <1>5, <3>1
    <3>3. past # {}
      BY <3>2
    <3>4. StandingCategory(p) = "C5" /\ StandingCategory(p)' = "C5"
      BY <1>3, <1>4, <2>2, <3>1, <3>2, <3>3
    <3> QED BY <3>4
  <2> QED BY <2>1, <2>2
<1> QED BY <1>1, <1>7

LEMMA GroundedLasts ==
    ASSUME always' \subseteq always, ever \subseteq ever'
    PROVE  \A i : Grounded(i) => Grounded(i)'
BY DEF Grounded, References, Concerns

\* Each step of the command, as far as the histories and the scan go.
LEMMA ScanSide ==
    ASSUME InspectInv, [InspectNext]_inspectVars
    PROVE  /\ SInv'
           /\ always' \subseteq always /\ ever \subseteq ever'
           /\ mounted' = mounted
<1>1. CASE Threads
  <2>1. Thread \/ Walk
    BY <1>1 DEF Threads
  <2>2. SInv'
    BY <2>1, ThreadStep, WalkStep DEF InspectInv
  <2>3. UNCHANGED <<history, mounted>>
    BY <2>1 DEF Thread, Walk, WalkError, StatFile, files
  <2> QED BY <2>2, <2>3 DEF history
<1>2. CASE Elsewhere
  <2>1. World
    BY <1>2 DEF Elsewhere
  <2>2. SInv'
    BY <2>1, WorldStep DEF InspectInv
  <2>3. PICK r, s : Happens(r, s)
    BY <2>1 DEF World, Request, LoseFile, ForeignClean, Fault
  <2>4. UNCHANGED <<thread, files>>
    BY <2>3 DEF Happens
  <2> QED BY <2>2, <2>3, <2>4, HistoryStep DEF InspectInv, SInv, files
<1>3. CASE ScanReturns
  <2>1. UNCHANGED <<world, files, history>>
    BY <1>3 DEF ScanReturns
  <2>2. UNCHANGED <<redis, storage, request, faults, mounted, fs_todo, fs, ever, always>>
    BY <2>1 DEF world, files, history
  <2>3. CASE with_refs'
    <3>1. /\ scan_pc' = "globals" /\ todo' = KeysOf("globals")
          /\ found' = {} /\ snapshot' = EmptyRedis
      BY <1>3, <2>3 DEF ScanReturns
    <3>2. todo' = Digests
      BY <3>1, KeysOfPass
    <3>3. (TodoInv /\ GlobalsInv /\ HashesInv /\ SetsInv /\ InventedInv)'
      <4>1. TodoInv'
        BY <3>1, <3>2 DEF TodoInv, KeysOf
      <4>2. GlobalsInv' /\ HashesInv' /\ SetsInv'
        BY <3>1, <3>2 DEF GlobalsInv, HashesInv, SetsInv
      <4>3. /\ snapshot'.repo_blob_sets = {} /\ snapshot'.repo_blob_hashes = {}
            /\ \A d \in Digests : snapshot'.global_blobs[d] = NoKey
        BY <3>1 DEF EmptyRedis
      <4>4. InventedInv'
        BY <3>1, <4>3 DEF InventedInv
      <4> QED BY <4>1, <4>2, <4>4
    <3>4. TypeOK'
      <4>1. scan_pc' \in DOMAIN NextPass
        BY <3>1, Passes
      <4> QED BY <2>2, <3>1, <3>2, <4>1, EmptyTypes DEF InspectInv, SInv, TypeOK
    <3>5. HistoryInv' /\ FilesInv'
      BY <2>1, ThreadLeaves DEF InspectInv, SInv
    <3> QED BY <2>2, <3>3, <3>4, <3>5 DEF SInv
  <2>4. CASE ~with_refs'
    <3>1. UNCHANGED vars
      BY <1>3, <2>1, <2>4 DEF ScanReturns, vars
    <3> QED BY <2>2, <3>1, ScanStep DEF InspectInv
  <2> QED BY <2>3, <2>4
<1>4. (\/ Load \/ ScanRaises \/ RefsReturn \/ Filter \/ Returns \/ Abandoned
       \/ (\E i \in pending : EmitInspect(i)) \/ UNCHANGED inspectVars)
      => UNCHANGED vars
  BY DEF Load, ScanRaises, RefsReturn, Filter, Returns, Abandoned, EmitInspect,
         inspectVars
<1>5. CASE UNCHANGED vars
  <2>1. SInv'
    BY <1>5, ScanStep DEF InspectInv
  <2> QED BY <1>5, <2>1 DEF vars, history, files
<1> QED BY <1>1, <1>2, <1>3, <1>4, <1>5 DEF InspectNext, Serial

\* An issue of a scan that is over is grounded in it, and so are its
\* references.
LEMMA SnapshotMembers ==
    ASSUME SInv, Scanned, NEW p \in Pair
    PROVE  /\ p \in snapshot.repo_blob_sets => <<"member", p>> \in ever
           /\ p \notin snapshot.repo_blob_sets => <<"member", p>> \notin always
BY DEF SInv, InventedInv, SetsInv, Scanned

LEMMA IssuesGrounded ==
    ASSUME SInv, Scanned, NEW i \in Classify(snapshot, fs)
    PROVE  Grounded(i)
<1>1. snapshot \in RedisState /\ fs \in FsState
  BY DEF SInv, TypeOK
<1>2. i \in Issue
  BY <1>1, ClassifyType
<1> SUFFICES ASSUME NEW repo \in Repos, Concerns(i, repo)
             PROVE  References(i, repo) <=>
                       <<repo, i.digest>> \in snapshot.repo_blob_sets
  <2>1. i.digest \in Digests
    BY <1>2 DEF Issue
  <2>2. \A repo \in Repos : <<repo, i.digest>> \in Pair
    BY <2>1 DEF Pair
  <2> QED BY <2>2, SnapshotMembers DEF Grounded
<1>3. CASE i \in PairIssues(snapshot, fs)
  <2>1. PICK p \in Pairs(snapshot) :
           i = MkIssue(snapshot, fs, PairCategory(snapshot, fs, p), p[2], p[1])
    BY <1>3 DEF PairIssues
  <2>2. p \in Repos \X Digests
    BY <1>1, <2>1 DEF Pairs, RedisState, Pair
  <2>3. /\ i.repo = p[1] /\ i.digest = p[2] /\ p = <<p[1], p[2]>>
        /\ i.category = PairCategory(snapshot, fs, p)
    BY <2>1, <2>2 DEF MkIssue
  <2>4. i.repo = repo /\ p = <<repo, i.digest>>
    BY <2>2, <2>3, SpecialValues DEF Concerns
  <2>5. i.category # "OK"
    BY <1>2 DEF Issue
  <2>6. /\ p \in snapshot.repo_blob_sets =>
              i.category \in {"C2", "C3", "C4", "C5"}
        /\ p \notin snapshot.repo_blob_sets => i.category = "C6"
    BY <2>1, <2>3, <2>5 DEF PairCategory, Pairs
  <2> QED BY <2>4, <2>6 DEF References
<1>4. CASE i \in OrphanIssues(snapshot, fs)
  <2>1. i.digest \in GlobalOrphans(snapshot) /\ i.category = "C1"
    BY <1>4 DEF OrphanIssues, MkIssue
  <2>2. <<repo, i.digest>> \notin snapshot.repo_blob_sets
    <3>1. <<repo, i.digest>>[2] = i.digest
      OBVIOUS
    <3> QED BY <2>1, <3>1 DEF GlobalOrphans, ReferencedDigests
  <2> QED BY <2>1, <2>2 DEF References
<1>5. CASE i \in LeftoverIssues(snapshot, fs)
  <2>1. i.digest \in FsLeftovers(snapshot, fs) /\ i.category = "C7"
    BY <1>5 DEF LeftoverIssues, MkIssue
  <2>2. <<repo, i.digest>> \notin Pairs(snapshot)
    <3>1. <<repo, i.digest>>[2] = i.digest
      OBVIOUS
    <3> QED BY <2>1, <3>1 DEF FsLeftovers, SeenDigests
  <2> QED BY <2>1, <2>2 DEF References, Pairs
<1> QED BY <1>3, <1>4, <1>5 DEF Classify

\* A standing failure is an issue of its category.
LEMMA StandingIssue ==
    ASSUME SInv, Scanned, NEW p \in Pair, StandingFailure(p),
           StandingCategory(p) \in Category
    PROVE  \E i \in Classify(snapshot, fs) : Reports(i, p)
<1>1. /\ p \in snapshot.repo_blob_sets
      /\ PairCategory(snapshot, fs, p) = IF fs[p[2]] = None THEN "C4" ELSE "C5"
  BY StandingSnapshot
<1> DEFINE sizes == {s \in Sizes : <<"file", p[2], s>> \in ever}
<1>2. StandingCategory(p) =
         IF sizes = {} \/ ~mounted THEN "C4"
         ELSE IF \E s \in sizes : <<"file", p[2], s>> \in always THEN "C5"
         ELSE "unsettled"
  BY DEF StandingCategory
<1>3. StandingCategory(p) # "unsettled"
  BY DEF Category
<1>4. p[2] \in Digests /\ p = <<p[1], p[2]>> /\ fs_todo = {}
      /\ fs[p[2]] \in Sizes \union {None}
  BY DEF Pair, Scanned, SInv, TypeOK, FsState
<1>5. PairCategory(snapshot, fs, p) = StandingCategory(p)
  <2>1. CASE ~mounted
    <3>1. fs[p[2]] = None
      BY <1>4, <2>1 DEF SInv, FilesInv
    <3> QED BY <1>1, <1>2, <2>1, <3>1
  <2>2. CASE sizes = {}
    <3>1. fs[p[2]] = None
      BY <1>4, <2>2 DEF SInv, FilesInv
    <3> HIDE DEF sizes
    <3> QED BY <1>1, <1>2, <2>2, <3>1
  <2>3. CASE mounted /\ sizes # {}
    <3> HIDE DEF sizes
    <3>1. PICK s \in sizes : <<"file", p[2], s>> \in always
      BY <1>2, <1>3, <2>3
    <3>2. s \in Sizes
      BY <3>1 DEF sizes
    <3>3. fs[p[2]] = s
      BY <1>4, <2>3, <3>1, <3>2 DEF SInv, FilesInv
    <3> QED BY <1>1, <1>2, <2>3, <3>1, <3>2, <3>3, SpecialValues
  <2> QED BY <2>1, <2>2, <2>3
<1> DEFINE i == MkIssue(snapshot, fs, PairCategory(snapshot, fs, p), p[2], p[1])
<1>6. i \in Classify(snapshot, fs)
  <2>1. p \in Pairs(snapshot) /\ PairCategory(snapshot, fs, p) # "OK"
    BY <1>1 DEF Pairs
  <2> QED BY <2>1 DEF Classify, PairIssues
<1>7. Reports(i, p)
  BY <1>4, <1>5 DEF Reports, MkIssue
<1> HIDE DEF i
<1> QED BY <1>6, <1>7

-----------------------------------------------------------------------------
(***************************************************************************)
(* The steps of the command.                                               *)
(***************************************************************************)

\* A step that leaves the command's own variables alone.
LEMMA WaitingStep ==
    ASSUME InspectInv, UNCHANGED inspect, SInv', Scanned' \/ ~(stage \in {"filter", "emit"}),
           always' \subseteq always, ever \subseteq ever', mounted' = mounted
    PROVE  InspectInv'
<1>1. UNCHANGED <<stage, with_refs, target, pending, events, exit_code>>
  BY DEF inspect
<1>2. InspectTypeOK'
  BY <1>1 DEF InspectInv, InspectTypeOK, SInv
<1>3. StageInv'
  BY <1>1 DEF StageInv
<1>4. \A i : Grounded(i) => Grounded(i)'
  BY GroundedLasts
<1>5. IssuesInv'
  BY <1>1, <1>4 DEF InspectInv, IssuesInv
<1>6. EventsInv'
  BY <1>1, <1>4 DEF InspectInv, EventsInv
<1>7. ListedInv'
  <2> SUFFICES ASSUME NEW p \in Pair, StandingFailure(p)',
                      StandingCategory(p)' \in Category
               PROVE  /\ stage' \in {"rescan", "filter"} =>
                            \E i \in pending' : Reports(i, p)'
                      /\ stage' = "emit" /\ target' = StandingCategory(p)' =>
                            \/ \E i \in pending' : Reports(i, p)'
                            \/ \E e \in events' :
                                  <<e.issue.repo, e.issue.digest>> = p
                      /\ stage' = "exit" /\ exit_code' = 0
                            /\ target' = StandingCategory(p)' =>
                            \E e \in events' : <<e.issue.repo, e.issue.digest>> = p
    BY DEF ListedInv
  <2>1. StandingFailure(p) /\ StandingCategory(p) = StandingCategory(p)'
    BY StandingPast DEF InspectInv
  <2>2. \A i : Reports(i, p)' <=> Reports(i, p)
    BY <2>1 DEF Reports
  <2> QED BY <1>1, <2>1, <2>2 DEF InspectInv, ListedInv
<1> QED BY <1>2, <1>3, <1>5, <1>6, <1>7 DEF InspectInv

\* A step of the command itself: the histories stand still.
StandStill == /\ UNCHANGED <<files, history>>
              /\ SInv /\ SInv'

LEMMA StillFacts ==
    ASSUME StandStill
    PROVE  /\ \A i : Grounded(i)' <=> Grounded(i)
           /\ \A p \in Pair : /\ StandingFailure(p)' <=> StandingFailure(p)
                              /\ StandingCategory(p)' = StandingCategory(p)
                              /\ \A i : Reports(i, p)' <=> Reports(i, p)
<1>1. UNCHANGED <<mounted, ever, always>>
  BY DEF StandStill, files, history
<1>2. \A i : Grounded(i)' <=> Grounded(i)
  BY <1>1 DEF Grounded, References, Concerns
<1>3. \A p \in Pair : StandingFailure(p)' <=> StandingFailure(p)
  BY <1>1 DEF StandingFailure
<1>4. \A p \in Pair : StandingCategory(p)' = StandingCategory(p)
  BY <1>1 DEF StandingCategory
<1>5. \A p \in Pair : \A i : Reports(i, p)' <=> Reports(i, p)
  BY <1>4 DEF Reports
<1> QED BY <1>2, <1>3, <1>4, <1>5

LEMMA ExitOneStep ==
    ASSUME InspectInv, StandStill, Exit(1),
           UNCHANGED <<with_refs, target, pending, events>>
    PROVE  InspectInv'
<1>1. stage' = "exit" /\ exit_code' = 1
  BY DEF Exit
<1>2. InspectTypeOK'
  BY <1>1 DEF InspectInv, InspectTypeOK, StandStill, SInv
<1>3. StageInv'
  BY <1>1 DEF StageInv
<1>4. IssuesInv' /\ EventsInv'
  <2>1. \A i : Grounded(i)' <=> Grounded(i)
    BY StillFacts
  <2>2. IssuesInv'
    BY <2>1 DEF InspectInv, IssuesInv
  <2>3. UNCHANGED <<ever, always>>
    BY DEF StandStill, history
  <2>4. EventsInv'
    BY <2>1, <2>3 DEF InspectInv, EventsInv
  <2> QED BY <2>2, <2>4
<1>5. ListedInv'
  BY <1>1 DEF ListedInv
<1> QED BY <1>2, <1>3, <1>4, <1>5 DEF InspectInv, StandStill

LEMMA ScanReturnsStep ==
    ASSUME InspectInv, StandStill, ScanReturns
    PROVE  InspectInv'
<1>1. /\ stage = "scan" /\ Scanned /\ with_refs' \in BOOLEAN
      /\ pending' = Classify(snapshot, fs)
      /\ UNCHANGED <<target, events, exit_code>>
  BY DEF ScanReturns
<1>2. \/ with_refs' /\ stage' = "rescan"
      \/ ~with_refs' /\ stage' = "filter" /\ UNCHANGED <<thread, files>>
  BY DEF ScanReturns
<1>3. SInv /\ SInv' /\ snapshot \in RedisState /\ fs \in FsState
  BY DEF StandStill, SInv, TypeOK
<1>4. InspectTypeOK'
  BY <1>1, <1>2, <1>3, ClassifyType DEF InspectInv, InspectTypeOK, SInv
<1>5. StageInv'
  BY <1>1, <1>2 DEF StageInv, Scanned, thread, files
<1>6. IssuesInv'
  BY <1>1, <1>3, IssuesGrounded, StillFacts DEF IssuesInv
<1>7. EventsInv'
  <2>1. UNCHANGED <<ever, always>>
    BY DEF StandStill, history
  <2> QED BY <1>1, <2>1, StillFacts DEF InspectInv, EventsInv
<1>8. ListedInv'
  <2>1. \A p \in Pair : StandingFailure(p) /\ StandingCategory(p) \in Category =>
           \E i \in pending' : Reports(i, p)
    BY <1>1, <1>3, StandingIssue
  <2>2. stage' \in {"rescan", "filter"}
    BY <1>2
  <2>3. ASSUME NEW p \in Pair, StandingFailure(p)', StandingCategory(p)' \in Category
        PROVE  \E i \in pending' : Reports(i, p)'
    BY <2>1, <2>3, StillFacts
  <2> QED BY <2>2, <2>3 DEF ListedInv
<1> QED BY <1>3, <1>4, <1>5, <1>6, <1>7, <1>8 DEF InspectInv

\* A step of the command that leaves the scan alone.
LEMMA QuietStage ==
    ASSUME InspectInv, UNCHANGED vars
    PROVE  StandStill /\ (StageInv /\ stage' \in {"filter", "emit"}
                            /\ stage \in {"filter", "emit"} => Scanned')
<1>1. SInv'
  BY ScanStep DEF InspectInv
<1>2. UNCHANGED <<scan_pc, fs_todo, files, history>>
  BY DEF vars, thread, files
<1> QED BY <1>1, <1>2 DEF StandStill, InspectInv, StageInv, Scanned

LEMMA LoadStep == InspectInv /\ Load => InspectInv'
<1> SUFFICES ASSUME InspectInv, Load PROVE InspectInv'
  OBVIOUS
<1>1. UNCHANGED vars /\ UNCHANGED <<with_refs, target, pending, events>>
  BY DEF Load
<1>2. StandStill
  BY <1>1, QuietStage
<1>3. CASE Exit(1)
  BY <1>1, <1>2, <1>3, ExitOneStep
<1>4. CASE stage' = "scan" /\ UNCHANGED exit_code
  <2>1. InspectTypeOK'
    BY <1>1, <1>2, <1>4 DEF InspectInv, InspectTypeOK, StandStill, SInv
  <2>2. UNCHANGED <<ever, always>>
    BY <1>2 DEF StandStill, history
  <2>3. StageInv' /\ ListedInv'
    BY <1>4 DEF StageInv, ListedInv
  <2>4. IssuesInv' /\ EventsInv'
    BY <1>1, <1>2, <2>2, StillFacts DEF InspectInv, IssuesInv, EventsInv
  <2> QED BY <1>2, <2>1, <2>3, <2>4 DEF InspectInv, StandStill
<1> QED BY <1>3, <1>4 DEF Load

LEMMA RefsReturnStep == InspectInv /\ RefsReturn => InspectInv'
<1> SUFFICES ASSUME InspectInv, RefsReturn PROVE InspectInv'
  OBVIOUS
<1>1. /\ stage = "rescan" /\ Scanned /\ stage' = "filter"
      /\ UNCHANGED vars
      /\ UNCHANGED <<with_refs, target, pending, events, exit_code>>
  BY DEF RefsReturn
<1>2. StandStill
  BY <1>1, QuietStage
<1>3. InspectTypeOK'
  BY <1>1, <1>2 DEF InspectInv, InspectTypeOK, StandStill, SInv
<1>4. StageInv'
  BY <1>1 DEF StageInv, Scanned, vars, thread, files
<1>5. UNCHANGED <<ever, always>>
  BY <1>2 DEF StandStill, history
<1>6. IssuesInv' /\ EventsInv'
  BY <1>1, <1>2, <1>5, StillFacts DEF InspectInv, IssuesInv, EventsInv
<1>7. ListedInv'
  <2>1. ASSUME NEW p \in Pair, StandingFailure(p)', StandingCategory(p)' \in Category
        PROVE  \E i \in pending' : Reports(i, p)'
    BY <1>1, <1>2, <2>1, StillFacts DEF InspectInv, ListedInv
  <2> QED BY <1>1, <2>1 DEF ListedInv
<1> QED BY <1>2, <1>3, <1>4, <1>6, <1>7 DEF InspectInv, StandStill

LEMMA FilterStep == InspectInv /\ Filter => InspectInv'
<1> SUFFICES ASSUME InspectInv, Filter PROVE InspectInv'
  OBVIOUS
<1>1. /\ stage = "filter" /\ stage' = "emit" /\ target' \in Category
      /\ pending' = {i \in pending : i.category = target'}
      /\ UNCHANGED vars
      /\ UNCHANGED <<with_refs, events, exit_code>>
  BY DEF Filter
<1>2. StandStill
  BY <1>1, QuietStage
<1>3. InspectTypeOK'
  BY <1>1, <1>2 DEF InspectInv, InspectTypeOK, StandStill, SInv
<1>4. StageInv'
  BY <1>1 DEF InspectInv, StageInv, Scanned, vars, thread, files
<1>5. UNCHANGED <<ever, always>>
  BY <1>2 DEF StandStill, history
<1>6. IssuesInv' /\ EventsInv'
  BY <1>1, <1>2, <1>5, StillFacts DEF InspectInv, IssuesInv, EventsInv
<1>7. ListedInv'
  <2>1. ASSUME NEW p \in Pair, StandingFailure(p)',
               StandingCategory(p)' \in Category, target' = StandingCategory(p)'
        PROVE  \E i \in pending' : Reports(i, p)'
    <3>1. /\ StandingFailure(p) /\ StandingCategory(p) \in Category
          /\ target' = StandingCategory(p)
      BY <1>2, <2>1, StillFacts
    <3>2. PICK i \in pending : Reports(i, p)
      BY <1>1, <3>1 DEF InspectInv, ListedInv
    <3>3. i \in pending'
      BY <1>1, <3>1, <3>2 DEF Reports
    <3>4. Reports(i, p)'
      BY <1>2, <3>2, StillFacts
    <3> QED BY <3>3, <3>4
  <2> QED BY <1>1, <2>1 DEF ListedInv
<1> QED BY <1>2, <1>3, <1>4, <1>6, <1>7 DEF InspectInv, StandStill

LEMMA EmitInspectStep ==
    ASSUME InspectInv, NEW j \in pending, EmitInspect(j)
    PROVE  InspectInv'
<1> DEFINE new == [issue |-> j,
                   refs |-> IF with_refs THEN RefsByDigest(j.digest) ELSE None]
<1>1. /\ stage = "emit" /\ stage' = "emit" /\ pending' = pending \ {j}
      /\ events' = events \union {new}
      /\ UNCHANGED vars
      /\ UNCHANGED <<with_refs, target, exit_code>>
  BY DEF EmitInspect
<1>2. StandStill
  BY <1>1, QuietStage
<1>3. InspectTypeOK'
  BY <1>1, <1>2 DEF InspectInv, InspectTypeOK, StandStill, SInv
<1>4. StageInv' /\ Scanned
  BY <1>1 DEF InspectInv, StageInv, Scanned, vars, thread, files
<1>5. UNCHANGED <<ever, always>>
  BY <1>2 DEF StandStill, history
<1>6. IssuesInv'
  BY <1>1, <1>2, StillFacts DEF InspectInv, IssuesInv
<1>7. EventsInv'
  <2>1. new.issue = j /\ (new.refs # None => new.refs = RefsByDigest(j.digest))
    OBVIOUS
  <2>2. Grounded(j)
    BY DEF InspectInv, IssuesInv
  <2>3. j.digest \in Digests
    BY DEF InspectInv, InspectTypeOK, Issue
  <2>4. \A repo \in Repos :
           /\ repo \in RefsByDigest(j.digest) => <<"member", <<repo, j.digest>>>> \in ever
           /\ repo \notin RefsByDigest(j.digest) =>
                 <<"member", <<repo, j.digest>>>> \notin always
    <3>1. \A repo \in Repos : <<repo, j.digest>> \in Pair
      BY <2>3 DEF Pair
    <3> QED BY <1>4, <3>1, SnapshotMembers DEF RefsByDigest, InspectInv
  <2> HIDE DEF new
  <2>5. ASSUME NEW e \in events', e.refs # None
        PROVE  /\ Grounded(e.issue)
               /\ \A repo \in Repos :
                     /\ repo \in e.refs =>
                           <<"member", <<repo, e.issue.digest>>>> \in ever
                     /\ repo \notin e.refs =>
                           <<"member", <<repo, e.issue.digest>>>> \notin always
    <3>1. CASE e = new
      BY <2>1, <2>2, <2>4, <2>5, <3>1
    <3>2. CASE e \in events
      BY <2>5, <3>2 DEF InspectInv, EventsInv
    <3> QED BY <1>1, <2>5, <3>1, <3>2
  <2> QED BY <1>2, <1>5, <2>5, StillFacts DEF EventsInv
<1>8. ListedInv'
  <2>1. new.issue = j /\ new \in events'
    BY <1>1
  <2> HIDE DEF new
  <2>2. ASSUME NEW p \in Pair, StandingFailure(p)',
               StandingCategory(p)' \in Category, target' = StandingCategory(p)'
        PROVE  \/ \E i \in pending' : Reports(i, p)'
               \/ \E e \in events' : <<e.issue.repo, e.issue.digest>> = p
    <3>1. /\ StandingFailure(p) /\ StandingCategory(p) \in Category
          /\ target = StandingCategory(p)
      BY <1>1, <1>2, <2>2, StillFacts
    <3>2. \/ \E i \in pending : Reports(i, p)
          \/ \E e \in events : <<e.issue.repo, e.issue.digest>> = p
      BY <1>1, <3>1 DEF InspectInv, ListedInv
    <3>3. CASE \E e \in events : <<e.issue.repo, e.issue.digest>> = p
      BY <1>1, <3>3
    <3>4. CASE \E i \in pending : Reports(i, p)
      <4>1. PICK i \in pending : Reports(i, p)
        BY <3>4
      <4>2. CASE i = j
        BY <2>1, <4>1, <4>2 DEF Reports
      <4>3. CASE i # j
        <5>1. i \in pending' /\ Reports(i, p)'
          BY <1>1, <1>2, <4>1, <4>3, StillFacts
        <5> QED BY <5>1
      <4> QED BY <4>2, <4>3
    <3> QED BY <3>2, <3>3, <3>4
  <2> QED BY <1>1, <2>2 DEF ListedInv
<1> QED BY <1>2, <1>3, <1>4, <1>6, <1>7, <1>8 DEF InspectInv, StandStill

LEMMA ReturnsStep == InspectInv /\ Returns => InspectInv'
<1> SUFFICES ASSUME InspectInv, Returns PROVE InspectInv'
  OBVIOUS
<1>1. /\ stage = "emit" /\ pending = {} /\ stage' = "exit" /\ exit_code' = 0
      /\ UNCHANGED vars
      /\ UNCHANGED <<with_refs, target, pending, events>>
  BY DEF Returns, Exit
<1>2. StandStill
  BY <1>1, QuietStage
<1>3. InspectTypeOK'
  BY <1>1, <1>2 DEF InspectInv, InspectTypeOK, StandStill, SInv
<1>4. UNCHANGED <<ever, always>>
  BY <1>2 DEF StandStill, history
<1>5. StageInv' /\ IssuesInv' /\ EventsInv'
  BY <1>1, <1>2, <1>4, StillFacts DEF InspectInv, StageInv, IssuesInv, EventsInv
<1>6. ListedInv'
  <2>1. ASSUME NEW p \in Pair, StandingFailure(p)',
               StandingCategory(p)' \in Category, target' = StandingCategory(p)'
        PROVE  \E e \in events' : <<e.issue.repo, e.issue.digest>> = p
    BY <1>1, <1>2, <2>1, StillFacts DEF InspectInv, ListedInv
  <2> QED BY <1>1, <2>1 DEF ListedInv
<1> QED BY <1>2, <1>3, <1>5, <1>6 DEF InspectInv, StandStill

-----------------------------------------------------------------------------
LEMMA InspectInvInit == InspectInit => InspectInv
<1> SUFFICES ASSUME InspectInit PROVE InspectInv
  OBVIOUS
<1>1. SInv
  BY ScanInit DEF InspectInit
<1> QED BY <1>1 DEF InspectInit, InspectInv, InspectTypeOK, SInv, StageInv,
                    IssuesInv, EventsInv, ListedInv, Category

LEMMA InspectInvNext == InspectInv /\ [InspectNext]_inspectVars => InspectInv'
<1> SUFFICES ASSUME InspectInv, [InspectNext]_inspectVars PROVE InspectInv'
  OBVIOUS
<1>1. /\ SInv' /\ always' \subseteq always /\ ever \subseteq ever'
      /\ mounted' = mounted
  BY ScanSide
<1>2. CASE Threads \/ Elsewhere
  <2>1. UNCHANGED inspect /\ stage \in {"scan", "rescan"}
    BY <1>2 DEF Threads, Elsewhere, Scanning
  <2> QED BY <1>1, <2>1, WaitingStep
<1>3. CASE ScanReturns
  <2>1. StandStill
    BY <1>1, <1>3 DEF StandStill, ScanReturns, InspectInv
  <2> QED BY <1>3, <2>1, ScanReturnsStep
<1>4. CASE ScanRaises \/ Abandoned
  <2>1. /\ UNCHANGED vars /\ Exit(1)
        /\ UNCHANGED <<with_refs, target, pending, events>>
    BY <1>4 DEF ScanRaises, Abandoned
  <2>2. StandStill
    BY <2>1, QuietStage
  <2> QED BY <2>1, <2>2, ExitOneStep
<1>5. CASE UNCHANGED inspectVars
  <2>1. UNCHANGED vars /\ UNCHANGED inspect /\ UNCHANGED stage
    BY <1>5 DEF inspectVars, inspect
  <2>2. Scanned' \/ ~(stage \in {"filter", "emit"})
    BY <2>1, QuietStage DEF InspectInv
  <2> QED BY <1>1, <2>1, <2>2, WaitingStep
<1>6. CASE Load
  BY <1>6, LoadStep
<1>7. CASE RefsReturn
  BY <1>7, RefsReturnStep
<1>8. CASE Filter
  BY <1>8, FilterStep
<1>9. CASE \E i \in pending : EmitInspect(i)
  BY <1>9, EmitInspectStep
<1>10. CASE Returns
  BY <1>10, ReturnsStep
<1> QED BY <1>2, <1>3, <1>4, <1>5, <1>6, <1>7, <1>8, <1>9, <1>10
        DEF InspectNext, Serial

LEMMA InspectInductive == InspectSpec => []InspectInv
BY InspectInvInit, InspectInvNext, PTL DEF InspectSpec

-----------------------------------------------------------------------------
(***************************************************************************)
(* The theorems.                                                           *)
(***************************************************************************)

\* The variables of the scan and of the command keep their types: snapshots
\* have the shape of Redis and of the tree, what is pending are issues.
THEOREM InspectTypeCorrect == InspectSpec => []InspectTypeOK
<1>1. InspectInv => InspectTypeOK
  BY DEF InspectInv
<1> QED BY <1>1, InspectInductive, PTL

\* A key, member or file that is there from the start of the first scan on is in
\* the snapshots of the first scan when it has ended, and in those of the
\* second when that one has; whatever else the registry, storage and another
\* clean do.  Of what appears between the two scans it says nothing.
THEOREM NothingIsMissed == InspectSpec => []NothingMissed
<1>1. InspectInv => NothingMissed
  BY MissedNothing DEF InspectInv
<1> QED BY <1>1, InspectInductive, PTL

\* What the snapshots hold was there at some moment since the start of the first
\* scan, or is a global hash without a size where one with a size has vanished.
\* For the second scan the moment may be one of the first.
THEOREM NothingIsInvented == InspectSpec => []NothingInvented
<1>1. InspectInv => NothingInvented
  BY InventedNothing DEF InspectInv
<1> QED BY <1>1, InspectInductive, PTL

\* A digest of which nothing changes from the start of the first scan on is
\* judged as by an atomic scan.
THEOREM UndisturbedIsJudgedExactly == InspectSpec => []UndisturbedIsExact
<1>1. InspectInv => UndisturbedIsExact
  BY ExactWhenUndisturbed DEF InspectInv
<1> QED BY <1>1, InspectInductive, PTL

\* A pair whose pull is broken from the start of the first scan on is C4 or C5
\* in the snapshots of either.
THEOREM StandingFailureIsNeverMissed == InspectSpec => []StandingFailureIsFound
<1>1. InspectInv => StandingFailureIsFound
  BY FoundStanding DEF InspectInv
<1> QED BY <1>1, InspectInductive, PTL

\* inspect --with-refs: an event whose references contradict its category
\* proves that the reference has come or gone meanwhile.
THEOREM RefsAreExplained == InspectSpec => []RefsDisagreeOnlyOnChange
<1>1. InspectInv => RefsDisagreeOnlyOnChange
  <2> SUFFICES ASSUME InspectInv, NEW e \in events, e.refs # None,
                      NEW repo \in Repos,
                      (repo \in e.refs) # References(e.issue, repo),
                      e.issue.repo \in {None, repo}
               PROVE  <<"member", <<repo, e.issue.digest>>>> \in ever \ always
    BY DEF RefsDisagreeOnlyOnChange
  <2>1. /\ Grounded(e.issue)
        /\ repo \in e.refs => <<"member", <<repo, e.issue.digest>>>> \in ever
        /\ repo \notin e.refs => <<"member", <<repo, e.issue.digest>>>> \notin always
    BY DEF InspectInv, EventsInv
  <2>2. /\ References(e.issue, repo) =>
              <<"member", <<repo, e.issue.digest>>>> \in ever
        /\ ~References(e.issue, repo) =>
              <<"member", <<repo, e.issue.digest>>>> \notin always
    BY <2>1 DEF Grounded, Concerns
  <2>3. References(e.issue, repo) \in BOOLEAN
    BY DEF References
  <2> QED BY <2>1, <2>2, <2>3
<1> QED BY <1>1, InspectInductive, PTL

\* A pair whose pull is broken from the start of the first scan to the end of
\* the last is listed by a successful inspect of its category, and the
\* references of its event, when there are any, name its repository.
THEOREM StandingFailureIsAlwaysListed == InspectSpec => []StandingFailureIsListed
<1>1. InspectInv => StandingFailureIsListed
  <2> SUFFICES ASSUME InspectInv, stage = "exit", exit_code = 0,
                      NEW p \in Pair, StandingFailure(p),
                      target = StandingCategory(p)
               PROVE  \E e \in events : /\ <<e.issue.repo, e.issue.digest>> = p
                                        /\ e.refs # None => p[1] \in e.refs
    BY DEF StandingFailureIsListed
  <2>1. StandingCategory(p) \in Category
    BY DEF InspectInv, InspectTypeOK
  <2>2. PICK e \in events : <<e.issue.repo, e.issue.digest>> = p
    BY <2>1 DEF InspectInv, ListedInv
  <2>3. /\ p[1] \in Repos
        /\ p = <<p[1], e.issue.digest>>
        /\ <<"member", p>> \in always
    BY <2>2 DEF Pair, StandingFailure
  <2>4. e.refs # None => p[1] \in e.refs
    BY <2>3 DEF InspectInv, EventsInv
  <2> QED BY <2>2, <2>4
<1> QED BY <1>1, InspectInductive, PTL
=============================================================================
