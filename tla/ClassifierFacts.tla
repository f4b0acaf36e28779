-------------------------- MODULE ClassifierFacts --------------------------
(***************************************************************************)
(* Lemmas about classify, for the proofs about the modules that call it.   *)
(***************************************************************************)
EXTENDS Classifier, TLAPS

\* classify returns issues, whatever the snapshots.
LEMMA ClassifyType ==
    ASSUME NEW r \in RedisState, NEW f \in FsState
    PROVE  Classify(r, f) \subseteq Issue
<1>1. \A d \in Digests : /\ r.global_blobs[d] \in GlobalBlob
                         /\ f[d] \in Sizes \union {None}
  BY DEF RedisState, FsState
<1>2. \A d \in Digests : RedisSize(r, d) \in Sizes \union {None}
  BY <1>1 DEF RedisSize, GlobalBlob
<1>3. \A cat \in Category \ {"OK"}, d \in Digests, x \in Repos \union {None} :
         MkIssue(r, f, cat, d, x) \in Issue
  BY <1>1, <1>2 DEF MkIssue, Issue
<1>4. Pairs(r) \subseteq Repos \X Digests
  BY DEF Pairs, RedisState, Pair
<1>5. \A p \in Pairs(r) : PairCategory(r, f, p) \in Category
  BY DEF PairCategory, Category
<1>6. PairIssues(r, f) \subseteq Issue
  BY <1>3, <1>4, <1>5 DEF PairIssues
<1>7. OrphanIssues(r, f) \subseteq Issue
  BY <1>3 DEF OrphanIssues, GlobalOrphans, Category
<1>8. LeftoverIssues(r, f) \subseteq Issue
  BY <1>3 DEF LeftoverIssues, FsLeftovers, Category
<1> QED
  BY <1>6, <1>7, <1>8 DEF Classify

\* The issues of a pair are its one verdict, unless that is OK: the orphan and
\* leftover passes never speak of a pair.
LEMMA IssuesOfPair ==
    ASSUME NEW r \in RedisState, NEW f \in FsState, NEW p \in Pair
    PROVE  {i.category : i \in {j \in Classify(r, f) : /\ j.repo = p[1]
                                                       /\ j.digest = p[2]}}
             = IF p \in Pairs(r) /\ PairCategory(r, f, p) # "OK"
               THEN {PairCategory(r, f, p)} ELSE {}
<1> DEFINE mine == {j \in Classify(r, f) : j.repo = p[1] /\ j.digest = p[2]}
<1>1. p[1] \in Repos /\ p[2] \in Digests /\ p = <<p[1], p[2]>> /\ p[1] # None
  BY SpecialValues DEF Pair
<1>2. Pairs(r) \subseteq Pair
  BY DEF Pairs, RedisState
<1>3. ASSUME NEW j \in mine
      PROVE  /\ p \in Pairs(r) /\ PairCategory(r, f, p) # "OK"
             /\ j.category = PairCategory(r, f, p)
  <2>1. j.repo # None
    BY <1>1
  <2>2. j \in PairIssues(r, f)
    BY <2>1 DEF Classify, OrphanIssues, LeftoverIssues, MkIssue
  <2>3. PICK q \in Pairs(r) : /\ PairCategory(r, f, q) # "OK"
                              /\ j = MkIssue(r, f, PairCategory(r, f, q), q[2], q[1])
    BY <2>2 DEF PairIssues
  <2>4. j.repo = q[1] /\ j.digest = q[2] /\ j.category = PairCategory(r, f, q)
    BY <2>3 DEF MkIssue
  <2>5. q = p
    BY <1>1, <1>2, <2>4 DEF Pair
  <2> QED BY <2>3, <2>4, <2>5
<1>4. ASSUME p \in Pairs(r), PairCategory(r, f, p) # "OK"
      PROVE  \E j \in mine : j.category = PairCategory(r, f, p)
  <2> DEFINE j == MkIssue(r, f, PairCategory(r, f, p), p[2], p[1])
  <2>1. j \in Classify(r, f)
    BY <1>4 DEF Classify, PairIssues
  <2>2. j.repo = p[1] /\ j.digest = p[2] /\ j.category = PairCategory(r, f, p)
    BY DEF MkIssue
  <2> HIDE DEF j
  <2> QED BY <2>1, <2>2
<1> HIDE DEF mine
<1>5. {i.category : i \in mine}
        = IF p \in Pairs(r) /\ PairCategory(r, f, p) # "OK"
          THEN {PairCategory(r, f, p)} ELSE {}
  BY <1>3, <1>4
<1> QED BY <1>5 DEF mine

\* What the verdict on a pair means for a pull: it takes a present global hash
\* for one that has its digest.
LEMMA CategoryMeaning ==
    ASSUME NEW r \in RedisState, NEW f \in FsState, NEW p \in Pair
    PROVE  LET digested == p[2] \in r.digest_fields
           IN  /\ PullBroken(r, f, p) <=>
                     /\ p \in Pairs(r) /\ digested
                     /\ PairCategory(r, f, p) \in {"C4", "C5"}
               /\ (StatHit(r, p) /\ ~PullBroken(r, f, p)) <=>
                     /\ p \in Pairs(r) /\ digested
                     /\ PairCategory(r, f, p) = "OK"
               /\ (p \in Pairs(r) /\ PairCategory(r, f, p) \in {"OK", "C4", "C5"})
                     => r.global_blobs[p[2]] \in Sizes
<1>1. /\ p[2] \in Digests
      /\ f[p[2]] \in Sizes \union {None}
      /\ r.global_blobs[p[2]] \in Sizes \union {None, NoKey}
  BY DEF Pair, RedisState, FsState, GlobalBlob
<1>2. GlobalValid(r, p[2]) <=> r.global_blobs[p[2]] \in Sizes
  BY DEF GlobalValid
<1>3. GlobalValid(r, p[2]) => RedisSize(r, p[2]) = r.global_blobs[p[2]]
  BY SpecialValues DEF GlobalValid, RedisSize
<1> QED BY <1>1, <1>2, <1>3, SpecialValues
        DEF PairCategory, Pairs, StatHit, PullBroken

\* The issues of a digest depend on nothing but what is said of the digest.
LEMMA IssuesAreLocal ==
    ASSUME NEW r1 \in RedisState, NEW r2 \in RedisState,
           NEW f1 \in FsState, NEW f2 \in FsState, NEW d \in Digests,
           r1.global_blobs[d] = r2.global_blobs[d], f1[d] = f2[d],
           \A p \in Pair : p[2] = d =>
              /\ p \in r1.repo_blob_sets <=> p \in r2.repo_blob_sets
              /\ p \in r1.repo_blob_hashes <=> p \in r2.repo_blob_hashes
    PROVE  {i \in Classify(r1, f1) : i.digest = d} \subseteq Classify(r2, f2)
<1> SUFFICES ASSUME NEW i \in Classify(r1, f1), i.digest = d
             PROVE  i \in Classify(r2, f2)
  OBVIOUS
<1>1. /\ Pairs(r1) \subseteq Pair /\ Pairs(r2) \subseteq Pair
      /\ \A p \in Pair : p[2] = d => (p \in Pairs(r1) <=> p \in Pairs(r2))
  BY DEF Pairs, RedisState
<1>2. /\ GlobalValid(r1, d) <=> GlobalValid(r2, d)
      /\ RedisSize(r1, d) = RedisSize(r2, d)
  BY DEF GlobalValid, RedisSize
<1>3. \A cat, x : MkIssue(r1, f1, cat, d, x) = MkIssue(r2, f2, cat, d, x)
  BY <1>2 DEF MkIssue
<1>4. CASE i \in PairIssues(r1, f1)
  <2>1. PICK p \in Pairs(r1) :
           /\ PairCategory(r1, f1, p) # "OK"
           /\ i = MkIssue(r1, f1, PairCategory(r1, f1, p), p[2], p[1])
    BY <1>4 DEF PairIssues
  <2>2. p[2] = d /\ p \in Pair
    BY <1>1, <2>1 DEF MkIssue
  <2>3. PairCategory(r1, f1, p) = PairCategory(r2, f2, p)
    BY <1>2, <2>2 DEF PairCategory
  <2>4. i = MkIssue(r2, f2, PairCategory(r2, f2, p), p[2], p[1])
    BY <1>3, <2>1, <2>2, <2>3
  <2> QED BY <1>1, <2>1, <2>2, <2>3, <2>4 DEF Classify, PairIssues
<1>5. CASE i \in OrphanIssues(r1, f1)
  <2>1. i = MkIssue(r1, f1, "C1", d, None) /\ d \in GlobalOrphans(r1)
    BY <1>5 DEF OrphanIssues, MkIssue
  <2>2. d \notin ReferencedDigests(r2)
    BY <2>1 DEF GlobalOrphans, ReferencedDigests, RedisState
  <2>3. d \in GlobalOrphans(r2)
    BY <2>1, <2>2 DEF GlobalOrphans
  <2> QED BY <1>3, <2>1, <2>3 DEF Classify, OrphanIssues
<1>6. CASE i \in LeftoverIssues(r1, f1)
  <2>1. i = MkIssue(r1, f1, "C7", d, None) /\ d \in FsLeftovers(r1, f1)
    BY <1>6 DEF LeftoverIssues, MkIssue
  <2>2. d \notin SeenDigests(r2)
    BY <1>1, <2>1 DEF FsLeftovers, SeenDigests
  <2>3. d \notin GlobalOrphans(r2)
    BY <2>1 DEF FsLeftovers, GlobalOrphans
  <2>4. d \in FsLeftovers(r2, f2)
    BY <2>1, <2>2, <2>3 DEF FsLeftovers
  <2> QED BY <1>3, <2>1, <2>4 DEF Classify, LeftoverIssues
<1> QED BY <1>4, <1>5, <1>6 DEF Classify
=============================================================================
