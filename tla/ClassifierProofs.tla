-------------------------- MODULE ClassifierProofs --------------------------
(***************************************************************************)
(* Proofs about the verdicts of classify, for any sets of repositories,    *)
(* digests and sizes.                                                      *)
(***************************************************************************)
EXTENDS Classification, ClassifierFacts, FiniteSetTheorems

ClassifiedOnce ==
    /\ redis \in RedisState /\ fs \in FsState
    /\ classified => issues = Classify(redis, fs) /\ counts = Counts(redis, fs)

LEMMA ClassifiedOnceInv == Spec => []ClassifiedOnce
<1>1. Init => ClassifiedOnce
  BY DEF Init, CacheState, ClassifiedOnce
<1>2. ClassifiedOnce /\ [Run]_vars => ClassifiedOnce'
  BY DEF ClassifiedOnce, Run, vars
<1> QED BY <1>1, <1>2, PTL DEF Spec

\* The issues of a classification are well formed: a category other than OK,
\* a digest, sizes or None.
THEOREM ClassificationTypeCorrect == Spec => []TypeOK
<1>1. Init => TypeOK
  BY DEF Init, CacheState, TypeOK
<1>2. TypeOK /\ [Run]_vars => TypeOK'
  BY ClassifyType DEF TypeOK, Run, vars
<1> QED BY <1>1, <1>2, PTL DEF Spec

\* For any registry, the pairs whose pull would break are C4 or C5, those whose
\* pull is served whole are silent, and there is no other C4, C5 or silent pair
\* but those of a global hash that has a size and no digest.
THEOREM VerdictIsExact == Spec => []VerdictMatchesPull
<1>1. ClassifiedOnce => VerdictMatchesPull
  <2> SUFFICES ASSUME ClassifiedOnce, classified, NEW p \in Pair
               PROVE  LET failure == Verdict(p) \in {{"C4"}, {"C5"}}
                          healthy == p \in Pairs(redis) /\ Verdict(p) = {}
                          whole   == /\ StatHit(redis, p)
                                     /\ ~PullBroken(redis, fs, p)
                      IN  /\ PullBroken(redis, fs, p) => failure
                          /\ whole => healthy
                          /\ failure => \/ PullBroken(redis, fs, p)
                                        \/ Undigested(p[2])
                          /\ healthy => whole \/ Undigested(p[2])
    BY DEF VerdictMatchesPull
  <2>1. redis \in RedisState /\ fs \in FsState /\ issues = Classify(redis, fs)
    BY DEF ClassifiedOnce
  <2>2. Verdict(p) = IF p \in Pairs(redis) /\ PairCategory(redis, fs, p) # "OK"
                     THEN {PairCategory(redis, fs, p)} ELSE {}
    BY <2>1, IssuesOfPair DEF Verdict
  <2>3. /\ PullBroken(redis, fs, p) <=>
              /\ p \in Pairs(redis) /\ p[2] \in redis.digest_fields
              /\ PairCategory(redis, fs, p) \in {"C4", "C5"}
        /\ (StatHit(redis, p) /\ ~PullBroken(redis, fs, p)) <=>
              /\ p \in Pairs(redis) /\ p[2] \in redis.digest_fields
              /\ PairCategory(redis, fs, p) = "OK"
        /\ (/\ p \in Pairs(redis)
            /\ PairCategory(redis, fs, p) \in {"OK", "C4", "C5"})
              => redis.global_blobs[p[2]] \in Sizes
    BY <2>1, CategoryMeaning
  <2>4. Verdict(p) \in {{"C4"}, {"C5"}} <=>
           p \in Pairs(redis) /\ PairCategory(redis, fs, p) \in {"C4", "C5"}
    BY <2>2
  <2>5. (p \in Pairs(redis) /\ Verdict(p) = {}) <=>
           p \in Pairs(redis) /\ PairCategory(redis, fs, p) = "OK"
    BY <2>2
  <2> QED BY <2>3, <2>4, <2>5 DEF Undigested
<1> QED BY <1>1, ClassifiedOnceInv, PTL

-----------------------------------------------------------------------------
(***************************************************************************)
(* The passes and the tally.                                               *)
(***************************************************************************)

\* The pairs of one verdict.
OfCategory(r, f, c) == {p \in Pairs(r) : PairCategory(r, f, p) = c}

LEMMA PairsFinite ==
    ASSUME NEW r \in RedisState
    PROVE  IsFiniteSet(Pairs(r)) /\ Pairs(r) \subseteq Repos \X Digests
<1>1. Pairs(r) \subseteq Repos \X Digests
  BY DEF Pairs, RedisState, Pair
<1>2. IsFiniteSet(Repos \X Digests)
  BY ClassificationAssumption, FS_Product
<1> QED BY <1>1, <1>2, FS_Subset

\* The tally of a pair's category counts pairs.
LEMMA TallyOfPairs ==
    ASSUME NEW r \in RedisState, NEW f \in FsState,
           NEW c \in {"C2", "C3", "C4", "C5", "C6"}
    PROVE  Counts(r, f)[c] = Cardinality(OfCategory(r, f, c))
<1> DEFINE S == OfCategory(r, f, c)
           T == {i \in Classify(r, f) : i.category = c}
           g == [p \in S |-> MkIssue(r, f, c, p[2], p[1])]
<1>1. Counts(r, f)[c] = Cardinality(T)
  BY DEF Counts, Category
<1>2. \A p \in S : p \in Repos \X Digests
  BY PairsFinite DEF OfCategory
<1>3. \A p \in S : MkIssue(r, f, c, p[2], p[1]) \in T
  BY DEF OfCategory, Classify, PairIssues, MkIssue
<1>4. ASSUME NEW i \in T
      PROVE  \E p \in S : i = MkIssue(r, f, c, p[2], p[1])
  <2>1. i \in PairIssues(r, f)
    BY DEF Classify, OrphanIssues, LeftoverIssues, MkIssue
  <2>2. PICK p \in Pairs(r) :
           i = MkIssue(r, f, PairCategory(r, f, p), p[2], p[1])
    BY <2>1 DEF PairIssues
  <2>3. PairCategory(r, f, p) = c
    BY <2>2 DEF MkIssue
  <2> QED BY <2>2, <2>3 DEF OfCategory
<1>5. \A p, q \in S : MkIssue(r, f, c, p[2], p[1]) = MkIssue(r, f, c, q[2], q[1])
                        => p = q
  <2> SUFFICES ASSUME NEW p \in S, NEW q \in S,
                      MkIssue(r, f, c, p[2], p[1]) = MkIssue(r, f, c, q[2], q[1])
               PROVE  p = q
    OBVIOUS
  <2>1. p[2] = q[2] /\ p[1] = q[1]
    BY DEF MkIssue
  <2> QED BY <1>2, <2>1
<1> HIDE DEF S, T
<1>6. g \in Bijection(S, T)
  BY <1>3, <1>4, <1>5 DEF Bijection, Injection, Surjection, IsInjective
<1>7. IsFiniteSet(S)
  BY PairsFinite, FS_Subset DEF S, OfCategory
<1>8. Cardinality(T) = Cardinality(S)
  BY <1>6, <1>7, FS_Bijection DEF ExistsBijection
<1> QED BY <1>1, <1>8 DEF S

LEMMA DisjointUnion ==
    ASSUME NEW S, NEW T, IsFiniteSet(S), IsFiniteSet(T), S \cap T = {}
    PROVE  /\ IsFiniteSet(S \union T)
           /\ Cardinality(S \union T) = Cardinality(S) + Cardinality(T)
<1>1. Cardinality(S) \in Nat /\ Cardinality(T) \in Nat
  BY FS_CardinalityType
<1>2. Cardinality(S \cap T) = 0
  BY FS_EmptySet
<1>3. /\ IsFiniteSet(S \union T)
      /\ Cardinality(S \union T)
            = Cardinality(S) + Cardinality(T) - Cardinality(S \cap T)
  BY FS_Union
<1> QED BY <1>1, <1>2, <1>3

\* Each pair is counted once.
LEMMA TallyAddsUp ==
    ASSUME NEW r \in RedisState, NEW f \in FsState
    PROVE  LET counted == Counts(r, f)
           IN  Cardinality(Pairs(r)) =
                  counted["OK"] + counted["C2"] + counted["C3"]
                    + counted["C4"] + counted["C5"] + counted["C6"]
<1> DEFINE P(c) == OfCategory(r, f, c)
           one == P("OK") \union P("C2")
           two == one \union P("C3")
           three == two \union P("C4")
           four == three \union P("C5")
<1>1. \A c : IsFiniteSet(P(c)) /\ Cardinality(P(c)) \in Nat
  BY PairsFinite, FS_Subset, FS_CardinalityType DEF OfCategory
<1>2. \A c, d : c # d => P(c) \cap P(d) = {}
  BY DEF OfCategory
<1>3. Pairs(r) = four \union P("C6")
  <2>1. \A p \in Pairs(r) :
           PairCategory(r, f, p) \in {"OK", "C2", "C3", "C4", "C5", "C6"}
    BY DEF PairCategory
  <2> QED BY <2>1 DEF OfCategory
<1> HIDE DEF P
<1>4. P("OK") \cap P("C2") = {}
  BY <1>2
<1>5. IsFiniteSet(one) /\ Cardinality(one) = Cardinality(P("OK")) + Cardinality(P("C2"))
  BY <1>1, <1>4, DisjointUnion
<1>6. one \cap P("C3") = {}
  BY <1>2
<1> HIDE DEF one
<1>7. IsFiniteSet(two) /\ Cardinality(two) = Cardinality(one) + Cardinality(P("C3"))
  BY <1>1, <1>5, <1>6, DisjointUnion
<1>8. two \cap P("C4") = {}
  BY <1>2 DEF one
<1> HIDE DEF two
<1>9. IsFiniteSet(three) /\ Cardinality(three) = Cardinality(two) + Cardinality(P("C4"))
  BY <1>1, <1>7, <1>8, DisjointUnion
<1>10. three \cap P("C5") = {}
  BY <1>2 DEF one, two
<1> HIDE DEF three
<1>11. IsFiniteSet(four) /\ Cardinality(four) = Cardinality(three) + Cardinality(P("C5"))
  BY <1>1, <1>9, <1>10, DisjointUnion
<1>12. four \cap P("C6") = {}
  BY <1>2 DEF one, two, three
<1> HIDE DEF four
<1>13. Cardinality(Pairs(r)) = Cardinality(four) + Cardinality(P("C6"))
  BY <1>1, <1>3, <1>11, <1>12, DisjointUnion
<1>14. Counts(r, f)["OK"] = Cardinality(P("OK"))
  BY DEF Counts, Category, P, OfCategory
<1>15. \A c \in {"C2", "C3", "C4", "C5", "C6"} : Counts(r, f)[c] = Cardinality(P(c))
  BY TallyOfPairs DEF P
<1> QED BY <1>1, <1>5, <1>7, <1>9, <1>11, <1>13, <1>14, <1>15

\* The tally of C7 counts files that Redis does not know.
LEMMA TallyOfLeftovers ==
    ASSUME NEW r \in RedisState, NEW f \in FsState
    PROVE  Counts(r, f)["C7"] =
              Cardinality({d \in Digests :
                              /\ f[d] # None
                              /\ r.global_blobs[d] = NoKey
                              /\ \A repo \in Repos : <<repo, d>> \notin Pairs(r)})
<1> DEFINE S == FsLeftovers(r, f)
           T == {i \in Classify(r, f) : i.category = "C7"}
           g == [d \in S |-> MkIssue(r, f, "C7", d, None)]
<1>1. S = {d \in Digests : /\ f[d] # None
                           /\ r.global_blobs[d] = NoKey
                           /\ \A repo \in Repos : <<repo, d>> \notin Pairs(r)}
  <2>1. ASSUME NEW d \in Digests
        PROVE  d \in SeenDigests(r) <=> \E repo \in Repos : <<repo, d>> \in Pairs(r)
    <3>1. \A p \in Pairs(r) : p[1] \in Repos /\ p = <<p[1], p[2]>>
      BY PairsFinite
    <3> QED BY <3>1 DEF SeenDigests
  <2> QED BY <2>1 DEF FsLeftovers, GlobalOrphans
<1>2. Counts(r, f)["C7"] = Cardinality(T)
  BY DEF Counts, Category
<1>3. T = LeftoverIssues(r, f)
  <2>1. \A p : PairCategory(r, f, p) # "C7"
    BY DEF PairCategory
  <2> QED BY <2>1 DEF Classify, PairIssues, OrphanIssues, LeftoverIssues, MkIssue
<1>4. T = {MkIssue(r, f, "C7", d, None) : d \in S}
  BY <1>3 DEF LeftoverIssues
<1>5. \A d, e \in S : MkIssue(r, f, "C7", d, None) = MkIssue(r, f, "C7", e, None)
                        => d = e
  BY DEF MkIssue
<1>6. S \subseteq Digests
  BY DEF FsLeftovers
<1> HIDE DEF S, T
<1>7. g \in Bijection(S, T)
  BY <1>4, <1>5 DEF Bijection, Injection, Surjection, IsInjective
<1>8. IsFiniteSet(S)
  BY <1>6, ClassificationAssumption, FS_Subset
<1>9. Cardinality(T) = Cardinality(S)
  BY <1>7, <1>8, FS_Bijection DEF ExistsBijection
<1> QED BY <1>1, <1>2, <1>9

\* The tally of C1 counts global hashes that no set references.
LEMMA TallyOfOrphans ==
    ASSUME NEW r \in RedisState, NEW f \in FsState
    PROVE  Counts(r, f)["C1"] =
              Cardinality({d \in Digests :
                              /\ r.global_blobs[d] # NoKey
                              /\ \A repo \in Repos : <<repo, d>> \notin r.repo_blob_sets})
<1> DEFINE S == GlobalOrphans(r)
           T == {i \in Classify(r, f) : i.category = "C1"}
           g == [d \in S |-> MkIssue(r, f, "C1", d, None)]
<1>1. S = {d \in Digests : /\ r.global_blobs[d] # NoKey
                           /\ \A repo \in Repos : <<repo, d>> \notin r.repo_blob_sets}
  <2>1. ASSUME NEW d \in Digests
        PROVE  d \in ReferencedDigests(r) <=>
                  \E repo \in Repos : <<repo, d>> \in r.repo_blob_sets
    <3>1. \A p \in r.repo_blob_sets : p[1] \in Repos /\ p = <<p[1], p[2]>>
      BY DEF RedisState, Pair
    <3> QED BY <3>1 DEF ReferencedDigests
  <2> QED BY <2>1 DEF GlobalOrphans
<1>2. Counts(r, f)["C1"] = Cardinality(T)
  BY DEF Counts, Category
<1>3. T = {MkIssue(r, f, "C1", d, None) : d \in S}
  <2>1. \A p : PairCategory(r, f, p) # "C1"
    BY DEF PairCategory
  <2> QED BY <2>1 DEF Classify, PairIssues, OrphanIssues, LeftoverIssues, MkIssue
<1>4. \A d, e \in S : MkIssue(r, f, "C1", d, None) = MkIssue(r, f, "C1", e, None)
                        => d = e
  BY DEF MkIssue
<1>5. S \subseteq Digests
  BY DEF GlobalOrphans
<1> HIDE DEF S, T
<1>6. g \in Bijection(S, T)
  BY <1>3, <1>4 DEF Bijection, Injection, Surjection, IsInjective
<1>7. IsFiniteSet(S)
  BY <1>5, ClassificationAssumption, FS_Subset
<1>8. Cardinality(T) = Cardinality(S)
  BY <1>6, <1>7, FS_Bijection DEF ExistsBijection
<1> QED BY <1>1, <1>2, <1>8

\* Every digest that Redis or storage mentions has an issue or a healthy pair.
LEMMA DigestsAccounted ==
    ASSUME NEW r \in RedisState, NEW f \in FsState, NEW d \in Digests
    PROVE  (r.global_blobs[d] # NoKey \/ f[d] # None \/ d \in SeenDigests(r))
           <=> \/ \E i \in Classify(r, f) : i.digest = d
               \/ \E repo \in Repos : /\ <<repo, d>> \in Pairs(r)
                                      /\ PairCategory(r, f, <<repo, d>>) = "OK"
<1>1. \A p \in Pairs(r) : p[1] \in Repos /\ p = <<p[1], p[2]>>
  BY PairsFinite
<1>2. ASSUME NEW i \in Classify(r, f), i.digest = d
      PROVE  r.global_blobs[d] # NoKey \/ f[d] # None \/ d \in SeenDigests(r)
  <2>1. CASE i \in PairIssues(r, f)
    BY <1>2, <2>1 DEF PairIssues, MkIssue, SeenDigests
  <2>2. CASE i \in OrphanIssues(r, f)
    BY <1>2, <2>2 DEF OrphanIssues, MkIssue, GlobalOrphans
  <2>3. CASE i \in LeftoverIssues(r, f)
    BY <1>2, <2>3 DEF LeftoverIssues, MkIssue, FsLeftovers
  <2> QED BY <2>1, <2>2, <2>3 DEF Classify
<1>3. ASSUME NEW repo \in Repos, <<repo, d>> \in Pairs(r)
      PROVE  d \in SeenDigests(r)
  <2>1. <<repo, d>>[2] = d
    OBVIOUS
  <2> QED BY <1>3, <2>1 DEF SeenDigests
<1>4. ASSUME d \in SeenDigests(r)
      PROVE  \/ \E i \in Classify(r, f) : i.digest = d
             \/ \E repo \in Repos : /\ <<repo, d>> \in Pairs(r)
                                    /\ PairCategory(r, f, <<repo, d>>) = "OK"
  <2>1. PICK p \in Pairs(r) : p[2] = d
    BY <1>4 DEF SeenDigests
  <2>2. CASE PairCategory(r, f, p) = "OK"
    BY <1>1, <2>1, <2>2
  <2>3. CASE PairCategory(r, f, p) # "OK"
    <3> DEFINE i == MkIssue(r, f, PairCategory(r, f, p), p[2], p[1])
    <3>1. i \in Classify(r, f)
      BY <2>3 DEF Classify, PairIssues
    <3>2. i.digest = d
      BY <2>1 DEF MkIssue
    <3> QED BY <3>1, <3>2
  <2> QED BY <2>2, <2>3
<1>5. ASSUME d \notin SeenDigests(r), r.global_blobs[d] # NoKey
      PROVE  \E i \in Classify(r, f) : i.digest = d
  <2> DEFINE i == MkIssue(r, f, "C1", d, None)
  <2>1. d \in GlobalOrphans(r)
    BY <1>5 DEF GlobalOrphans, ReferencedDigests, SeenDigests, Pairs
  <2>2. i \in Classify(r, f)
    BY <2>1 DEF Classify, OrphanIssues
  <2>3. i.digest = d
    BY DEF MkIssue
  <2> QED BY <2>2, <2>3
<1>6. ASSUME d \notin SeenDigests(r), r.global_blobs[d] = NoKey, f[d] # None
      PROVE  \E i \in Classify(r, f) : i.digest = d
  <2> DEFINE i == MkIssue(r, f, "C7", d, None)
  <2>1. d \in FsLeftovers(r, f)
    BY <1>6 DEF FsLeftovers, GlobalOrphans
  <2>2. i \in Classify(r, f)
    BY <2>1 DEF Classify, LeftoverIssues
  <2>3. i.digest = d
    BY DEF MkIssue
  <2> QED BY <2>2, <2>3
<1> QED BY <1>2, <1>3, <1>4, <1>5, <1>6

\* For any finite registry, the passes leave no digest out, and the tally adds
\* up to every pair once, every global hash outside the sets once and every file
\* that Redis does not know once.
THEOREM PassesAreComplete == Spec => []NothingUnaccounted
<1>1. ClassifiedOnce => NothingUnaccounted
  <2> SUFFICES ASSUME ClassifiedOnce, classified PROVE NothingUnaccounted
    BY DEF NothingUnaccounted
  <2>1. /\ redis \in RedisState /\ fs \in FsState
        /\ issues = Classify(redis, fs) /\ counts = Counts(redis, fs)
    BY DEF ClassifiedOnce
  <2>2. ASSUME NEW d \in Digests, NEW r \in Repos, <<r, d>> \in Pairs(redis)
        PROVE  Verdict(<<r, d>>) = {} <=> PairCategory(redis, fs, <<r, d>>) = "OK"
    <3> DEFINE p == <<r, d>>
    <3>1. p \in Pair /\ p \in Pairs(redis)
      BY <2>2 DEF Pair
    <3> HIDE DEF p
    <3>2. Verdict(p) = IF p \in Pairs(redis) /\ PairCategory(redis, fs, p) # "OK"
                       THEN {PairCategory(redis, fs, p)} ELSE {}
      BY <2>1, <3>1, IssuesOfPair DEF Verdict
    <3>3. Verdict(p) = {} <=> PairCategory(redis, fs, p) = "OK"
      BY <3>1, <3>2
    <3> QED BY <3>3 DEF p
  <2>3. \A d \in Digests :
           (\/ redis.global_blobs[d] # NoKey
            \/ fs[d] # None
            \/ d \in SeenDigests(redis))
           <=> \/ \E i \in issues : i.digest = d
               \/ \E r \in Repos : /\ <<r, d>> \in Pairs(redis)
                                   /\ Verdict(<<r, d>>) = {}
    BY <2>1, <2>2, DigestsAccounted
  <2>4. counts["C7"] = Cardinality({d \in Digests :
                          /\ fs[d] # None
                          /\ redis.global_blobs[d] = NoKey
                          /\ \A r \in Repos : <<r, d>> \notin Pairs(redis)})
    BY <2>1, TallyOfLeftovers
  <2>5. Cardinality(Pairs(redis)) = counts["OK"] + counts["C2"] + counts["C3"]
           + counts["C4"] + counts["C5"] + counts["C6"]
    BY <2>1, TallyAddsUp
  <2>6. counts["C1"] = Cardinality({d \in Digests :
                          /\ redis.global_blobs[d] # NoKey
                          /\ \A r \in Repos : <<r, d>> \notin redis.repo_blob_sets})
    BY <2>1, TallyOfOrphans
  <2> QED BY <2>3, <2>4, <2>5, <2>6 DEF NothingUnaccounted
<1> QED BY <1>1, ClassifiedOnceInv, PTL
=============================================================================
