--------------------------- MODULE Classification ---------------------------
(***************************************************************************)
(* One call of classify on an arbitrary pair of snapshots, and what its    *)
(* verdicts mean for the registry's clients.                               *)
(***************************************************************************)
EXTENDS Classifier, Integers

ASSUME ClassificationAssumption == IsFiniteSet(Repos) /\ IsFiniteSet(Digests)

VARIABLES redis, fs,       \* the two snapshots
          issues, counts,  \* the Classification
          classified

vars == <<redis, fs, issues, counts, classified>>

TypeOK == /\ redis \in RedisState
          /\ fs \in FsState
          /\ issues \subseteq Issue
          /\ classified \in BOOLEAN

Init == /\ redis \in CacheState
        /\ fs \in FsState
        /\ issues = {}
        /\ counts = [c \in Category |-> 0]
        /\ classified = FALSE

Run == /\ ~classified
       /\ classified' = TRUE
       /\ issues' = Classify(redis, fs)
       /\ counts' = Counts(redis, fs)
       /\ UNCHANGED <<redis, fs>>

Spec == Init /\ [][Run]_vars

Verdict(p) == {i.category : i \in {j \in issues : /\ j.repo = p[1]
                                                  /\ j.digest = p[2]}}

\* classify does not look at the field `digest`, Stat does.
Undigested(d) == redis.global_blobs[d] \in Sizes /\ d \notin redis.digest_fields

\* A pair whose pull would break in the registry's own read path is called C4
\* or C5, and one whose pull is served whole is not mentioned.  The converse of
\* both holds but for a global hash that has a size and no digest: Stat misses,
\* and the classifier judges the pair as if it hit.  The if/elif chain never
\* looks at Stat: the two are independent descriptions.
VerdictMatchesPull ==
    classified =>
        \A p \in Pair :
            LET failure == Verdict(p) \in {{"C4"}, {"C5"}}
                healthy == p \in Pairs(redis) /\ Verdict(p) = {}
                whole   == StatHit(redis, p) /\ ~PullBroken(redis, fs, p)
            IN  /\ PullBroken(redis, fs, p) => failure
                /\ whole => healthy
                /\ failure => PullBroken(redis, fs, p) \/ Undigested(p[2])
                /\ healthy => whole \/ Undigested(p[2])

\* The three passes together miss nothing and count nothing twice: what the
\* tally adds up to is one verdict per pair in the cache, one per global hash
\* outside every repository set, and one per file that Redis does not know.
NothingUnaccounted ==
    classified =>
        /\ \A d \in Digests :
              (\/ redis.global_blobs[d] # NoKey
               \/ fs[d] # None
               \/ d \in SeenDigests(redis))
              <=> \/ \E i \in issues : i.digest = d
                  \/ \E r \in Repos : /\ <<r, d>> \in Pairs(redis)
                                      /\ Verdict(<<r, d>>) = {}
        /\ counts["C1"] = Cardinality({d \in Digests :
                              /\ redis.global_blobs[d] # NoKey
                              /\ \A r \in Repos : <<r, d>> \notin redis.repo_blob_sets})
        /\ counts["C7"] = Cardinality({d \in Digests :
                              /\ fs[d] # None
                              /\ redis.global_blobs[d] = NoKey
                              /\ \A r \in Repos : <<r, d>> \notin Pairs(redis)})
        /\ Cardinality(Pairs(redis)) = counts["OK"] + counts["C2"] + counts["C3"]
              + counts["C4"] + counts["C5"] + counts["C6"]
=============================================================================
