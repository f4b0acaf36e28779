------------------------------ MODULE MCClean ------------------------------
EXTENDS CleanProperties

CONSTANTS r1, r2, d1, s1, s2

\* Repositories and sizes are interchangeable: of the initial states that differ
\* in their names alone one is enough.  (SYMMETRY is not sound with liveness.)
Weight(repo) == (IF <<repo, d1>> \in redis.repo_blob_sets THEN 2 ELSE 0)
                  + (IF <<repo, d1>> \in redis.repo_blob_hashes THEN 1 ELSE 0)

MCInit ==
    /\ Init
    /\ Weight(r1) <= Weight(r2)
    /\ redis.global_blobs[d1] # s2
    /\ redis.global_blobs[d1] # s1 => fs[d1] # s2

MCSpec == MCInit /\ [][Next]_vars /\ Fairness
=============================================================================
