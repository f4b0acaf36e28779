---------------------------- MODULE MCClassifier ----------------------------
EXTENDS Classification, TLC

Symmetry == Permutations(Repos) \union Permutations(Digests)
              \union Permutations(Sizes)
=============================================================================
