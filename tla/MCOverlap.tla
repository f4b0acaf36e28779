------------------------------ MODULE MCOverlap ------------------------------
EXTENDS Overlap, TLC

Symmetry == Permutations(Repos) \union Permutations(Digests)
              \union Permutations(Sizes)
=============================================================================
