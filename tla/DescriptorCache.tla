--------------------------- MODULE DescriptorCache ---------------------------
(***************************************************************************)
(* What `rcd clean` promises the registry's clients, with nothing left of  *)
(* keys, commands and pipelines: a table of the sizes that pulls are       *)
(* served from the cache, from which the doctor may only evict entries,    *)
(* and only those of condemned digests.  An evicted entry is a miss, which *)
(* the registry repairs from its backend.                                  *)
(***************************************************************************)
EXTENDS Naturals

CONSTANTS Repos, Digests, Sizes, None

VARIABLES served,      \* the size each (repo, digest) is served with, or None
          condemned,   \* digests whose entries the doctor may evict
          writes       \* updates by the registry itself

vars == <<served, condemned, writes>>

Init == /\ served \in [Repos \X Digests -> Sizes \union {None}]
        /\ condemned \in SUBSET Digests
        /\ writes = 0

\* One command of the doctor evicts entries of one condemned digest.
Evict(d) ==
    /\ d \in condemned
    /\ \E evicted \in SUBSET (Repos \X {d}) :
          served' = [p \in Repos \X Digests |->
                        IF p \in evicted THEN None ELSE served[p]]
    /\ UNCHANGED <<condemned, writes>>

\* One command of the registry changes entries of one digest.
Update(d) ==
    /\ writes' = writes + 1
    /\ served' \in [Repos \X Digests -> Sizes \union {None}]
    /\ \A p \in Repos \X Digests : p[2] # d => served'[p] = served[p]
    /\ UNCHANGED condemned

Next == \E d \in Digests : Evict(d) \/ Update(d)

Spec == Init /\ [][Next]_vars
=============================================================================
