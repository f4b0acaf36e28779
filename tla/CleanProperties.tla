--------------------------- MODULE CleanProperties ---------------------------
(***************************************************************************)
(* What a call of clean_registry guarantees, whatever the registry writes  *)
(* meanwhile, whichever attempts fail, and whenever a lost pipeline's      *)
(* commands reach Redis.                                                   *)
(***************************************************************************)
EXTENDS Clean

Issues == Classify(snapshot, fs)

\* The digests that an issue of an eligible category condemns: none at all
\* on a dry run.
Condemned ==
    IF dry_run THEN {} ELSE {o.digest : o \in PlannedOps(Issues)}

-----------------------------------------------------------------------------
\* The report is a partition of the plan: when execute_clean returns, every
\* op is counted once, as applied or as failed, and a dry run counts neither.
ReportAddsUp ==
    pc = "done" => applied + Len(failures) = IF dry_run THEN 0 ELSE Len(ops)

\* An op that the report counts as applied has taken effect: each key or
\* member it removes is gone, unless the registry has written it since the
\* scan.  Neither a retry after a partly executed attempt nor the late
\* commands of an abandoned pipeline can undo it.
AppliedIsGone ==
    \A i \in 1 .. Len(ops) :
        (i < start /\ ops[i] \notin Range(failures)) =>
            \A k \in 1 .. Len(QueueOp(ops[i])) :
                LET c == QueueOp(ops[i])[k]
                IN  Gone(redis, c) \/ c \in rewritten

\* A call removes nothing but what the scan's issues name: a set member of a
\* C2-C5 pair, a repository hash of a C2-C6 pair, a global hash of a digest
\* with an issue; only C4 and C5 when internal garbage is to be kept, and
\* nothing on a dry run.
RemovesOnlyNamed ==
    LET Named(cats) == {<<i.repo, i.digest>> :
                           i \in {j \in Issues : j.category \in cats}}
        all  == IF dry_run THEN {}
                ELSE IF clear_internal_garbage THEN Category \ {"C7"}
                ELSE {"C4", "C5"}
    IN  /\ redis.repo_blob_sets \ redis'.repo_blob_sets
             \subseteq Named(all \ {"C1", "C6"})
        /\ redis.repo_blob_hashes \ redis'.repo_blob_hashes
             \subseteq Named(all \ {"C1"})
        /\ \A d \in Digests :
             redis'.global_blobs[d] # redis.global_blobs[d] =>
                \E q \in Named(all) : q[2] = d

NoCollateral == [][writes' = writes => RemovesOnlyNamed]_redis

\* clean.py: "Half-applied batches degrade into the same internal-garbage
\* states".  While the registry is quiet, whatever prefix of whatever pipelines
\* has been executed, a pair's verdict only moves towards a harmless one, and
\* no pair ever becomes C4 or C5.
Verdict(r, p) == IF p \in Pairs(r) THEN PairCategory(r, fs, p) ELSE "none"

Degrades ==
    {<<"OK", "C2">>, <<"C2", "C6">>, <<"C2", "none">>, <<"C3", "C2">>,
     <<"C3", "none">>, <<"C6", "none">>}
      \union {"C4", "C5"} \X {"C2", "C6", "none"}

HalfAppliedDegrades ==
    writes = 0 =>
        \A p \in Pair :
            LET before == Verdict(snapshot, p)
                now    == Verdict(redis, p)
            IN  before = now \/ <<before, now>> \in Degrades

\* To a client of the registry the call is a series of evictions of condemned
\* digests, interleaved with the registry's own updates.
Evictions == INSTANCE DescriptorCache
    WITH served <- [p \in Pair |-> Served(redis, p)], condemned <- Condemned

EvictionOnly == Evictions!Spec

\* Every attempt ends and every chunk has finitely many: the call returns,
\* unless it is aborted.
Terminates == <>(pc \in {"done", "aborted"})
-----------------------------------------------------------------------------
(***************************************************************************)
(* The inductive invariant behind these properties.                        *)
(***************************************************************************)

\* The plan is made of the eligible issues and of nothing else, and a dry run
\* never leaves it.
PlanInv ==
    /\ \A i \in 1 .. Len(ops) : ops[i] \in PlannedOps(Issues)
    /\ pc \in {"send", "wait", "aborted"} \/ wire # <<>> => ~dry_run
    /\ pc = "plan" => ops = <<>> /\ wire = <<>> /\ start = 1

\* Every pipeline carries ops of the plan and stands before a command.
WellPlaced(p) ==
    /\ p.last <= Len(ops)
    /\ ~Drained(p) => p.cmd <= Len(QueueOp(ops[p.op]))

WireInv == \A n \in 1 .. Len(wire) : WellPlaced(wire[n])

\* A pipeline that carries the chunk has executed what lies before its next
\* command.
Effective(c) == Gone(redis, c) \/ c \in rewritten

Executed(p) ==
    /\ \A i \in start .. ChunkEnd : i < p.op =>
          \A k \in 1 .. Len(QueueOp(ops[i])) : Effective(QueueOp(ops[i])[k])
    /\ ~Drained(p) =>
          \A k \in 1 .. p.cmd - 1 : Effective(QueueOp(ops[p.op])[k])

CurrentInv ==
    pc = "wait" => /\ wire # <<>>
                   /\ wire[Len(wire)].op >= start
                   /\ wire[Len(wire)].last = ChunkEnd
                   /\ Executed(wire[Len(wire)])

\* Where the loop over the chunks stands, and what it has counted.
LoopInv ==
    /\ pc = "plan" => attempts = 0
    /\ pc \in {"send", "wait"} => start <= Len(ops)
    /\ pc = "send" => attempts < MaxAttempts
    /\ pc = "wait" => attempts > 0
    /\ pc = "done" => dry_run \/ start > Len(ops)
    /\ start > Len(ops) + 1 => pc = "done"
    /\ start = 1 => applied = 0 /\ failures = <<>>
    /\ ~dry_run => applied + Len(failures) =
                     IF start <= Len(ops) THEN start - 1 ELSE Len(ops)
    /\ dry_run => start = 1

IInv == TypeOK /\ PlanInv /\ WireInv /\ CurrentInv /\ LoopInv /\ AppliedIsGone

\* r is what removals have left of s, and a repository hash has gone only after
\* its set member.
Shrunk(r, s) ==
    /\ r.repo_blob_sets \subseteq s.repo_blob_sets
    /\ r.repo_blob_hashes \subseteq s.repo_blob_hashes
    /\ \A d \in Digests : r.global_blobs[d] \in {s.global_blobs[d], NoKey}
    /\ \A p \in s.repo_blob_hashes \ r.repo_blob_hashes : p \notin r.repo_blob_sets

\* As long as the registry is quiet, Redis only shrinks, and a set member or
\* hash goes for its own verdict.
ShrinkInv ==
    /\ Shrunk(redis, snapshot)
    /\ \A p \in snapshot.repo_blob_sets \ redis.repo_blob_sets :
          PairCategory(snapshot, fs, p) \in NeedsSrem
    /\ \A p \in snapshot.repo_blob_hashes \ redis.repo_blob_hashes :
          PairCategory(snapshot, fs, p) \in RepoScoped

\* Every pipeline has removed what the commands before its next one name.
PrefixInv ==
    \A n \in 1 .. Len(wire) :
        ~Drained(wire[n]) =>
            \A k \in 1 .. wire[n].cmd - 1 :
                Gone(redis, QueueOp(ops[wire[n].op])[k])

QuietInv == writes = 0 => ShrinkInv /\ PrefixInv
=============================================================================
