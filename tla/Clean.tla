-------------------------------- MODULE Clean --------------------------------
(***************************************************************************)
(* rcd.clean: one call of clean_registry on one registry.                  *)
(*                                                                         *)
(* plan_clean turns the issues of a scan into ops; execute_clean sends     *)
(* them in batches, each a non-transactional pipeline that is retried as a *)
(* whole and then counted as applied or as failed.  Meanwhile the registry *)
(* goes on writing the same keys, and a pipeline whose attempt failed may  *)
(* still have commands on their way to Redis: they are executed late, in   *)
(* the midst of a later attempt or after the report, or never.             *)
(*                                                                         *)
(* A definition marked "Slip" is no part of the model: it is a mistake the *)
(* definition after it could hold, kept to show that a property sees it.   *)
(***************************************************************************)
EXTENDS Classifier, Integers, SequencesExt

CONSTANTS Batch,      \* clean.batch: ops per pipeline
          Retry,      \* clean.retry: attempts after the first
          MaxWrites   \* bound: registry commands in a behaviour

ASSUME CleanAssumption ==
    /\ Batch \in Nat \ {0}
    /\ Retry \in Nat
    /\ MaxWrites \in Nat
    /\ IsFiniteSet(Repos) /\ IsFiniteSet(Digests)

VARIABLES
    redis,                   \* the registry's Redis
    snapshot, fs,            \* what the scan saw of Redis and of the storage
    dry_run,                 \* arguments of the call
    clear_internal_garbage,
    pc,                      \* "plan", "send", "wait", "done" or "aborted"
    ops,                     \* the plan
    start,                   \* index in ops of the first op of the chunk
    attempts,                \* attempts made for this chunk
    applied, retried,        \* the report: counters
    failures,                \* the report: ops of the batches given up
    wire,                    \* one pipeline per attempt, the last one current
    writes,                  \* registry commands so far
    rewritten                \* history: removals the registry has undone

call   == <<snapshot, fs, dry_run, clear_internal_garbage>>
report == <<applied, retried, failures>>
local  == <<call, pc, ops, start, attempts, report>>
vars   == <<redis, local, wire, writes, rewritten>>

-----------------------------------------------------------------------------
\* plan_clean

\* Slips: C6 is not held for garbage, a missing file is not held for a
\* failure, only the real failures (or only the others) lose their set member.
InternalGarbageNoC6 == {"C1", "C2", "C3"}
RealFailuresNoC4    == {"C5"}
NeedsSremFailures   == {"C4", "C5"}
NeedsSremGarbage    == {"C2", "C3"}

InternalGarbage == {"C1", "C2", "C3", "C6"}
RealFailures    == {"C4", "C5"}
RepoScoped      == {"C2", "C3", "C4", "C5", "C6"}
NeedsSrem       == {"C2", "C3", "C4", "C5"}

CleanOp == [category : InternalGarbage \union RealFailures,
            digest   : Digests,
            repo     : Repos \union {None}]

\* Slip: clear_internal_garbage is not passed on.
EligibleAlways == InternalGarbage \union RealFailures

Eligible == IF clear_internal_garbage THEN InternalGarbage \union RealFailures
                                      ELSE RealFailures

ToCleanOp(i) == [category |-> i.category, digest |-> i.digest, repo |-> i.repo]

\* Slip: the plan takes every issue.
PlannedOpsUnfiltered(issues) == {ToCleanOp(i) : i \in issues}

PlannedOps(issues) ==
    {ToCleanOp(i) : i \in {j \in issues :
        /\ j.category \in Eligible
        /\ ~(j.category \in RepoScoped /\ j.repo = None)}}

\* The plan keeps the order of the issues: the pairs of a Python set in an
\* arbitrary order, then the orphans in the order of the snapshot.
Plans(issues) ==
    LET orphans == {o \in PlannedOps(issues) : o.category = "C1"}
    IN  {s \o t : s \in SetToSeqs(PlannedOps(issues) \ orphans),
                  t \in SetToSeqs(orphans)}

-----------------------------------------------------------------------------
\* execute_clean

\* The commands of an op, in the order the pipeline carries them.
QueueOp(op) ==
    LET pair == <<op.repo, op.digest>>
    IN  IF op.category = "C1" THEN <<Hdel(op.digest)>>
        ELSE IF op.category \in NeedsSrem
             THEN <<Srem(pair), Del(pair), Hdel(op.digest)>>
             ELSE <<Del(pair), Hdel(op.digest)>>

\* Slip: the slice ends one op early.
ChunkEndShort ==
    IF start + Batch - 2 < Len(ops) THEN start + Batch - 2 ELSE Len(ops)

ChunkEnd == IF start + Batch - 1 < Len(ops) THEN start + Batch - 1 ELSE Len(ops)

\* Slip: every chunk is counted as a full one.
ChunkLenFull == Batch

ChunkLen == ChunkEnd - start + 1

MaxAttempts == Retry + 1

\* Slip: the last failed attempt announces one more, which is never made.
MayRetryOnceMore == attempts <= MaxAttempts

MayRetry == attempts < MaxAttempts

\* A pipeline on its way through Redis: the op and the command that come next,
\* and the last op it carries.
PipelineType == [op : Nat \ {0}, cmd : 1 .. 3, last : Nat]

Pipeline(first, last) == [op |-> first, cmd |-> 1, last |-> last]

Drained(p) == p.op > p.last

NextChunk ==
    /\ start' = start + Batch
    /\ attempts' = 0
    /\ pc' = IF start + Batch <= Len(ops) THEN "send" ELSE "done"

-----------------------------------------------------------------------------
TypeOK ==
    /\ redis \in RedisState
    /\ snapshot \in RedisState
    /\ fs \in FsState
    /\ dry_run \in BOOLEAN
    /\ clear_internal_garbage \in BOOLEAN
    /\ pc \in {"plan", "send", "wait", "done", "aborted"}
    /\ ops \in Seq(CleanOp)
    /\ start \in Nat \ {0}
    /\ attempts \in 0 .. MaxAttempts
    /\ applied \in Nat
    /\ retried \in Nat
    /\ failures \in Seq(CleanOp)
    /\ wire \in Seq(PipelineType)
    /\ writes \in 0 .. MaxWrites
    /\ rewritten \subseteq Command

\* The call starts from any state of the cache, scanned at that moment: the
\* registry's own commands leave every such state when one of them is lost.
Init ==
    /\ redis \in CacheState
    /\ snapshot = redis
    /\ fs \in FsState
    /\ dry_run \in BOOLEAN
    /\ clear_internal_garbage \in BOOLEAN
    /\ pc = "plan"
    /\ ops = <<>>
    /\ start = 1
    /\ attempts = 0
    /\ applied = 0 /\ retried = 0
    /\ failures = <<>>
    /\ wire = <<>>
    /\ writes = 0
    /\ rewritten = {}

\* Slip: a dry run is not told apart.
NothingToExecuteIfWet(plan) == plan = <<>>

NothingToExecute(plan) == dry_run \/ plan = <<>>

\* clean_registry: plan, and return at once on a dry run or an empty plan.
Plan ==
    /\ pc = "plan"
    /\ ops' \in Plans(Classify(snapshot, fs))
    /\ pc' = IF NothingToExecute(ops') THEN "done" ELSE "send"
    /\ UNCHANGED <<redis, call, start, attempts, report, wire, writes, rewritten>>

\* A new attempt at the chunk: a new pipeline with all of its commands.
Send ==
    /\ pc = "send"
    /\ attempts < MaxAttempts
    /\ attempts' = attempts + 1
    /\ wire' = Append(wire, Pipeline(start, ChunkEnd))
    /\ pc' = "wait"
    /\ UNCHANGED <<redis, call, ops, start, report, writes, rewritten>>

\* Redis executes the next command of the n-th pipeline.
Serve(n) ==
    LET p        == wire[n]
        commands == QueueOp(ops[p.op])
    IN  /\ ~Drained(p)
        /\ redis' = Exec(redis, commands[p.cmd])
        /\ wire' = [wire EXCEPT ![n] =
                        IF p.cmd < Len(commands)
                        THEN [p EXCEPT !.cmd = @ + 1]
                        ELSE [p EXCEPT !.op = @ + 1, !.cmd = 1]]
        /\ UNCHANGED <<local, writes, rewritten>>

\* pipe.execute() returns the replies of every command.
ExecuteOk ==
    /\ pc = "wait"
    /\ Drained(wire[Len(wire)])
    /\ applied' = applied + ChunkLen
    /\ NextChunk
    /\ UNCHANGED <<redis, call, ops, retried, failures, wire, writes, rewritten>>

\* pipe.execute() raises RedisError or OSError, after any prefix of the
\* commands has been executed, the whole of them included.
ExecuteErrorRetry ==
    /\ pc = "wait"
    /\ MayRetry
    /\ retried' = retried + 1
    /\ pc' = "send"
    /\ UNCHANGED <<redis, call, ops, start, attempts, applied, failures, wire,
                   writes, rewritten>>

ExecuteErrorGiveUp ==
    /\ pc = "wait"
    /\ ~MayRetry
    /\ failures' = failures \o SubSeq(ops, start, ChunkEnd)
    /\ NextChunk
    /\ UNCHANGED <<redis, call, ops, applied, retried, wire, writes, rewritten>>

\* The process is killed or any other exception leaves execute_clean.
Abort ==
    /\ pc \in {"send", "wait"}
    /\ pc' = "aborted"
    /\ UNCHANGED <<redis, call, ops, start, attempts, report, wire, writes,
                   rewritten>>

-----------------------------------------------------------------------------
\* The registry: single commands of SetDescriptor and Clear, by any number of
\* concurrent requests, in any order.

RegistryWrite(r, undone) ==
    /\ writes < MaxWrites
    /\ writes' = writes + 1
    /\ redis' = r
    /\ rewritten' = rewritten \union undone
    /\ UNCHANGED <<local, wire>>

RegistrySadd(p)     == RegistryWrite(Sadd(redis, p), {Srem(p)})
RegistryHmset(d, s) == RegistryWrite(Hmset(redis, d, s), {Hdel(d)})
RegistryHsetnx(d)   == RegistryWrite(Hsetnx(redis, d), {Hdel(d)})
RegistryHset(p)     == RegistryWrite(Hset(redis, p), {Del(p)})
RegistryClear(c)    == RegistryWrite(Exec(redis, c), {})

Registry ==
    \/ \E p \in Pair : RegistrySadd(p) \/ RegistryHset(p)
    \/ \E d \in Digests :
          \/ \E s \in Sizes : RegistryHmset(d, s)
          \/ RegistryHsetnx(d)
    \/ \E c \in Command : RegistryClear(c)

-----------------------------------------------------------------------------
Next ==
    \/ Plan
    \/ Send
    \/ \E n \in 1 .. Len(wire) : Serve(n)
    \/ ExecuteOk
    \/ ExecuteErrorRetry
    \/ ExecuteErrorGiveUp
    \/ Abort
    \/ Registry

\* An attempt always ends: Redis serves the current pipeline or the socket
\* timeout of the client raises.  A pipeline left behind is owed nothing.
Reply == \/ wire # <<>> /\ Serve(Len(wire)) /\ pc = "wait"
         \/ ExecuteOk
         \/ ExecuteErrorRetry
         \/ ExecuteErrorGiveUp

Fairness == WF_vars(Plan) /\ WF_vars(Send) /\ WF_vars(Reply)

Spec == Init /\ [][Next]_vars /\ Fairness
=============================================================================
