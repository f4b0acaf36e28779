----------------------------- MODULE CleanProofs -----------------------------
(***************************************************************************)
(* Proofs about one call of clean_registry, for any repositories, digests, *)
(* sizes, batch size, number of retries and registry writes: the           *)
(* invariants of CleanProperties, that it implements DescriptorCache, and  *)
(* what a call does to a quiet registry, one of several calls included.    *)
(***************************************************************************)
EXTENDS CleanProperties, ClassifierFacts, FiniteSetTheorems, SequenceTheorems

-----------------------------------------------------------------------------
(***************************************************************************)
(* The data: ops and commands.                                             *)
(***************************************************************************)

\* An op of the plan that is not a C1 names a repository.
LEMMA PlannedOpsType ==
    ASSUME NEW issues \in SUBSET Issue
    PROVE  /\ PlannedOps(issues) \subseteq CleanOp
           /\ \A o \in PlannedOps(issues) : o.category # "C1" => o.repo \in Repos
<1> SUFFICES ASSUME NEW o \in PlannedOps(issues)
             PROVE  o \in CleanOp /\ (o.category # "C1" => o.repo \in Repos)
  OBVIOUS
<1>1. PICK i \in issues : /\ o = ToCleanOp(i)
                          /\ i.category \in Eligible
                          /\ ~(i.category \in RepoScoped /\ i.repo = None)
  BY DEF PlannedOps
<1>2. /\ i.category \in InternalGarbage \union RealFailures
      /\ i.digest \in Digests
      /\ i.repo \in Repos \union {None}
  BY <1>1 DEF Issue, Eligible
<1>3. o = [category |-> i.category, digest |-> i.digest, repo |-> i.repo]
  BY <1>1 DEF ToCleanOp
<1>4. o \in CleanOp
  BY <1>2, <1>3 DEF CleanOp
<1>5. ASSUME o.category # "C1" PROVE o.repo \in Repos
  BY <1>1, <1>2, <1>3, <1>5 DEF RepoScoped, InternalGarbage, RealFailures
<1> QED
  BY <1>4, <1>5

LEMMA CleanOpFinite == IsFiniteSet(CleanOp)
<1> DEFINE cats == InternalGarbage \union RealFailures
           T == cats \X (Digests \X (Repos \union {None}))
           f == [t \in T |-> [category |-> t[1], digest |-> t[2][1],
                              repo |-> t[2][2]]]
<1>1. IsFiniteSet(cats)
  <2>1. \A x : IsFiniteSet({x})
    BY FS_Singleton
  <2>2. cats = ((({"C1"} \union {"C2"}) \union {"C3"})
                 \union ({"C4"} \union {"C5"})) \union {"C6"}
    BY DEF InternalGarbage, RealFailures
  <2>3. IsFiniteSet({"C1"} \union {"C2"}) /\ IsFiniteSet({"C4"} \union {"C5"})
    BY <2>1, FS_Union
  <2>4. IsFiniteSet(({"C1"} \union {"C2"}) \union {"C3"})
    BY <2>1, <2>3, FS_Union
  <2>5. IsFiniteSet((({"C1"} \union {"C2"}) \union {"C3"})
                     \union ({"C4"} \union {"C5"}))
    BY <2>3, <2>4, FS_Union
  <2> HIDE DEF cats
  <2> QED BY <2>1, <2>2, <2>5, FS_Union
<1>2. IsFiniteSet(T)
  <2>1. IsFiniteSet(Repos \union {None})
    BY CleanAssumption, FS_AddElement
  <2>2. IsFiniteSet(Digests \X (Repos \union {None}))
    BY <2>1, CleanAssumption, FS_Product
  <2> HIDE DEF cats
  <2> QED BY <1>1, <2>2, FS_Product
<1>3. f \in Surjection(T, CleanOp)
  <2>1. f \in [T -> CleanOp]
    BY DEF CleanOp
  <2>2. ASSUME NEW o \in CleanOp PROVE \E t \in T : f[t] = o
    <3>1. <<o.category, <<o.digest, o.repo>>>> \in T
      BY DEF CleanOp
    <3>2. f[<<o.category, <<o.digest, o.repo>>>>] = o
      BY <3>1 DEF CleanOp
    <3> QED BY <3>1, <3>2
  <2> QED BY <2>1, <2>2 DEF Surjection
<1> QED BY <1>2, <1>3, FS_Surjection

\* The orders that SetToSeqs gives a finite set are sequences of its elements.
LEMMA SetToSeqsType ==
    ASSUME NEW S, IsFiniteSet(S), NEW s \in SetToSeqs(S)
    PROVE  s \in Seq(S)
<1>1. Cardinality(S) \in Nat
  BY FS_CardinalityType
<1>2. s \in [1 .. Cardinality(S) -> S]
  BY DEF SetToSeqs
<1> QED BY <1>1, <1>2, SeqDef

\* A plan is a sequence of planned ops.
LEMMA PlansType ==
    ASSUME NEW issues \in SUBSET Issue, NEW o \in Plans(issues)
    PROVE  o \in Seq(PlannedOps(issues))
<1> DEFINE P == PlannedOps(issues)
           orphans == {x \in P : x.category = "C1"}
<1>1. IsFiniteSet(P) /\ IsFiniteSet(orphans) /\ IsFiniteSet(P \ orphans)
  <2>1. P \subseteq CleanOp
    BY PlannedOpsType
  <2>2. orphans \subseteq CleanOp /\ P \ orphans \subseteq CleanOp
    BY <2>1
  <2> HIDE DEF P, orphans
  <2> QED BY <2>1, <2>2, CleanOpFinite, FS_Subset
<1>2. PICK s \in SetToSeqs(P \ orphans), t \in SetToSeqs(orphans) : o = s \o t
  BY DEF Plans
<1>3. s \in Seq(P \ orphans) /\ t \in Seq(orphans)
  <2> HIDE DEF orphans, P
  <2> QED BY <1>1, <1>2, SetToSeqsType
<1>4. s \in Seq(P) /\ t \in Seq(P)
  <2>1. P \ orphans \subseteq P /\ orphans \subseteq P
    OBVIOUS
  <2> HIDE DEF orphans, P
  <2> QED BY <1>3, <2>1, SeqMonotonic
<1> HIDE DEF orphans, P
<1>5. s \o t \in Seq(P)
  BY <1>4
<1> QED BY <1>2, <1>5 DEF P

\* An op is one to three removal commands.
LEMMA QueueOpType ==
    ASSUME NEW op \in CleanOp, op.category # "C1" => op.repo \in Repos
    PROVE  /\ QueueOp(op) \in Seq(Command)
           /\ 1 <= Len(QueueOp(op)) /\ Len(QueueOp(op)) <= 3
<1> DEFINE pair == <<op.repo, op.digest>>
<1>1. op.digest \in Digests
  BY DEF CleanOp
<1>2. Hdel(op.digest) \in Command
  BY <1>1 DEF Hdel, Command
<1>3. CASE op.category = "C1"
  <2>1. QueueOp(op) = <<Hdel(op.digest)>>
    BY <1>3 DEF QueueOp
  <2> QED BY <1>2, <2>1
<1>4. CASE op.category # "C1"
  <2>1. Srem(pair) \in Command /\ Del(pair) \in Command
    BY <1>1, <1>4 DEF Srem, Del, Command
  <2>2. CASE op.category \in NeedsSrem
    <3>1. QueueOp(op) = <<Srem(pair), Del(pair), Hdel(op.digest)>>
      BY <1>4, <2>2 DEF QueueOp
    <3> HIDE DEF pair
    <3> QED BY <1>2, <2>1, <3>1
  <2>3. CASE op.category \notin NeedsSrem
    <3>1. QueueOp(op) = <<Del(pair), Hdel(op.digest)>>
      BY <1>4, <2>3 DEF QueueOp
    <3> HIDE DEF pair
    <3> QED BY <1>2, <2>1, <3>1
  <2> QED BY <2>2, <2>3
<1> QED BY <1>3, <1>4

\* A removal command removes what it names and brings nothing back.
LEMMA ExecRemoves ==
    ASSUME NEW r \in RedisState, NEW c \in Command
    PROVE  /\ Exec(r, c) \in RedisState
           /\ Gone(Exec(r, c), c)
           /\ \A e \in Command : Gone(r, e) => Gone(Exec(r, c), e)
<1>1. CASE c.verb = "SREM"
  <2>1. Exec(r, c) = [r EXCEPT !.repo_blob_sets = @ \ {<<c.repo, c.digest>>}]
    BY <1>1 DEF Exec
  <2> QED BY <1>1, <2>1 DEF RedisState, Gone, Command
<1>2. CASE c.verb = "DEL"
  <2>1. Exec(r, c) = [r EXCEPT !.repo_blob_hashes = @ \ {<<c.repo, c.digest>>}]
    BY <1>2 DEF Exec
  <2> QED BY <1>2, <2>1 DEF RedisState, Gone, Command
<1>3. CASE c.verb = "HDEL"
  <2>1. Exec(r, c) = [r EXCEPT !.global_blobs[c.digest] = NoKey,
                              !.digest_fields = @ \ {c.digest}]
    BY <1>3 DEF Exec
  <2>2. c.digest \in Digests
    BY DEF Command
  <2>3. /\ Exec(r, c).global_blobs = [r.global_blobs EXCEPT ![c.digest] = NoKey]
        /\ Exec(r, c).repo_blob_sets = r.repo_blob_sets
        /\ Exec(r, c).repo_blob_hashes = r.repo_blob_hashes
    BY <2>1 DEF RedisState
  <2>4. Exec(r, c) \in RedisState
    BY <2>1, <2>2 DEF RedisState, GlobalBlob
  <2>5. Gone(Exec(r, c), c)
    BY <1>3, <2>2, <2>3 DEF RedisState, Gone
  <2>6. ASSUME NEW e \in Command, Gone(r, e) PROVE Gone(Exec(r, c), e)
    BY <2>2, <2>3, <2>6 DEF RedisState, Gone, Command
  <2> QED BY <2>4, <2>5, <2>6
<1> QED BY <1>1, <1>2, <1>3 DEF Command

\* A command of the registry keeps the shape of the cache and brings back
\* nothing but what it is recorded to undo: first the commands on a pair, then
\* those on a global hash.
LEMMA PairWriteUndoes ==
    ASSUME NEW r \in RedisState, NEW p \in Pair
    PROVE  /\ Sadd(r, p) \in RedisState
           /\ Hset(r, p) \in RedisState
           /\ \A e \in Command : Gone(r, e) =>
                 /\ e # Srem(p) => Gone(Sadd(r, p), e)
                 /\ e # Del(p) => Gone(Hset(r, p), e)
<1>1. Sadd(r, p) \in RedisState /\ Hset(r, p) \in RedisState
  BY DEF RedisState, Sadd, Hset
<1>2. ASSUME NEW e \in Command, Gone(r, e)
      PROVE  /\ e # Srem(p) => Gone(Sadd(r, p), e)
             /\ e # Del(p) => Gone(Hset(r, p), e)
  <2>1. /\ e.verb = "SREM" /\ e # Srem(p) => <<e.repo, e.digest>> # p
        /\ e.verb = "DEL" /\ e # Del(p) => <<e.repo, e.digest>> # p
    BY DEF Command, Srem, Del
  <2>2. /\ Sadd(r, p).repo_blob_sets = r.repo_blob_sets \union {p}
        /\ Sadd(r, p).repo_blob_hashes = r.repo_blob_hashes
        /\ Sadd(r, p).global_blobs = r.global_blobs
        /\ Hset(r, p).repo_blob_sets = r.repo_blob_sets
        /\ Hset(r, p).repo_blob_hashes = r.repo_blob_hashes \union {p}
        /\ Hset(r, p).global_blobs = r.global_blobs
    BY DEF Sadd, Hset, RedisState
  <2>3. CASE e.verb = "SREM"
    BY <1>2, <2>1, <2>2, <2>3 DEF Gone
  <2>4. CASE e.verb = "DEL"
    BY <1>2, <2>1, <2>2, <2>4 DEF Gone
  <2>5. CASE e.verb = "HDEL"
    BY <1>2, <2>2, <2>5 DEF Gone
  <2> QED BY <2>3, <2>4, <2>5 DEF Command
<1> QED BY <1>1, <1>2

LEMMA GlobalWriteUndoes ==
    ASSUME NEW r \in RedisState, NEW d \in Digests
    PROVE  /\ \A s \in Sizes : Hmset(r, d, s) \in RedisState
           /\ Hsetnx(r, d) \in RedisState
           /\ \A e \in Command : Gone(r, e) /\ e # Hdel(d) =>
                 /\ \A s \in Sizes : Gone(Hmset(r, d, s), e)
                 /\ Gone(Hsetnx(r, d), e)
<1>1. /\ \A s \in Sizes : Hmset(r, d, s) \in RedisState
      /\ Hsetnx(r, d) \in RedisState
  BY DEF RedisState, Hmset, Hsetnx, GlobalBlob
<1>2. ASSUME NEW e \in Command, Gone(r, e), e # Hdel(d), NEW s \in Sizes
      PROVE  Gone(Hmset(r, d, s), e)
  <2>1. CASE e.verb # "HDEL"
    BY <1>2, <2>1 DEF Gone, Command, Hmset, RedisState
  <2>2. CASE e.verb = "HDEL"
    <3>1. e \in [verb : {"HDEL"}, repo : {None}, digest : Digests]
      BY <2>2 DEF Command
    <3>2. e = [verb |-> "HDEL", repo |-> None, digest |-> e.digest]
      BY <3>1
    <3>3. e.digest # d /\ e.digest \in Digests
      BY <1>2, <3>1, <3>2 DEF Hdel
    <3>4. Hmset(r, d, s).global_blobs[e.digest] = r.global_blobs[e.digest]
      BY <3>3 DEF Hmset, RedisState
    <3> QED BY <1>2, <2>2, <3>4 DEF Gone
  <2> QED BY <2>1, <2>2
<1>3. ASSUME NEW e \in Command, Gone(r, e), e # Hdel(d)
      PROVE  Gone(Hsetnx(r, d), e)
  <2>1. CASE e.verb # "HDEL"
    BY <1>3, <2>1 DEF Gone, Command, Hsetnx, RedisState
  <2>2. CASE e.verb = "HDEL"
    <3>1. e \in [verb : {"HDEL"}, repo : {None}, digest : Digests]
      BY <2>2 DEF Command
    <3>2. e = [verb |-> "HDEL", repo |-> None, digest |-> e.digest]
      BY <3>1
    <3>3. e.digest # d /\ e.digest \in Digests
      BY <1>3, <3>1, <3>2 DEF Hdel
    <3>4. Hsetnx(r, d).global_blobs[e.digest] = r.global_blobs[e.digest]
      BY <3>3 DEF Hsetnx, RedisState
    <3> QED BY <1>3, <2>2, <3>4 DEF Gone
  <2> QED BY <2>1, <2>2
<1>4. ASSUME NEW e \in Command, Gone(r, e), e # Hdel(d)
      PROVE  \A s \in Sizes : Gone(Hmset(r, d, s), e)
  BY <1>2, <1>4
<1> HIDE DEF Gone, Command
<1> QED BY <1>1, <1>3, <1>4

-----------------------------------------------------------------------------
(***************************************************************************)
(* The inductive invariant.                                                *)
(***************************************************************************)

\* Every op of the plan stands for one to three commands.
LEMMA OpsCommands ==
    ASSUME TypeOK, PlanInv
    PROVE  \A i \in 1 .. Len(ops) :
              /\ QueueOp(ops[i]) \in Seq(Command)
              /\ 1 <= Len(QueueOp(ops[i])) /\ Len(QueueOp(ops[i])) <= 3
<1> SUFFICES ASSUME NEW i \in 1 .. Len(ops)
             PROVE  /\ QueueOp(ops[i]) \in Seq(Command)
                    /\ 1 <= Len(QueueOp(ops[i])) /\ Len(QueueOp(ops[i])) <= 3
  OBVIOUS
<1>1. ops[i] \in PlannedOps(Issues)
  BY DEF PlanInv
<1>2. Issues \in SUBSET Issue
  BY ClassifyType DEF TypeOK, Issues
<1>3. ops[i] \in CleanOp /\ (ops[i].category # "C1" => ops[i].repo \in Repos)
  BY <1>1, <1>2, PlannedOpsType
<1> QED BY <1>3, QueueOpType

\* What every step leaves of the world, whoever takes it: the types hold, and
\* what was effective stays effective.
WorldKeeps ==
    /\ redis' \in RedisState
    /\ rewritten' \subseteq Command
    /\ writes' \in 0 .. MaxWrites
    /\ \A e \in Command : Effective(e) => Effective(e)'

LEMMA RegistryKeeps ==
    ASSUME TypeOK, Registry
    PROVE  WorldKeeps /\ UNCHANGED <<local, wire>>
<1> USE DEF TypeOK
<1>1. ASSUME NEW p \in Pair, RegistrySadd(p) \/ RegistryHset(p)
      PROVE  /\ redis' \in RedisState
             /\ rewritten' \subseteq Command
             /\ writes' \in 0 .. MaxWrites
             /\ \A e \in Command : Effective(e) => Effective(e)'
             /\ UNCHANGED <<local, wire>>
  <2>1. Srem(p) \in Command /\ Del(p) \in Command
    BY DEF Srem, Del, Command, Pair
  <2>2. /\ Sadd(redis, p) \in RedisState /\ Hset(redis, p) \in RedisState
        /\ \A e \in Command : Gone(redis, e) =>
              /\ e # Srem(p) => Gone(Sadd(redis, p), e)
              /\ e # Del(p) => Gone(Hset(redis, p), e)
    BY PairWriteUndoes
  <2>3. CASE RegistrySadd(p)
    BY <2>1, <2>2, <2>3, CleanAssumption
       DEF RegistrySadd, RegistryWrite, Effective
  <2>4. CASE RegistryHset(p)
    BY <2>1, <2>2, <2>4, CleanAssumption
       DEF RegistryHset, RegistryWrite, Effective
  <2> QED BY <1>1, <2>3, <2>4
<1>2. ASSUME NEW d \in Digests,
             (\E s \in Sizes : RegistryHmset(d, s)) \/ RegistryHsetnx(d)
      PROVE  /\ redis' \in RedisState
             /\ rewritten' \subseteq Command
             /\ writes' \in 0 .. MaxWrites
             /\ \A e \in Command : Effective(e) => Effective(e)'
             /\ UNCHANGED <<local, wire>>
  <2>1. Hdel(d) \in Command
    BY DEF Hdel, Command
  <2>2. CASE \E s \in Sizes : RegistryHmset(d, s)
    <3>1. PICK s \in Sizes : RegistryHmset(d, s)
      BY <2>2
    <3>2. /\ Hmset(redis, d, s) \in RedisState
          /\ \A e \in Command :
                Gone(redis, e) /\ e # Hdel(d) => Gone(Hmset(redis, d, s), e)
      BY GlobalWriteUndoes
    <3> QED BY <2>1, <3>1, <3>2, CleanAssumption
            DEF RegistryHmset, RegistryWrite, Effective
  <2>3. CASE RegistryHsetnx(d)
    <3>1. /\ Hsetnx(redis, d) \in RedisState
          /\ \A e \in Command :
                Gone(redis, e) /\ e # Hdel(d) => Gone(Hsetnx(redis, d), e)
      BY GlobalWriteUndoes
    <3> QED BY <2>1, <2>3, <3>1, CleanAssumption
            DEF RegistryHsetnx, RegistryWrite, Effective
  <2> QED BY <1>2, <2>2, <2>3
<1>3. ASSUME NEW c \in Command, RegistryClear(c)
      PROVE  /\ redis' \in RedisState
             /\ rewritten' \subseteq Command
             /\ writes' \in 0 .. MaxWrites
             /\ \A e \in Command : Effective(e) => Effective(e)'
             /\ UNCHANGED <<local, wire>>
  <2>1. /\ Exec(redis, c) \in RedisState
        /\ \A e \in Command : Gone(redis, e) => Gone(Exec(redis, c), e)
    BY ExecRemoves
  <2> QED BY <1>3, <2>1, CleanAssumption
          DEF RegistryClear, RegistryWrite, Effective
<1> QED BY <1>1, <1>2, <1>3 DEF Registry, WorldKeeps


\* Redis executes a command of the plan: the types hold, and what was
\* effective, and the command itself, is effective afterwards.
LEMMA ServeKeeps ==
    ASSUME TypeOK, PlanInv, WireInv, NEW n \in 1 .. Len(wire), Serve(n)
    PROVE  /\ wire[n].op \in 1 .. Len(ops)
           /\ wire[n].op <= wire[n].last
           /\ wire[n].cmd \in 1 .. Len(QueueOp(ops[wire[n].op]))
           /\ QueueOp(ops[wire[n].op])[wire[n].cmd] \in Command
           /\ redis' \in RedisState
           /\ \A e \in Command :
                 Effective(e) \/ e = QueueOp(ops[wire[n].op])[wire[n].cmd]
                   => Effective(e)'
<1> DEFINE c == QueueOp(ops[wire[n].op])[wire[n].cmd]
<1>1. wire[n] \in PipelineType
  <2>1. wire \in Seq(PipelineType)
    BY DEF TypeOK
  <2> QED BY <2>1, ElementOfSeq
<1>2. ops \in Seq(CleanOp) /\ Len(ops) \in Nat
  BY DEF TypeOK
<1>3. wire[n].op <= wire[n].last /\ wire[n].last <= Len(ops)
  BY <1>1, <1>2 DEF Serve, WireInv, WellPlaced, Drained, PipelineType
<1>4. wire[n].op \in 1 .. Len(ops)
  BY <1>1, <1>2, <1>3 DEF PipelineType
<1>5. wire[n].cmd \in 1 .. Len(QueueOp(ops[wire[n].op]))
  BY <1>1, <1>4, OpsCommands DEF Serve, WireInv, WellPlaced, PipelineType
<1>6. c \in Command
  BY <1>4, <1>5, OpsCommands
<1>7. redis' = Exec(redis, c) /\ rewritten' = rewritten
  BY DEF Serve
<1>8. /\ Exec(redis, c) \in RedisState
      /\ Gone(Exec(redis, c), c)
      /\ \A e \in Command : Gone(redis, e) => Gone(Exec(redis, c), e)
  <2> HIDE DEF c
  <2> QED BY <1>6, ExecRemoves DEF TypeOK
<1>9. \A e \in Command : Effective(e) \/ e = c => Effective(e)'
  <2> HIDE DEF c
  <2> QED BY <1>7, <1>8 DEF Effective
<1> QED BY <1>3, <1>4, <1>5, <1>6, <1>7, <1>8, <1>9

LEMMA InitIInv == Init => IInv
<1> SUFFICES ASSUME Init PROVE IInv
  OBVIOUS
<1>1. TypeOK
  BY CleanAssumption DEF Init, CacheState, TypeOK, MaxAttempts
<1>2. PlanInv /\ WireInv /\ CurrentInv /\ AppliedIsGone
  BY DEF Init, PlanInv, WireInv, CurrentInv, AppliedIsGone
<1>3. LoopInv
  BY DEF Init, LoopInv
<1> QED BY <1>1, <1>2, <1>3 DEF IInv

LEMMA PlanStep == IInv /\ Plan => IInv'
<1> SUFFICES ASSUME IInv, Plan PROVE IInv'
  OBVIOUS
<1> USE DEF IInv
<1>1. ops' \in Seq(PlannedOps(Issues)) /\ PlannedOps(Issues) \subseteq CleanOp
  <2>1. Issues \in SUBSET Issue
    BY ClassifyType DEF TypeOK, Issues
  <2>2. ops' \in Plans(Issues)
    BY DEF Plan, Issues
  <2> QED BY <2>1, <2>2, PlansType, PlannedOpsType
<1>2. ops' \in Seq(CleanOp) /\ Len(ops') \in Nat
  BY <1>1, SeqMonotonic
<1>3. /\ pc = "plan" /\ start = 1 /\ wire = <<>> /\ ops = <<>>
      /\ applied = 0 /\ failures = <<>>
  BY DEF Plan, PlanInv, LoopInv
<1>4. attempts' = attempts /\ start' = 1 /\ wire' = <<>> /\ dry_run' = dry_run
      /\ applied' = 0 /\ failures' = <<>>
  BY <1>3 DEF Plan, call, report
<1>5. TypeOK'
  <2>1. pc' \in {"send", "done"}
    BY DEF Plan
  <2> QED BY <1>2, <2>1 DEF Plan, TypeOK, call, report, MaxAttempts
<1>6. PlanInv'
  <2>1. PlannedOps(Issues)' = PlannedOps(Issues)
    BY DEF Plan, call, Issues, PlannedOps, Eligible
  <2>2. \A i \in 1 .. Len(ops') : ops'[i] \in PlannedOps(Issues)
    BY <1>1
  <2> QED BY <1>3, <1>4, <2>1, <2>2 DEF Plan, NothingToExecute, PlanInv
<1>7. WireInv' /\ CurrentInv'
  BY <1>4 DEF Plan, WireInv, CurrentInv
<1>8. LoopInv'
  <2>1. attempts = 0
    BY <1>3 DEF LoopInv
  <2>2. dry_run' \in BOOLEAN
    BY <1>5 DEF TypeOK
  <2>3. ops' # <<>> => Len(ops') >= 1
    BY <1>2
  <2> QED BY <1>2, <1>4, <2>1, <2>2, <2>3, CleanAssumption
          DEF Plan, NothingToExecute, LoopInv, MaxAttempts
<1>9. AppliedIsGone'
  BY <1>2, <1>4 DEF AppliedIsGone
<1> QED BY <1>5, <1>6, <1>7, <1>8, <1>9

LEMMA SendStep == IInv /\ Send => IInv'
<1> SUFFICES ASSUME IInv, Send PROVE IInv'
  OBVIOUS
<1> USE DEF IInv
<1> DEFINE new == Pipeline(start, ChunkEnd)
<1>1. /\ ops \in Seq(CleanOp) /\ Len(ops) \in Nat /\ start \in Nat \ {0}
      /\ Batch \in Nat \ {0} /\ Retry \in Nat
      /\ attempts \in 0 .. MaxAttempts
      /\ wire \in Seq(PipelineType)
  BY CleanAssumption DEF TypeOK
<1>2. start <= Len(ops) /\ ChunkEnd \in start .. Len(ops)
  BY <1>1 DEF Send, LoopInv, ChunkEnd
<1>3. /\ new = [op |-> start, cmd |-> 1, last |-> ChunkEnd]
      /\ new \in PipelineType
  BY <1>1, <1>2 DEF Pipeline, PipelineType
<1>4. /\ wire' = Append(wire, new)
      /\ UNCHANGED <<redis, snapshot, fs, dry_run, clear_internal_garbage, ops,
                     start, applied, retried, failures, writes, rewritten>>
      /\ pc' = "wait" /\ attempts' = attempts + 1
  BY DEF Send, call, report
<1>5. /\ wire' \in Seq(PipelineType)
      /\ Len(wire') = Len(wire) + 1
      /\ wire'[Len(wire')] = new
      /\ \A n \in 1 .. Len(wire) : wire'[n] = wire[n]
      /\ wire' # <<>>
  <2>1. \A T : wire \in Seq(T) /\ new \in T =>
          /\ Append(wire, new) \in Seq(T)
          /\ Append(wire, new) # <<>>
          /\ Len(Append(wire, new)) = Len(wire) + 1
          /\ \A n \in 1 .. Len(wire) : Append(wire, new)[n] = wire[n]
          /\ Append(wire, new)[Len(wire) + 1] = new
    <3> HIDE DEF new
    <3> QED BY AppendProperties
  <2> HIDE DEF new
  <2> QED BY <1>1, <1>3, <1>4, <2>1
<1>6. TypeOK'
  <2>1. attempts' \in 0 .. MaxAttempts'
    BY <1>1, <1>4 DEF Send, MaxAttempts
  <2> HIDE DEF new
  <2> QED BY <1>4, <1>5, <2>1 DEF TypeOK
<1>7. PlanInv'
  <2>1. PlannedOps(Issues)' = PlannedOps(Issues)
    BY <1>4 DEF Issues, PlannedOps, Eligible
  <2> QED BY <1>4, <2>1 DEF Send, PlanInv
<1>8. WireInv'
  <2> SUFFICES ASSUME NEW n \in 1 .. Len(wire') PROVE WellPlaced(wire'[n])
    BY <1>4 DEF WireInv, WellPlaced
  <2>1. CASE n \in 1 .. Len(wire)
    BY <1>5, <2>1 DEF WireInv
  <2>2. CASE n = Len(wire')
    <3>1. 1 <= Len(QueueOp(ops[start]))
      BY <1>1, <1>2, OpsCommands
    <3>2. wire'[n] = [op |-> start, cmd |-> 1, last |-> ChunkEnd]
      BY <1>3, <1>5, <2>2
    <3>3. ChunkEnd <= Len(ops)
      BY <1>1, <1>2
    <3> QED BY <3>1, <3>2, <3>3 DEF WellPlaced
  <2>3. Len(wire) \in Nat
    BY <1>1
  <2> QED BY <1>5, <2>1, <2>2, <2>3
<1>9. CurrentInv'
  <2>1. ChunkEnd' = ChunkEnd
    BY <1>4 DEF ChunkEnd
  <2>2. /\ wire'[Len(wire')].op = start /\ wire'[Len(wire')].cmd = 1
        /\ wire'[Len(wire')].last = ChunkEnd
    BY <1>3, <1>5
  <2>3. Executed(wire[Len(wire)])'
    BY <1>1, <1>2, <1>4, <2>1, <2>2 DEF Executed
  <2> QED BY <1>1, <1>4, <1>5, <2>1, <2>2, <2>3 DEF CurrentInv
<1>10. LoopInv'
  BY <1>1, <1>2, <1>4 DEF LoopInv, MaxAttempts
<1>11. AppliedIsGone'
  BY <1>4 DEF AppliedIsGone
<1> QED BY <1>6, <1>7, <1>8, <1>9, <1>10, <1>11


\* What was effective stays so: then an applied op stays applied and a pipeline
\* has still executed what it had.
LEMMA EffectsStay ==
    ASSUME TypeOK, PlanInv, UNCHANGED <<ops, start, failures>>,
           \A e \in Command : Effective(e) => Effective(e)'
    PROVE  /\ AppliedIsGone => AppliedIsGone'
           /\ \A x \in PipelineType :
                 /\ x.op >= start /\ x.last = ChunkEnd
                 /\ WellPlaced(x) /\ Executed(x)
                 => Executed(x)'
<1>1. \A i \in 1 .. Len(ops) : \A k \in 1 .. Len(QueueOp(ops[i])) :
         Effective(QueueOp(ops[i])[k]) =>
            (Gone(redis', QueueOp(ops[i])[k]) \/ QueueOp(ops[i])[k] \in rewritten')
  <2>1. \A e \in Command : Effective(e) => Gone(redis', e) \/ e \in rewritten'
    BY DEF Effective
  <2>2. \A i \in 1 .. Len(ops) : \A k \in 1 .. Len(QueueOp(ops[i])) :
           QueueOp(ops[i])[k] \in Command
    BY OpsCommands
  <2> QED BY <2>1, <2>2
<1>2. AppliedIsGone => AppliedIsGone'
  BY <1>1 DEF AppliedIsGone, Effective
<1>3. /\ start \in Nat \ {0} /\ ChunkEnd \in Nat /\ ChunkEnd <= Len(ops)
      /\ Len(ops) \in Nat /\ ChunkEnd' = ChunkEnd
  BY CleanAssumption DEF ChunkEnd, TypeOK
<1>4. ASSUME NEW x \in PipelineType, x.op >= start, x.last = ChunkEnd,
             WellPlaced(x), Executed(x)
      PROVE  Executed(x)'
  <2>1. \A i \in start .. ChunkEnd : i < x.op =>
           \A k \in 1 .. Len(QueueOp(ops[i])) :
              Gone(redis', QueueOp(ops[i])[k]) \/ QueueOp(ops[i])[k] \in rewritten'
    BY <1>1, <1>3, <1>4 DEF Executed
  <2>2. ASSUME ~Drained(x), NEW k \in 1 .. x.cmd - 1
        PROVE  \/ Gone(redis', QueueOp(ops[x.op])[k])
               \/ QueueOp(ops[x.op])[k] \in rewritten'
    <3>1. x.op \in 1 .. Len(ops)
      BY <1>3, <1>4, <2>2 DEF Drained, PipelineType
    <3>2. x.cmd <= Len(QueueOp(ops[x.op])) /\ x.cmd \in Nat
          /\ Len(QueueOp(ops[x.op])) \in Nat
      BY <1>4, <2>2, <3>1, OpsCommands DEF WellPlaced, PipelineType
    <3>3. k \in 1 .. Len(QueueOp(ops[x.op]))
      BY <2>2, <3>2
    <3>4. Effective(QueueOp(ops[x.op])[k])
      BY <1>4, <2>2 DEF Executed
    <3> QED BY <1>1, <3>1, <3>3, <3>4
  <2> QED BY <1>3, <2>1, <2>2 DEF Executed, Effective
<1> QED BY <1>2, <1>4

LEMMA ServeStep ==
    ASSUME IInv, NEW n \in 1 .. Len(wire), Serve(n)
    PROVE  IInv'
<1> USE DEF IInv
<1> DEFINE p == wire[n]
           commands == QueueOp(ops[p.op])
           q == IF p.cmd < Len(commands) THEN [p EXCEPT !.cmd = @ + 1]
                ELSE [p EXCEPT !.op = @ + 1, !.cmd = 1]
<1>1. /\ wire \in Seq(PipelineType) /\ Len(wire) \in Nat
      /\ ops \in Seq(CleanOp) /\ Len(ops) \in Nat
      /\ start \in Nat \ {0}
  BY DEF TypeOK
<1>2. p \in PipelineType
  BY <1>1, ElementOfSeq
<1>3. /\ p.op \in 1 .. Len(ops) /\ p.op <= p.last
      /\ p.cmd \in 1 .. Len(commands)
      /\ commands[p.cmd] \in Command
      /\ redis' \in RedisState
      /\ \A e \in Command : Effective(e) \/ e = commands[p.cmd] => Effective(e)'
  BY ServeKeeps
<1>4. /\ commands \in Seq(Command) /\ Len(commands) \in Nat
      /\ 1 <= Len(commands) /\ Len(commands) <= 3
  BY <1>3, OpsCommands
<1>5. /\ q \in PipelineType
      /\ q.last = p.last
      /\ p.cmd < Len(commands) => q.op = p.op /\ q.cmd = p.cmd + 1
      /\ p.cmd >= Len(commands) => q.op = p.op + 1 /\ q.cmd = 1
  <2> HIDE DEF commands, p
  <2>1. CASE p.cmd < Len(commands)
    <3>1. q = [p EXCEPT !.cmd = @ + 1]
      BY <2>1
    <3> HIDE DEF q
    <3> QED BY <1>2, <1>4, <2>1, <3>1 DEF PipelineType
  <2>2. CASE ~(p.cmd < Len(commands))
    <3>1. q = [p EXCEPT !.op = @ + 1, !.cmd = 1]
      BY <2>2
    <3>2. q = [op |-> p.op + 1, cmd |-> 1, last |-> p.last]
      BY <1>2, <3>1 DEF PipelineType
    <3>3. p.op + 1 \in Nat \ {0} /\ p.last \in Nat
      BY <1>2 DEF PipelineType
    <3> HIDE DEF q
    <3> QED BY <1>4, <2>2, <3>2, <3>3 DEF PipelineType
  <2> QED BY <2>1, <2>2
<1>6. /\ wire' = [wire EXCEPT ![n] = q]
      /\ UNCHANGED <<snapshot, fs, dry_run, clear_internal_garbage, pc, ops,
                     start, attempts, applied, retried, failures, writes,
                     rewritten>>
  BY DEF Serve, local, call, report
<1> HIDE DEF q
<1>7. /\ wire' \in Seq(PipelineType)
      /\ Len(wire') = Len(wire)
      /\ \A m \in 1 .. Len(wire) : wire'[m] = IF m = n THEN q ELSE wire[m]
  BY <1>1, <1>5, <1>6, ExceptSeq
<1>8. TypeOK'
  BY <1>3, <1>6, <1>7 DEF TypeOK
<1>9. PlanInv'
  <2>1. PlannedOps(Issues)' = PlannedOps(Issues)
    BY <1>6 DEF Issues, PlannedOps, Eligible
  <2>2. wire # <<>>
    BY <1>1
  <2> QED BY <1>6, <2>1, <2>2 DEF PlanInv
<1>10. p.last <= Len(ops) /\ p.last \in Nat
  BY <1>2 DEF WireInv, WellPlaced, PipelineType
<1>11. WellPlaced(q)
  <2>1. CASE p.cmd < Len(commands)
    <3>1. q.op = p.op /\ q.cmd = p.cmd + 1 /\ QueueOp(ops[q.op]) = commands
      BY <1>5, <2>1
    <3> HIDE DEF p, commands
    <3> QED BY <1>2, <1>4, <1>5, <1>10, <2>1, <3>1 DEF WellPlaced, PipelineType
  <2>2. CASE p.cmd >= Len(commands)
    <3>1. q.op <= q.last => 1 <= Len(QueueOp(ops[q.op]))
      <4>1. q.op = p.op + 1 /\ q.last = p.last /\ p.op \in 1 .. Len(ops)
        BY <1>3, <1>5, <2>2
      <4> HIDE DEF p
      <4>2. q.op <= q.last => q.op \in 1 .. Len(ops)
        BY <1>1, <1>10, <4>1
      <4> QED BY <4>2, OpsCommands
    <3> HIDE DEF p, commands
    <3> QED BY <1>2, <1>5, <1>10, <2>2, <3>1
            DEF WellPlaced, Drained, PipelineType
  <2> QED BY <1>3, <1>4, <2>1, <2>2
<1>12. WireInv'
  <2> SUFFICES ASSUME NEW m \in 1 .. Len(wire)
               PROVE  WellPlaced(wire'[m])
    BY <1>6, <1>7 DEF WireInv, WellPlaced
  <2> QED BY <1>7, <1>11 DEF WireInv
<1>13. \A e \in Command : Effective(e) => Effective(e)'
  BY <1>3
<1>14. AppliedIsGone'
  BY <1>6, <1>13, EffectsStay
<1>15. LoopInv'
  BY <1>6 DEF LoopInv, MaxAttempts
<1>16. CurrentInv'
  <2> SUFFICES ASSUME pc = "wait" PROVE CurrentInv'
    BY <1>6 DEF CurrentInv
  <2>1. /\ ChunkEnd' = ChunkEnd /\ wire' # <<>> /\ Len(wire) \in 1 .. Len(wire)
        /\ start' = start /\ ChunkEnd <= Len(ops) /\ ChunkEnd \in Nat
    BY <1>1, <1>6, <1>7, CleanAssumption DEF ChunkEnd
  <2>2. PICK x : x = wire'[Len(wire')]
    OBVIOUS
  <2>3. x.op >= start /\ x.last = ChunkEnd /\ Executed(x)'
    <3>1. CASE n # Len(wire)
      <4>1. x = wire[Len(wire)] /\ x \in PipelineType
        BY <1>1, <1>7, <2>1, <2>2, <3>1, ElementOfSeq
      <4>2. x.op >= start /\ x.last = ChunkEnd /\ WellPlaced(x) /\ Executed(x)
        BY <2>1, <4>1 DEF CurrentInv, WireInv
      <4> QED BY <1>6, <1>13, <4>1, <4>2, EffectsStay
    <3>2. CASE n = Len(wire)
      <4>1. x = q
        BY <1>7, <2>1, <2>2, <3>2
      <4>2. p.op >= start /\ p.last = ChunkEnd /\ WellPlaced(p) /\ Executed(p)
        BY <3>2 DEF CurrentInv, WireInv
      <4>3. \A i \in start .. ChunkEnd : i < p.op =>
               \A k \in 1 .. Len(QueueOp(ops[i])) :
                  Gone(redis', QueueOp(ops[i])[k]) \/ QueueOp(ops[i])[k] \in rewritten'
        <5>1. \A i \in start .. ChunkEnd : i \in 1 .. Len(ops)
          BY <1>1, <2>1
        <5>2. \A i \in 1 .. Len(ops) : \A k \in 1 .. Len(QueueOp(ops[i])) :
                 QueueOp(ops[i])[k] \in Command
          BY OpsCommands
        <5> QED BY <1>13, <4>2, <5>1, <5>2 DEF Executed, Effective
      <4>4. \A k \in 1 .. p.cmd : Gone(redis', commands[k]) \/ commands[k] \in rewritten'
        <5>1. ASSUME NEW k \in 1 .. p.cmd, k < p.cmd
              PROVE  Gone(redis', commands[k]) \/ commands[k] \in rewritten'
          <6>1. k \in 1 .. p.cmd - 1 /\ k \in 1 .. Len(commands)
            BY <1>3, <1>4, <5>1
          <6>2. ~Drained(p)
            BY <1>1, <1>3, <1>10 DEF Drained
          <6>3. Effective(commands[k])
            BY <4>2, <6>1, <6>2 DEF Executed
          <6>4. commands[k] \in Command
            BY <1>4, <6>1
          <6> QED BY <1>13, <6>3, <6>4 DEF Effective
        <5>2. Gone(redis', commands[p.cmd]) \/ commands[p.cmd] \in rewritten'
          BY <1>3 DEF Effective
        <5> QED BY <1>3, <5>1, <5>2
      <4>5. CASE p.cmd < Len(commands)
        <5>1. x.op = p.op /\ x.cmd = p.cmd + 1 /\ x.last = p.last
          BY <1>5, <4>1, <4>5
        <5>2. Executed(x)'
          BY <1>3, <1>6, <2>1, <4>3, <4>4, <5>1 DEF Executed, Effective
        <5> QED BY <4>2, <5>1, <5>2
      <4>6. CASE p.cmd >= Len(commands)
        <5>1. x.op = p.op + 1 /\ x.cmd = 1 /\ x.last = p.last
          BY <1>5, <4>1, <4>6
        <5>2. ASSUME NEW i \in start .. ChunkEnd, i < x.op,
                     NEW k \in 1 .. Len(QueueOp(ops[i]))
              PROVE  \/ Gone(redis', QueueOp(ops[i])[k])
                     \/ QueueOp(ops[i])[k] \in rewritten'
          <6>1. CASE i < p.op
            BY <4>3, <5>2, <6>1
          <6>2. CASE i = p.op
            <7>1. k \in 1 .. p.cmd
              BY <1>3, <1>4, <4>6, <5>2, <6>2
            <7> QED BY <4>4, <6>2, <7>1
          <6> QED BY <1>1, <1>3, <2>1, <5>1, <5>2, <6>1, <6>2
        <5>3. 1 .. x.cmd - 1 = {}
          BY <5>1
        <5>4. Executed(x)'
          BY <1>6, <2>1, <5>2, <5>3 DEF Executed, Effective
        <5> QED BY <1>1, <1>3, <4>2, <5>1, <5>4
      <4> QED BY <1>3, <1>4, <4>5, <4>6
    <3> QED BY <3>1, <3>2
  <2> QED BY <1>6, <2>1, <2>2, <2>3 DEF CurrentInv
<1> QED BY <1>8, <1>9, <1>12, <1>14, <1>15, <1>16

\* The loop leaves a chunk: what is typed, planned and placed stays so.
LEMMA LeaveChunk ==
    ASSUME IInv, pc = "wait", NextChunk,
           UNCHANGED <<redis, call, ops, wire, writes, rewritten>>
    PROVE  /\ PlanInv' /\ WireInv' /\ CurrentInv'
           /\ start' \in Nat \ {0} /\ attempts' \in 0 .. MaxAttempts'
           /\ pc' \in {"send", "done"}
           /\ start <= Len(ops) /\ ChunkEnd \in start .. Len(ops)
           /\ ChunkEnd < Len(ops) => ChunkEnd = start + Batch - 1 /\ pc' = "send"
           /\ ChunkEnd = Len(ops) => start' > Len(ops) /\ pc' = "done"
           /\ start' = start + Batch /\ ~dry_run
<1> USE DEF IInv
<1>1. /\ start \in Nat \ {0} /\ Len(ops) \in Nat /\ Batch \in Nat \ {0}
      /\ Retry \in Nat
  BY CleanAssumption DEF TypeOK
<1>2. /\ start' = start + Batch /\ attempts' = 0
      /\ pc' = IF start + Batch <= Len(ops) THEN "send" ELSE "done"
  BY DEF NextChunk
<1>3. start <= Len(ops) /\ ChunkEnd \in start .. Len(ops)
  BY <1>1 DEF LoopInv, ChunkEnd
<1>4. /\ ChunkEnd < Len(ops) => ChunkEnd = start + Batch - 1 /\ pc' = "send"
      /\ ChunkEnd = Len(ops) => start' > Len(ops) /\ pc' = "done"
  BY <1>1, <1>2 DEF ChunkEnd
<1>5. ~dry_run
  BY DEF PlanInv
<1>6. PlanInv'
  <2>1. PlannedOps(Issues)' = PlannedOps(Issues)
    BY DEF call, Issues, PlannedOps, Eligible
  <2> QED BY <1>2, <1>5, <2>1 DEF PlanInv, call
<1>7. WireInv'
  BY DEF WireInv, WellPlaced
<1>8. CurrentInv'
  BY <1>2 DEF CurrentInv
<1> QED BY <1>1, <1>2, <1>3, <1>4, <1>5, <1>6, <1>7, <1>8 DEF MaxAttempts

LEMMA ExecuteOkStep == IInv /\ ExecuteOk => IInv'
<1> SUFFICES ASSUME IInv, ExecuteOk PROVE IInv'
  OBVIOUS
<1> USE DEF IInv
<1>1. /\ pc = "wait" /\ NextChunk
      /\ UNCHANGED <<redis, call, ops, wire, writes, rewritten>>
      /\ UNCHANGED <<snapshot, fs, dry_run, clear_internal_garbage, retried, failures>>
      /\ applied' = applied + (ChunkEnd - start + 1)
  BY DEF ExecuteOk, ChunkLen, call
<1>2. /\ PlanInv' /\ WireInv' /\ CurrentInv'
      /\ start' \in Nat \ {0} /\ attempts' \in 0 .. MaxAttempts'
      /\ pc' \in {"send", "done"}
      /\ start <= Len(ops) /\ ChunkEnd \in start .. Len(ops)
      /\ ChunkEnd < Len(ops) => ChunkEnd = start + Batch - 1 /\ pc' = "send"
      /\ ChunkEnd = Len(ops) => start' > Len(ops) /\ pc' = "done"
      /\ start' = start + Batch /\ ~dry_run
  BY <1>1, LeaveChunk
<1>3. /\ start \in Nat \ {0} /\ Len(ops) \in Nat /\ applied \in Nat
      /\ Batch \in Nat \ {0} /\ Retry \in Nat /\ Len(failures) \in Nat
  BY CleanAssumption DEF TypeOK
<1>4. TypeOK'
  <2>1. applied' \in Nat
    BY <1>1, <1>2, <1>3
  <2> QED BY <1>1, <1>2, <2>1 DEF TypeOK
<1>5. LoopInv'
  <2>1. applied + Len(failures) = start - 1
    BY <1>2 DEF LoopInv
  <2>2. attempts' = 0
    BY <1>1 DEF NextChunk
  <2>3. applied' + Len(failures) = ChunkEnd
    BY <1>1, <1>2, <1>3, <2>1
  <2> QED BY <1>1, <1>2, <1>3, <2>2, <2>3 DEF LoopInv, MaxAttempts
<1>6. AppliedIsGone'
  <2> SUFFICES ASSUME NEW i \in 1 .. Len(ops), i < start',
                      ops[i] \notin Range(failures)
               PROVE  \A k \in 1 .. Len(QueueOp(ops[i])) :
                         Effective(QueueOp(ops[i])[k])
    BY <1>1 DEF AppliedIsGone, Effective
  <2>1. CASE i < start
    BY <2>1 DEF AppliedIsGone, Effective
  <2>2. CASE i >= start
    <3>1. i \in start .. ChunkEnd
      BY <1>2, <1>3, <2>2
    <3>2. /\ wire[Len(wire)].op > wire[Len(wire)].last
          /\ wire[Len(wire)].last = ChunkEnd
          /\ Executed(wire[Len(wire)])
      BY <1>1 DEF ExecuteOk, CurrentInv, Drained
    <3>3. wire[Len(wire)].op \in Nat
      <4>1. wire \in Seq(PipelineType) /\ wire # <<>>
        BY <1>1 DEF TypeOK, CurrentInv
      <4>2. Len(wire) \in 1 .. Len(wire)
        BY <4>1
      <4>3. wire[Len(wire)] \in PipelineType
        BY <4>1, <4>2, ElementOfSeq
      <4> QED BY <4>3 DEF PipelineType
    <3>4. i < wire[Len(wire)].op
      BY <1>2, <1>3, <3>1, <3>2, <3>3
    <3> QED BY <3>1, <3>2, <3>4 DEF Executed
  <2> QED BY <1>3, <2>1, <2>2
<1> QED BY <1>2, <1>4, <1>5, <1>6

LEMMA ExecuteErrorGiveUpStep == IInv /\ ExecuteErrorGiveUp => IInv'
<1> SUFFICES ASSUME IInv, ExecuteErrorGiveUp PROVE IInv'
  OBVIOUS
<1> USE DEF IInv
<1> DEFINE chunk == SubSeq(ops, start, ChunkEnd)
<1>1. /\ pc = "wait" /\ NextChunk
      /\ UNCHANGED <<redis, call, ops, wire, writes, rewritten>>
      /\ UNCHANGED <<snapshot, fs, dry_run, clear_internal_garbage, retried, applied>>
      /\ failures' = failures \o chunk
  BY DEF ExecuteErrorGiveUp, call
<1>2. /\ PlanInv' /\ WireInv' /\ CurrentInv'
      /\ start' \in Nat \ {0} /\ attempts' \in 0 .. MaxAttempts'
      /\ pc' \in {"send", "done"}
      /\ start <= Len(ops) /\ ChunkEnd \in start .. Len(ops)
      /\ ChunkEnd < Len(ops) => ChunkEnd = start + Batch - 1 /\ pc' = "send"
      /\ ChunkEnd = Len(ops) => start' > Len(ops) /\ pc' = "done"
      /\ start' = start + Batch /\ ~dry_run
  BY <1>1, LeaveChunk
<1>3. /\ start \in Nat \ {0} /\ Len(ops) \in Nat /\ applied \in Nat
      /\ Batch \in Nat \ {0} /\ Retry \in Nat
      /\ ops \in Seq(CleanOp) /\ failures \in Seq(CleanOp)
      /\ Len(failures) \in Nat
  BY CleanAssumption DEF TypeOK
<1>4. /\ chunk \in Seq(CleanOp)
      /\ Len(chunk) = ChunkEnd - start + 1
      /\ \A j \in 1 .. Len(chunk) : chunk[j] = ops[start + j - 1]
  <2>1. start \in Int /\ ChunkEnd \in Int /\ start <= ChunkEnd
    BY <1>2, <1>3
  <2>2. \A j \in start .. ChunkEnd : ops[j] \in CleanOp
    BY <1>2, <1>3
  <2> QED BY <2>1, <2>2, SubSeqProperties
<1> HIDE DEF chunk
<1>5. /\ failures' \in Seq(CleanOp)
      /\ Len(failures') = Len(failures) + Len(chunk)
      /\ Range(failures') = Range(failures) \union Range(chunk)
  <2>1. Range(failures \o chunk) = Range(failures) \union Range(chunk)
    BY <1>3, <1>4, RangeConcatenation
  <2>2. /\ failures \o chunk \in Seq(CleanOp)
        /\ Len(failures \o chunk) = Len(failures) + Len(chunk)
    BY <1>3, <1>4, ConcatProperties
  <2> QED BY <1>1, <2>1, <2>2
<1>6. TypeOK'
  BY <1>1, <1>2, <1>5 DEF TypeOK
<1>7. LoopInv'
  <2>1. applied + Len(failures) = start - 1
    BY <1>2 DEF LoopInv
  <2>2. attempts' = 0
    BY <1>1 DEF NextChunk
  <2>3. applied' + Len(failures') = ChunkEnd
    <3>1. Len(failures') = Len(failures) + (ChunkEnd - start + 1)
      BY <1>4, <1>5
    <3>2. applied' = applied /\ ChunkEnd \in Nat
      BY <1>1, <1>2, <1>3
    <3> QED BY <1>3, <2>1, <3>1, <3>2
  <2>4. start' > 1 /\ dry_run' = dry_run /\ ops' = ops
    BY <1>1, <1>2, <1>3
  <2> QED BY <1>2, <1>3, <2>2, <2>3, <2>4 DEF LoopInv, MaxAttempts
<1>8. AppliedIsGone'
  <2> SUFFICES ASSUME NEW i \in 1 .. Len(ops), i < start',
                      ops[i] \notin Range(failures')
               PROVE  \A k \in 1 .. Len(QueueOp(ops[i])) :
                         Effective(QueueOp(ops[i])[k])
    BY <1>1 DEF AppliedIsGone, Effective
  <2>1. CASE i < start
    BY <1>5, <2>1 DEF AppliedIsGone, Effective
  <2>2. CASE i >= start
    <3>1. i \in start .. ChunkEnd
      BY <1>2, <1>3, <2>2
    <3>2. i - start + 1 \in 1 .. Len(chunk) /\ chunk[i - start + 1] = ops[i]
      BY <1>2, <1>3, <1>4, <3>1
    <3>3. ops[i] \in Range(chunk)
      BY <1>4, <3>2, RangeEquality
    <3> QED BY <1>5, <3>3
  <2> QED BY <1>3, <2>1, <2>2
<1> QED BY <1>2, <1>6, <1>7, <1>8


LEMMA ExecuteErrorRetryStep == IInv /\ ExecuteErrorRetry => IInv'
<1> SUFFICES ASSUME IInv, ExecuteErrorRetry PROVE IInv'
  OBVIOUS
<1> USE DEF IInv
<1>1. /\ UNCHANGED <<redis, snapshot, fs, dry_run, clear_internal_garbage, ops,
                     start, attempts, applied, failures, wire, writes, rewritten>>
      /\ pc = "wait" /\ pc' = "send" /\ retried' = retried + 1
      /\ attempts < MaxAttempts
  BY DEF ExecuteErrorRetry, MayRetry, call
<1>2. TypeOK'
  BY <1>1 DEF TypeOK, MaxAttempts
<1>3. PlanInv'
  <2>1. PlannedOps(Issues)' = PlannedOps(Issues)
    BY <1>1 DEF Issues, PlannedOps, Eligible
  <2> QED BY <1>1, <2>1 DEF PlanInv
<1>4. WireInv' /\ CurrentInv' /\ AppliedIsGone'
  BY <1>1 DEF WireInv, WellPlaced, CurrentInv, AppliedIsGone
<1>5. LoopInv'
  BY <1>1 DEF LoopInv, MaxAttempts
<1> QED BY <1>2, <1>3, <1>4, <1>5

LEMMA AbortStep == IInv /\ Abort => IInv'
<1> SUFFICES ASSUME IInv, Abort PROVE IInv'
  OBVIOUS
<1> USE DEF IInv
<1>1. /\ UNCHANGED <<redis, snapshot, fs, dry_run, clear_internal_garbage, ops,
                     start, attempts, applied, retried, failures, wire, writes,
                     rewritten>>
      /\ pc \in {"send", "wait"} /\ pc' = "aborted"
  BY DEF Abort, call, report
<1>2. TypeOK'
  BY <1>1 DEF TypeOK, MaxAttempts
<1>3. PlanInv'
  <2>1. PlannedOps(Issues)' = PlannedOps(Issues)
    BY <1>1 DEF Issues, PlannedOps, Eligible
  <2> QED BY <1>1, <2>1 DEF PlanInv
<1>4. WireInv' /\ CurrentInv' /\ AppliedIsGone'
  BY <1>1 DEF WireInv, WellPlaced, CurrentInv, AppliedIsGone
<1>5. LoopInv'
  <2>1. start <= Len(ops) /\ start \in Nat /\ Len(ops) \in Nat
    BY <1>1 DEF LoopInv, TypeOK
  <2> QED BY <1>1, <2>1 DEF LoopInv, MaxAttempts
<1> QED BY <1>2, <1>3, <1>4, <1>5

\* A step beside the call: of the registry, or of another call.
LEMMA BesideStep == IInv /\ WorldKeeps /\ UNCHANGED <<local, wire>> => IInv'
<1> SUFFICES ASSUME IInv, WorldKeeps, UNCHANGED <<local, wire>> PROVE IInv'
  OBVIOUS
<1> USE DEF IInv
<1>1. /\ redis' \in RedisState /\ rewritten' \subseteq Command
      /\ writes' \in 0 .. MaxWrites
      /\ \A e \in Command : Effective(e) => Effective(e)'
      /\ UNCHANGED <<local, wire>>
  BY DEF WorldKeeps
<1>2. UNCHANGED <<snapshot, fs, dry_run, clear_internal_garbage, pc, ops, start,
                  attempts, applied, retried, failures, wire>>
  BY <1>1 DEF local, call, report
<1>3. TypeOK'
  BY <1>1, <1>2 DEF TypeOK, MaxAttempts
<1>4. PlanInv'
  <2>1. PlannedOps(Issues)' = PlannedOps(Issues)
    BY <1>2 DEF Issues, PlannedOps, Eligible
  <2> QED BY <1>2, <2>1 DEF PlanInv
<1>5. WireInv' /\ LoopInv'
  BY <1>2 DEF WireInv, WellPlaced, LoopInv, MaxAttempts
<1>6. AppliedIsGone'
  BY <1>1, <1>2, EffectsStay
<1>7. CurrentInv'
  <2> SUFFICES ASSUME pc = "wait" PROVE CurrentInv'
    BY <1>2 DEF CurrentInv
  <2>1. PICK x : x = wire[Len(wire)]
    OBVIOUS
  <2>2. Len(wire) \in 1 .. Len(wire) /\ x \in PipelineType
    <3>1. wire \in Seq(PipelineType) /\ wire # <<>>
      BY DEF TypeOK, CurrentInv
    <3>2. Len(wire) \in 1 .. Len(wire)
      BY <3>1
    <3> QED BY <2>1, <3>1, <3>2, ElementOfSeq
  <2>3. x.op >= start /\ x.last = ChunkEnd /\ WellPlaced(x) /\ Executed(x)
    BY <2>1, <2>2 DEF CurrentInv, WireInv
  <2>4. Executed(x)'
    BY <1>1, <1>2, <2>2, <2>3, EffectsStay
  <2>5. x = wire'[Len(wire')] /\ ChunkEnd' = ChunkEnd /\ wire # <<>>
    BY <1>2, <2>1 DEF ChunkEnd, CurrentInv
  <2> QED BY <1>2, <2>3, <2>4, <2>5 DEF CurrentInv
<1> QED BY <1>3, <1>4, <1>5, <1>6, <1>7

LEMMA RegistryStep == IInv /\ Registry => IInv'
BY RegistryKeeps, BesideStep DEF IInv

LEMMA IInvStep == IInv /\ [Next]_vars => IInv'
<1> SUFFICES ASSUME IInv, [Next]_vars PROVE IInv'
  OBVIOUS
<1>1. CASE Plan
  BY <1>1, PlanStep
<1>2. CASE Send
  BY <1>2, SendStep
<1>3. CASE \E n \in 1 .. Len(wire) : Serve(n)
  BY <1>3, ServeStep
<1>4. CASE ExecuteOk
  BY <1>4, ExecuteOkStep
<1>5. CASE ExecuteErrorRetry
  BY <1>5, ExecuteErrorRetryStep
<1>6. CASE ExecuteErrorGiveUp
  BY <1>6, ExecuteErrorGiveUpStep
<1>7. CASE Abort
  BY <1>7, AbortStep
<1>8. CASE Registry
  BY <1>8, RegistryStep
<1>9. CASE UNCHANGED vars
  <2>1. UNCHANGED <<redis, snapshot, fs, dry_run, clear_internal_garbage, pc,
                    ops, start, attempts, applied, retried, failures, wire,
                    writes, rewritten>>
    BY <1>9 DEF vars, local, call, report
  <2>2. TypeOK' /\ PlanInv' /\ WireInv' /\ LoopInv'
    BY <2>1 DEF IInv, TypeOK, PlanInv, WireInv, WellPlaced, LoopInv,
                MaxAttempts, Issues, PlannedOps, Eligible
  <2>3. CurrentInv' /\ AppliedIsGone'
    BY <2>1 DEF IInv, CurrentInv, Executed, Effective, ChunkEnd, AppliedIsGone
  <2> QED BY <2>2, <2>3 DEF IInv
<1> QED BY <1>1, <1>2, <1>3, <1>4, <1>5, <1>6, <1>7, <1>8, <1>9 DEF Next

\* To the world, every step of the call is one that keeps it.
LEMMA CallKeeps ==
    ASSUME IInv, [Next]_vars
    PROVE  WorldKeeps
<1>1. CASE \E n \in 1 .. Len(wire) : Serve(n)
  <2>1. PICK n \in 1 .. Len(wire) : Serve(n)
    BY <1>1
  <2>2. /\ redis' \in RedisState
        /\ \A e \in Command : Effective(e) => Effective(e)'
    BY <2>1, ServeKeeps DEF IInv
  <2>3. UNCHANGED <<writes, rewritten>>
    BY <2>1 DEF Serve
  <2> QED BY <2>2, <2>3 DEF IInv, TypeOK, WorldKeeps
<1>2. CASE UNCHANGED <<redis, writes, rewritten>>
  BY <1>2 DEF IInv, TypeOK, WorldKeeps, Effective
<1>3. CASE Registry
  BY <1>3, RegistryKeeps DEF IInv
<1>4. (\/ Plan \/ Send \/ ExecuteOk \/ ExecuteErrorRetry \/ ExecuteErrorGiveUp
       \/ Abort \/ UNCHANGED vars) => UNCHANGED <<redis, writes, rewritten>>
  BY DEF Plan, Send, ExecuteOk, ExecuteErrorRetry, ExecuteErrorGiveUp, Abort, vars
<1> QED BY <1>1, <1>2, <1>3, <1>4 DEF Next

LEMMA Inductive == Spec => []IInv
<1> QED BY InitIInv, IInvStep, PTL DEF Spec

-----------------------------------------------------------------------------
(***************************************************************************)
(* The theorems.                                                           *)
(***************************************************************************)

\* The variables of a call of clean_registry keep their types: the counters of
\* its report stay naturals, no chunk is tried more than Retry + 1 times and
\* no command is ever queued without a repository that needs one.
THEOREM TypeCorrect == Spec => []TypeOK
<1>1. IInv => TypeOK
  BY DEF IInv
<1> QED BY <1>1, Inductive, PTL

\* An op that execute_clean reports as applied is in effect, for every plan,
\* batch size, number of retries and order in which abandoned pipelines and
\* the registry reach Redis.
THEOREM AppliedIsEffective == Spec => []AppliedIsGone
<1>1. IInv => AppliedIsGone
  BY DEF IInv
<1> QED BY <1>1, Inductive, PTL

\* When execute_clean returns, its counters cover the plan.
THEOREM ReportIsComplete == Spec => []ReportAddsUp
<1>1. IInv => ReportAddsUp
  <2> SUFFICES ASSUME IInv, pc = "done"
               PROVE  applied + Len(failures) = IF dry_run THEN 0 ELSE Len(ops)
    BY DEF ReportAddsUp
  <2>1. start \in Nat /\ Len(ops) \in Nat
    BY DEF IInv, TypeOK
  <2>2. CASE dry_run
    <3>1. applied = 0 /\ failures = <<>>
      BY <2>2 DEF IInv, LoopInv
    <3> QED BY <2>2, <3>1
  <2>3. CASE ~dry_run
    BY <2>1, <2>3 DEF IInv, LoopInv
  <2> QED BY <2>2, <2>3
<1> QED BY <1>1, Inductive, PTL

-----------------------------------------------------------------------------
(***************************************************************************)
(* What a call may do to Redis.                                            *)
(***************************************************************************)

\* A planned op has an issue of its own, of an eligible category.
LEMMA OpHasIssue ==
    ASSUME TypeOK, NEW o \in PlannedOps(Issues)
    PROVE  \E i \in Issues :
              /\ o = ToCleanOp(i) /\ i \in Issue
              /\ i.category \in Eligible
              /\ o.category = i.category /\ o.digest = i.digest /\ o.repo = i.repo
              /\ o.digest \in Digests
              /\ o.category # "C1" => o.repo \in Repos
<1>1. Issues \in SUBSET Issue
  BY ClassifyType DEF TypeOK, Issues
<1>2. PICK i \in Issues : o = ToCleanOp(i) /\ i.category \in Eligible
  BY DEF PlannedOps
<1>3. o.category = i.category /\ o.digest = i.digest /\ o.repo = i.repo
  BY <1>2 DEF ToCleanOp
<1>4. o.category # "C1" => o.repo \in Repos
  BY <1>1, PlannedOpsType
<1>5. i \in Issue /\ o.digest \in Digests
  BY <1>1, <1>3 DEF Issue
<1> QED BY <1>2, <1>3, <1>4, <1>5

\* Only one step of the call changes Redis: a command of a planned op.
LEMMA RedisChanges ==
    ASSUME IInv, [Next]_vars, redis' # redis, writes' = writes
    PROVE  /\ ~dry_run
           /\ \E n \in 1 .. Len(wire) : Serve(n)
<1>1. (\/ Plan \/ Send \/ ExecuteOk \/ ExecuteErrorRetry \/ ExecuteErrorGiveUp
       \/ Abort \/ UNCHANGED vars) => redis' = redis
  BY DEF Plan, Send, ExecuteOk, ExecuteErrorRetry, ExecuteErrorGiveUp, Abort, vars
<1>2. Registry => writes' = writes + 1
  BY DEF Registry, RegistrySadd, RegistryHmset, RegistryHsetnx, RegistryHset,
         RegistryClear, RegistryWrite
<1>3. writes \in Nat
  BY CleanAssumption DEF IInv, TypeOK
<1>4. \E n \in 1 .. Len(wire) : Serve(n)
  BY <1>1, <1>2, <1>3 DEF Next
<1>5. wire # <<>>
  <2>1. wire = <<>> => 1 .. Len(wire) = {}
    OBVIOUS
  <2> QED BY <1>4, <2>1
<1> QED BY <1>4, <1>5 DEF IInv, PlanInv

\* What a command of an op is, by the category of the op.
LEMMA CommandOf ==
    ASSUME NEW o \in CleanOp, o.category # "C1" => o.repo \in Repos,
           NEW k \in 1 .. Len(QueueOp(o))
    PROVE  LET c == QueueOp(o)[k]
               p == <<o.repo, o.digest>>
           IN  \/ /\ c = Srem(p) /\ o.category \in NeedsSrem /\ p \in Pair
               \/ /\ c = Del(p) /\ o.category # "C1" /\ p \in Pair
                  /\ o.category \in NeedsSrem =>
                        k = 2 /\ QueueOp(o)[1] = Srem(p)
               \/ c = Hdel(o.digest)
<1> DEFINE p == <<o.repo, o.digest>>
<1>1. o.digest \in Digests
  BY DEF CleanOp
<1>2. CASE o.category = "C1"
  <2>1. QueueOp(o) = <<Hdel(o.digest)>>
    BY <1>2 DEF QueueOp
  <2> QED BY <2>1
<1>3. CASE o.category # "C1"
  <2>1. p \in Pair
    BY <1>1, <1>3 DEF Pair
  <2>2. CASE o.category \in NeedsSrem
    <3>1. QueueOp(o) = <<Srem(p), Del(p), Hdel(o.digest)>>
      BY <1>3, <2>2 DEF QueueOp
    <3>2. k \in 1 .. 3
      BY <3>1
    <3>3. QueueOp(o)[1] = Srem(p)
      BY <3>1
    <3> QED BY <1>3, <2>1, <2>2, <3>1, <3>2, <3>3
  <2>3. CASE o.category \notin NeedsSrem
    <3>1. QueueOp(o) = <<Del(p), Hdel(o.digest)>>
      BY <1>3, <2>3 DEF QueueOp
    <3>2. k \in 1 .. 2
      BY <3>1
    <3> QED BY <1>3, <2>1, <2>3, <3>1, <3>2
  <2> QED BY <2>2, <2>3
<1> QED BY <1>2, <1>3

\* Serve, in those terms.
LEMMA ServeMeans ==
    ASSUME IInv, NEW n \in 1 .. Len(wire), Serve(n)
    PROVE  \E o \in PlannedOps(Issues), c \in Command :
              /\ o = ops[wire[n].op] /\ c = QueueOp(o)[wire[n].cmd]
              /\ wire[n].cmd \in 1 .. Len(QueueOp(o))
              /\ wire[n].op \in 1 .. Len(ops) /\ ~Drained(wire[n])
              /\ redis' = Exec(redis, c)
              /\ \/ /\ c = Srem(<<o.repo, o.digest>>) /\ o.category \in NeedsSrem
                    /\ o.repo \in Repos
                 \/ /\ c = Del(<<o.repo, o.digest>>) /\ o.category # "C1"
                    /\ o.repo \in Repos
                    /\ o.category \in NeedsSrem =>
                         /\ wire[n].cmd = 2
                         /\ QueueOp(o)[1] = Srem(<<o.repo, o.digest>>)
                 \/ c = Hdel(o.digest)
<1> DEFINE o == ops[wire[n].op]
           k == wire[n].cmd
           c == QueueOp(o)[k]
<1>1. /\ wire[n].op \in 1 .. Len(ops)
      /\ k \in 1 .. Len(QueueOp(o))
      /\ c \in Command
  BY ServeKeeps DEF IInv
<1>2. o \in PlannedOps(Issues)
  BY <1>1 DEF IInv, PlanInv
<1>3. o \in CleanOp /\ (o.category # "C1" => o.repo \in Repos)
  <2>1. Issues \in SUBSET Issue
    BY ClassifyType DEF IInv, TypeOK, Issues
  <2> QED BY <1>2, <2>1, PlannedOpsType
<1>4. redis' = Exec(redis, c) /\ ~Drained(wire[n])
  BY DEF Serve
<1>5. \/ /\ c = Srem(<<o.repo, o.digest>>) /\ o.category \in NeedsSrem
         /\ <<o.repo, o.digest>> \in Pair
      \/ /\ c = Del(<<o.repo, o.digest>>) /\ o.category # "C1"
         /\ <<o.repo, o.digest>> \in Pair
         /\ o.category \in NeedsSrem =>
               k = 2 /\ QueueOp(o)[1] = Srem(<<o.repo, o.digest>>)
      \/ c = Hdel(o.digest)
  <2> HIDE DEF o, k
  <2> QED BY <1>1, <1>3, CommandOf
<1>6. /\ <<o.repo, o.digest>> \in Pair => o.repo \in Repos
  BY DEF Pair
<1> HIDE DEF c, k, o
<1> QED BY <1>1, <1>2, <1>4, <1>5, <1>6 DEF o, k, c

\* What a command changes, by its verb.
LEMMA ExecChanges ==
    ASSUME NEW r \in RedisState, NEW repo \in Repos, NEW d \in Digests
    PROVE  /\ Exec(r, Srem(<<repo, d>>)).repo_blob_sets
                = r.repo_blob_sets \ {<<repo, d>>}
           /\ Exec(r, Srem(<<repo, d>>)).repo_blob_hashes = r.repo_blob_hashes
           /\ Exec(r, Srem(<<repo, d>>)).global_blobs = r.global_blobs
           /\ Exec(r, Del(<<repo, d>>)).repo_blob_hashes
                = r.repo_blob_hashes \ {<<repo, d>>}
           /\ Exec(r, Del(<<repo, d>>)).repo_blob_sets = r.repo_blob_sets
           /\ Exec(r, Del(<<repo, d>>)).global_blobs = r.global_blobs
<1>1. Exec(r, Srem(<<repo, d>>)) =
         [r EXCEPT !.repo_blob_sets = @ \ {<<repo, d>>}]
  BY DEF Exec, Srem
<1>2. Exec(r, Del(<<repo, d>>)) =
         [r EXCEPT !.repo_blob_hashes = @ \ {<<repo, d>>}]
  BY DEF Exec, Del
<1> QED BY <1>1, <1>2 DEF RedisState

LEMMA HdelChanges ==
    ASSUME NEW r \in RedisState, NEW d \in Digests
    PROVE  /\ Exec(r, Hdel(d)).repo_blob_sets = r.repo_blob_sets
           /\ Exec(r, Hdel(d)).repo_blob_hashes = r.repo_blob_hashes
           /\ Exec(r, Hdel(d)).global_blobs
                = [r.global_blobs EXCEPT ![d] = NoKey]
<1>1. Exec(r, Hdel(d)) = [r EXCEPT !.global_blobs[d] = NoKey,
                                  !.digest_fields = @ \ {d}]
  BY DEF Exec, Hdel
<1> QED BY <1>1 DEF RedisState

-----------------------------------------------------------------------------
(***************************************************************************)
(* Nothing but what the issues name.                                       *)
(***************************************************************************)

LEMMA RemovesOnlyNamedStep ==
    ASSUME IInv, [Next]_vars, redis' # redis, writes' = writes
    PROVE  RemovesOnlyNamed
<1> DEFINE Named(cats) == {<<i.repo, i.digest>> :
                              i \in {j \in Issues : j.category \in cats}}
           all == IF dry_run THEN {}
                  ELSE IF clear_internal_garbage THEN Category \ {"C7"}
                  ELSE {"C4", "C5"}
<1>1. PICK n \in 1 .. Len(wire) : Serve(n) /\ ~dry_run
  BY RedisChanges
<1>2. PICK o \in PlannedOps(Issues), c \in Command :
         /\ redis' = Exec(redis, c)
         /\ \/ /\ c = Srem(<<o.repo, o.digest>>) /\ o.category \in NeedsSrem
               /\ o.repo \in Repos
            \/ /\ c = Del(<<o.repo, o.digest>>) /\ o.category # "C1"
               /\ o.repo \in Repos
            \/ c = Hdel(o.digest)
  BY <1>1, ServeMeans
<1>3. PICK i \in Issues :
         /\ i.category \in Eligible
         /\ o.category = i.category /\ o.digest = i.digest /\ o.repo = i.repo
         /\ o.digest \in Digests
  BY OpHasIssue DEF IInv
<1>4. i.category \in all
  BY <1>1, <1>3 DEF Eligible, InternalGarbage, RealFailures, Category
<1>5. redis \in RedisState
  BY DEF IInv, TypeOK
<1>6. \A cats : i.category \in cats => <<o.repo, o.digest>> \in Named(cats)
  BY <1>3
<1> HIDE DEF all, Named
<1>7. /\ redis.repo_blob_sets \ redis'.repo_blob_sets
           \subseteq Named(all \ {"C1", "C6"})
      /\ redis.repo_blob_hashes \ redis'.repo_blob_hashes
           \subseteq Named(all \ {"C1"})
      /\ \A d \in Digests :
            redis'.global_blobs[d] # redis.global_blobs[d] =>
               \E q \in Named(all) : q[2] = d
  <2>1. CASE c = Srem(<<o.repo, o.digest>>) /\ o.category \in NeedsSrem
             /\ o.repo \in Repos
    <3>1. <<o.repo, o.digest>> \in Named(all \ {"C1", "C6"})
      BY <1>3, <1>4, <1>6, <2>1 DEF NeedsSrem
    <3>2. /\ redis'.repo_blob_sets = redis.repo_blob_sets \ {<<o.repo, o.digest>>}
          /\ redis'.repo_blob_hashes = redis.repo_blob_hashes
          /\ redis'.global_blobs = redis.global_blobs
      BY <1>2, <1>3, <1>5, <2>1, ExecChanges
    <3> QED BY <3>1, <3>2
  <2>2. CASE c = Del(<<o.repo, o.digest>>) /\ o.category # "C1"
             /\ o.repo \in Repos
    <3>1. <<o.repo, o.digest>> \in Named(all \ {"C1"})
      BY <1>3, <1>4, <1>6, <2>2
    <3>2. /\ redis'.repo_blob_hashes
               = redis.repo_blob_hashes \ {<<o.repo, o.digest>>}
          /\ redis'.repo_blob_sets = redis.repo_blob_sets
          /\ redis'.global_blobs = redis.global_blobs
      BY <1>2, <1>3, <1>5, <2>2, ExecChanges
    <3> QED BY <3>1, <3>2
  <2>3. CASE c = Hdel(o.digest)
    <3>1. <<o.repo, o.digest>> \in Named(all)
      BY <1>3, <1>4, <1>6
    <3>2. /\ redis'.repo_blob_sets = redis.repo_blob_sets
          /\ redis'.repo_blob_hashes = redis.repo_blob_hashes
          /\ redis'.global_blobs = [redis.global_blobs EXCEPT ![o.digest] = NoKey]
      BY <1>2, <1>3, <1>5, <2>3, HdelChanges
    <3>3. \A d \in Digests : redis'.global_blobs[d] # redis.global_blobs[d] =>
             d = o.digest
      BY <1>5, <3>2 DEF RedisState
    <3> QED BY <3>1, <3>2, <3>3
  <2> QED BY <1>2, <2>1, <2>2, <2>3
<1> QED BY <1>7 DEF RemovesOnlyNamed, all, Named

\* For every plan and every interleaving with the registry and with abandoned
\* pipelines, a call removes only what the scan's issues name, of the
\* categories it may touch, and nothing on a dry run.
THEOREM NothingElseIsRemoved == Spec => NoCollateral
<1>1. IInv /\ [Next]_vars => [writes' = writes => RemovesOnlyNamed]_redis
  BY RemovesOnlyNamedStep
<1> QED BY <1>1, Inductive, PTL DEF Spec, NoCollateral

-----------------------------------------------------------------------------
(***************************************************************************)
(* A client of the registry sees evictions.                                *)
(***************************************************************************)

\* A command of the doctor turns hits of one digest into misses.
LEMMA ExecServed ==
    ASSUME NEW r \in RedisState, NEW c \in Command, NEW p \in Pair
    PROVE  /\ Served(Exec(r, c), p) \in {Served(r, p), None}
           /\ p[2] # c.digest => Served(Exec(r, c), p) = Served(r, p)
<1>1. c.digest \in Digests /\ p \in Repos \X Digests /\ p = <<p[1], p[2]>>
  BY DEF Command, Pair
<1>2. CASE c.verb = "SREM"
  <2>1. Exec(r, c) = [r EXCEPT !.repo_blob_sets = @ \ {<<c.repo, c.digest>>}]
    BY <1>2 DEF Exec
  <2>2. /\ Exec(r, c).repo_blob_sets = r.repo_blob_sets \ {<<c.repo, c.digest>>}
        /\ Exec(r, c).repo_blob_hashes = r.repo_blob_hashes
        /\ Exec(r, c).global_blobs = r.global_blobs
        /\ Exec(r, c).digest_fields = r.digest_fields
    BY <2>1 DEF RedisState
  <2> QED BY <1>1, <2>2 DEF Served, StatHit
<1>3. CASE c.verb = "DEL"
  <2>1. Exec(r, c) = [r EXCEPT !.repo_blob_hashes = @ \ {<<c.repo, c.digest>>}]
    BY <1>3 DEF Exec
  <2>2. /\ Exec(r, c).repo_blob_hashes = r.repo_blob_hashes \ {<<c.repo, c.digest>>}
        /\ Exec(r, c).repo_blob_sets = r.repo_blob_sets
        /\ Exec(r, c).global_blobs = r.global_blobs
        /\ Exec(r, c).digest_fields = r.digest_fields
    BY <2>1 DEF RedisState
  <2> QED BY <1>1, <2>2 DEF Served, StatHit
<1>4. CASE c.verb = "HDEL"
  <2>1. Exec(r, c) = [r EXCEPT !.global_blobs[c.digest] = NoKey,
                              !.digest_fields = @ \ {c.digest}]
    BY <1>4 DEF Exec
  <2>2. /\ Exec(r, c).global_blobs = [r.global_blobs EXCEPT ![c.digest] = NoKey]
        /\ Exec(r, c).repo_blob_sets = r.repo_blob_sets
        /\ Exec(r, c).repo_blob_hashes = r.repo_blob_hashes
        /\ Exec(r, c).digest_fields = r.digest_fields \ {c.digest}
    BY <2>1 DEF RedisState
  <2>3. /\ Exec(r, c).global_blobs[c.digest] = NoKey
        /\ p[2] # c.digest =>
              Exec(r, c).global_blobs[p[2]] = r.global_blobs[p[2]]
    BY <1>1, <2>2 DEF RedisState
  <2>4. CASE p[2] = c.digest
    BY <2>3, <2>4, SpecialValues DEF Served, StatHit
  <2>5. CASE p[2] # c.digest
    BY <2>2, <2>3, <2>5 DEF Served, StatHit
  <2> QED BY <2>4, <2>5
<1> QED BY <1>2, <1>3, <1>4 DEF Command

\* A command of the registry leaves the entries of other digests alone.
LEMMA WriteServed ==
    ASSUME NEW r \in RedisState, NEW p \in Pair, NEW q \in Pair,
           NEW d \in Digests, p[2] # d
    PROVE  /\ q[2] = d => /\ Served(Sadd(r, q), p) = Served(r, p)
                          /\ Served(Hset(r, q), p) = Served(r, p)
           /\ \A s \in Sizes : Served(Hmset(r, d, s), p) = Served(r, p)
           /\ Served(Hsetnx(r, d), p) = Served(r, p)
<1>1. p[2] \in Digests
  BY DEF Pair
<1>2. ASSUME q[2] = d
      PROVE  /\ Served(Sadd(r, q), p) = Served(r, p)
             /\ Served(Hset(r, q), p) = Served(r, p)
  BY <1>2 DEF Served, StatHit, Sadd, Hset, RedisState
<1>3. ASSUME NEW s \in Sizes PROVE Served(Hmset(r, d, s), p) = Served(r, p)
  BY <1>1 DEF Served, StatHit, Hmset, RedisState
<1>4. Served(Hsetnx(r, d), p) = Served(r, p)
  BY <1>1 DEF Served, StatHit, Hsetnx, RedisState
<1> QED BY <1>2, <1>3, <1>4

LEMMA ServedType ==
    ASSUME NEW r \in RedisState
    PROVE  [p \in Pair |-> Served(r, p)] \in [Repos \X Digests -> Sizes \union {None}]
BY DEF Served, StatHit, Pair

LEMMA EvictionsInit == Init => Evictions!Init
<1> SUFFICES ASSUME Init PROVE Evictions!Init
  OBVIOUS
<1>1. TypeOK
  BY InitIInv DEF IInv
<1>2. Condemned \subseteq Digests
  BY <1>1, OpHasIssue DEF Condemned
<1>3. redis \in RedisState /\ writes = 0
  BY DEF Init, CacheState
<1> QED BY <1>2, <1>3, ServedType DEF Evictions!Init

LEMMA EvictionsStep == IInv /\ [Next]_vars => [Evictions!Next]_(Evictions!vars)
<1> SUFFICES ASSUME IInv, [Next]_vars
             PROVE  [Evictions!Next]_(Evictions!vars)
  OBVIOUS
<1>1. UNCHANGED <<snapshot, fs, dry_run, clear_internal_garbage>>
  BY DEF Next, Plan, Send, Serve, ExecuteOk, ExecuteErrorRetry,
         ExecuteErrorGiveUp, Abort, Registry, RegistrySadd, RegistryHmset,
         RegistryHsetnx, RegistryHset, RegistryClear, RegistryWrite, vars,
         local, call
<1>2. Condemned' = Condemned
  BY <1>1 DEF Condemned, Issues, PlannedOps, Eligible
<1>3. redis \in RedisState /\ redis' \in RedisState
  BY IInvStep DEF IInv, TypeOK
<1>4. CASE UNCHANGED <<redis, writes>>
  BY <1>2, <1>4 DEF Evictions!vars
<1>5. CASE \E n \in 1 .. Len(wire) : Serve(n)
  <2>1. PICK n \in 1 .. Len(wire) : Serve(n)
    BY <1>5
  <2>2. PICK o \in PlannedOps(Issues), c \in Command :
           /\ redis' = Exec(redis, c)
           /\ \/ c = Srem(<<o.repo, o.digest>>)
              \/ c = Del(<<o.repo, o.digest>>)
              \/ c = Hdel(o.digest)
    BY <2>1, ServeMeans
  <2>3. c.digest = o.digest
    BY <2>2 DEF Srem, Del, Hdel
  <2>4. ~dry_run
    <3>1. wire # <<>>
      BY <2>1
    <3> QED BY <3>1 DEF IInv, PlanInv
  <2>5. c.digest \in Condemned /\ c.digest \in Digests
    BY <2>2, <2>3, <2>4 DEF Condemned, Command
  <2>6. writes' = writes
    BY <2>1 DEF Serve
  <2> DEFINE evicted == {p \in Repos \X {c.digest} : Served(redis', p) = None}
  <2>7. [p \in Pair |-> Served(redis', p)]
           = [p \in Repos \X Digests |->
                 IF p \in evicted THEN None ELSE [q \in Pair |-> Served(redis, q)][p]]
    <3> SUFFICES ASSUME NEW p \in Pair
                 PROVE  Served(redis', p) =
                          IF p \in evicted THEN None ELSE Served(redis, p)
      BY DEF Pair
    <3>1. /\ Served(redis', p) \in {Served(redis, p), None}
          /\ p[2] # c.digest => Served(redis', p) = Served(redis, p)
      BY <1>3, <2>2, ExecServed
    <3>2. CASE p[2] = c.digest
      <4>1. p \in Repos \X {c.digest}
        BY <3>2 DEF Pair
      <4> QED BY <3>1, <4>1
    <3>3. CASE p[2] # c.digest
      <4>1. p \notin evicted
        BY <3>3
      <4> QED BY <3>1, <3>3, <4>1
    <3> QED BY <3>2, <3>3
  <2>8. evicted \in SUBSET (Repos \X {c.digest})
    OBVIOUS
  <2> HIDE DEF evicted
  <2>9. Evictions!Evict(c.digest)
    BY <1>2, <2>5, <2>6, <2>7, <2>8 DEF Evictions!Evict
  <2> QED BY <2>5, <2>9 DEF Evictions!Next
<1>6. CASE Registry
  <2>1. PICK d \in Digests :
           /\ writes' = writes + 1
           /\ \A p \in Pair : p[2] # d => Served(redis', p) = Served(redis, p)
    <3>1. ASSUME NEW q \in Pair, RegistrySadd(q) \/ RegistryHset(q)
          PROVE  /\ q[2] \in Digests
                 /\ writes' = writes + 1
                 /\ \A p \in Pair : p[2] # q[2] =>
                       Served(redis', p) = Served(redis, p)
      <4>1. q[2] \in Digests
        BY DEF Pair
      <4> QED BY <1>3, <3>1, <4>1, WriteServed
              DEF RegistrySadd, RegistryHset, RegistryWrite
    <3>2. ASSUME NEW d \in Digests,
                 (\E s \in Sizes : RegistryHmset(d, s)) \/ RegistryHsetnx(d)
          PROVE  /\ writes' = writes + 1
                 /\ \A p \in Pair : p[2] # d =>
                       Served(redis', p) = Served(redis, p)
      BY <1>3, <3>2, WriteServed DEF RegistryHmset, RegistryHsetnx, RegistryWrite
    <3>3. ASSUME NEW c \in Command, RegistryClear(c)
          PROVE  /\ c.digest \in Digests
                 /\ writes' = writes + 1
                 /\ \A p \in Pair : p[2] # c.digest =>
                       Served(redis', p) = Served(redis, p)
      <4>1. c.digest \in Digests
        BY DEF Command
      <4> QED BY <1>3, <3>3, <4>1, ExecServed DEF RegistryClear, RegistryWrite
    <3> QED BY <1>6, <3>1, <3>2, <3>3 DEF Registry
  <2>2. [p \in Pair |-> Served(redis', p)] \in [Repos \X Digests -> Sizes \union {None}]
    BY <1>3, ServedType
  <2>3. Evictions!Update(d)
    BY <1>2, <2>1, <2>2 DEF Evictions!Update, Pair
  <2> QED BY <2>3 DEF Evictions!Next
<1>7. (\/ Plan \/ Send \/ ExecuteOk \/ ExecuteErrorRetry \/ ExecuteErrorGiveUp
       \/ Abort \/ UNCHANGED vars) => UNCHANGED <<redis, writes>>
  BY DEF Plan, Send, ExecuteOk, ExecuteErrorRetry, ExecuteErrorGiveUp, Abort, vars
<1> QED BY <1>4, <1>5, <1>6, <1>7 DEF Next

\* The detailed call implements the abstract one: to a client of the registry
\* it is a series of evictions of condemned digests.
THEOREM CallIsEvictions == Spec => EvictionOnly
BY EvictionsInit, EvictionsStep, Inductive, PTL
   DEF Spec, EvictionOnly, Evictions!Spec

-----------------------------------------------------------------------------
(***************************************************************************)
(* Half-applied batches.                                                   *)
(***************************************************************************)

\* A planned op of a pair stands for the scan's verdict on that pair.
LEMMA OpIsVerdict ==
    ASSUME TypeOK, NEW o \in PlannedOps(Issues), o.repo \in Repos
    PROVE  /\ <<o.repo, o.digest>> \in Pairs(snapshot)
           /\ o.category = PairCategory(snapshot, fs, <<o.repo, o.digest>>)
<1>1. PICK i \in Issues :
         /\ i.category \in Eligible
         /\ o.category = i.category /\ o.digest = i.digest /\ o.repo = i.repo
  BY OpHasIssue
<1>2. i.repo # None
  BY <1>1, SpecialValues
<1>3. i \in PairIssues(snapshot, fs)
  BY <1>2 DEF Issues, Classify, OrphanIssues, LeftoverIssues, MkIssue
<1>4. PICK p \in Pairs(snapshot) :
         i = MkIssue(snapshot, fs, PairCategory(snapshot, fs, p), p[2], p[1])
  BY <1>3 DEF PairIssues
<1>5. /\ i.repo = p[1] /\ i.digest = p[2]
      /\ i.category = PairCategory(snapshot, fs, p)
  BY <1>4 DEF MkIssue
<1>6. p = <<o.repo, o.digest>>
  <2>1. p \in Repos \X Digests
    BY DEF Pairs, TypeOK, RedisState, Pair
  <2> QED BY <1>1, <1>5, <2>1
<1> QED BY <1>1, <1>5, <1>6

\* Shrinking in the right order goes on, and what is gone stays gone.
LEMMA ShrunkTwice ==
    ASSUME NEW r, NEW s, NEW t, Shrunk(r, s), Shrunk(s, t)
    PROVE  Shrunk(r, t)
BY DEF Shrunk

LEMMA ShrunkGone ==
    ASSUME NEW r, NEW s, Shrunk(r, s), NEW c \in Command, Gone(s, c)
    PROVE  Gone(r, c)
BY DEF Shrunk, Gone, Command

\* A command shrinks Redis in the right order, and for an op of the plan,
\* whatever else has shrunk it since the scan.
LEMMA ServeShrinks ==
    ASSUME IInv, Shrunk(redis, snapshot), PrefixInv,
           NEW n \in 1 .. Len(wire), Serve(n)
    PROVE  /\ Shrunk(redis', redis)
           /\ \A p \in redis.repo_blob_sets \ redis'.repo_blob_sets :
                 PairCategory(snapshot, fs, p) \in NeedsSrem
           /\ \A p \in redis.repo_blob_hashes \ redis'.repo_blob_hashes :
                 PairCategory(snapshot, fs, p) \in RepoScoped
           /\ \A d \in Digests : redis'.global_blobs[d] # redis.global_blobs[d] =>
                 \E o \in PlannedOps(Issues) : o.digest = d
<1>1. PICK o \in PlannedOps(Issues), c \in Command :
         /\ o = ops[wire[n].op] /\ c = QueueOp(o)[wire[n].cmd]
         /\ ~Drained(wire[n])
         /\ redis' = Exec(redis, c)
         /\ \/ /\ c = Srem(<<o.repo, o.digest>>) /\ o.category \in NeedsSrem
               /\ o.repo \in Repos
            \/ /\ c = Del(<<o.repo, o.digest>>) /\ o.category # "C1"
               /\ o.repo \in Repos
               /\ o.category \in NeedsSrem =>
                    /\ wire[n].cmd = 2
                    /\ QueueOp(o)[1] = Srem(<<o.repo, o.digest>>)
            \/ c = Hdel(o.digest)
  BY ServeMeans
<1>2. /\ UNCHANGED <<snapshot, fs>>
      /\ redis \in RedisState
      /\ o.digest \in Digests
      /\ o.category \in InternalGarbage \union RealFailures
  <2>1. UNCHANGED <<snapshot, fs>>
    BY DEF Serve, local, call
  <2>2. o \in CleanOp
    <3>1. Issues \in SUBSET Issue
      BY ClassifyType DEF IInv, TypeOK, Issues
    <3> QED BY <3>1, PlannedOpsType
  <2> QED BY <2>1, <2>2 DEF CleanOp, IInv, TypeOK
<1> DEFINE p == <<o.repo, o.digest>>
<1>3. o.repo \in Repos => o.category = PairCategory(snapshot, fs, p)
  BY OpIsVerdict DEF IInv
<1>4. CASE c = Srem(p) /\ o.category \in NeedsSrem /\ o.repo \in Repos
  <2>1. /\ redis'.repo_blob_sets = redis.repo_blob_sets \ {p}
        /\ redis'.repo_blob_hashes = redis.repo_blob_hashes
        /\ redis'.global_blobs = redis.global_blobs
    <3>1. redis' = Exec(redis, Srem(<<o.repo, o.digest>>))
      BY <1>1, <1>4
    <3>2. redis \in RedisState /\ o.digest \in Digests /\ o.repo \in Repos
      BY <1>2, <1>4
    <3> QED BY <3>1, <3>2, ExecChanges
  <2>2. PairCategory(snapshot, fs, p) \in NeedsSrem
    BY <1>3, <1>4
  <2> HIDE DEF p
  <2> QED BY <1>2, <2>1, <2>2 DEF Shrunk
<1>5. CASE c = Del(p) /\ o.category # "C1" /\ o.repo \in Repos
  <2>1. /\ redis'.repo_blob_hashes = redis.repo_blob_hashes \ {p}
        /\ redis'.repo_blob_sets = redis.repo_blob_sets
        /\ redis'.global_blobs = redis.global_blobs
    <3>1. redis' = Exec(redis, Del(<<o.repo, o.digest>>))
      BY <1>1, <1>5
    <3>2. redis \in RedisState /\ o.digest \in Digests /\ o.repo \in Repos
      BY <1>2, <1>5
    <3> QED BY <3>1, <3>2, ExecChanges
  <2>2. PairCategory(snapshot, fs, p) \in RepoScoped
    BY <1>2, <1>3, <1>5 DEF RepoScoped, InternalGarbage, RealFailures
  <2>3. p \notin redis.repo_blob_sets
    <3>1. CASE o.category \in NeedsSrem
      <4>1. wire[n].cmd = 2 /\ QueueOp(o)[1] = Srem(p)
        BY <1>1, <1>5, <3>1 DEF Srem, Del, Hdel
      <4>2. Gone(redis, Srem(p))
        BY <1>1, <4>1 DEF PrefixInv
      <4> QED BY <4>2 DEF Gone, Srem
    <3>2. CASE o.category \notin NeedsSrem
      <4>1. o.category = "C6"
        BY <1>2, <1>5, <3>2 DEF InternalGarbage, RealFailures, NeedsSrem
      <4>2. p \notin snapshot.repo_blob_sets
        BY <1>3, <1>5, <4>1 DEF PairCategory
      <4> QED BY <4>2 DEF Shrunk
    <3> QED BY <3>1, <3>2
  <2> HIDE DEF p
  <2> QED BY <1>2, <2>1, <2>2, <2>3 DEF Shrunk
<1>6. CASE c = Hdel(o.digest)
  <2>1. /\ redis'.repo_blob_sets = redis.repo_blob_sets
        /\ redis'.repo_blob_hashes = redis.repo_blob_hashes
        /\ redis'.global_blobs = [redis.global_blobs EXCEPT ![o.digest] = NoKey]
    BY <1>1, <1>2, <1>6, HdelChanges
  <2>2. \A d \in Digests :
           /\ redis'.global_blobs[d] \in {redis.global_blobs[d], NoKey}
           /\ redis'.global_blobs[d] # redis.global_blobs[d] => d = o.digest
    BY <1>2, <2>1 DEF RedisState
  <2> QED BY <1>2, <2>1, <2>2 DEF Shrunk
<1> QED BY <1>1, <1>4, <1>5, <1>6

LEMMA ShrinkStep ==
    ASSUME IInv, ShrinkInv, PrefixInv,
           NEW n \in 1 .. Len(wire), Serve(n)
    PROVE  ShrinkInv'
<1>1. /\ Shrunk(redis', redis)
      /\ \A p \in redis.repo_blob_sets \ redis'.repo_blob_sets :
            PairCategory(snapshot, fs, p) \in NeedsSrem
      /\ \A p \in redis.repo_blob_hashes \ redis'.repo_blob_hashes :
            PairCategory(snapshot, fs, p) \in RepoScoped
  BY ServeShrinks DEF ShrinkInv
<1>2. Shrunk(redis', snapshot)
  BY <1>1, ShrunkTwice DEF ShrinkInv
<1>3. UNCHANGED <<snapshot, fs>>
  BY DEF Serve, local, call
<1> QED BY <1>1, <1>2, <1>3 DEF ShrinkInv

\* The commands that a pipeline has behind it in its present op.
LEMMA PassedCommand ==
    ASSUME IInv, NEW m \in 1 .. Len(wire), ~Drained(wire[m]),
           NEW k \in 1 .. wire[m].cmd - 1
    PROVE  QueueOp(ops[wire[m].op])[k] \in Command
<1>1. wire[m] \in PipelineType /\ Len(ops) \in Nat
  <2>1. wire \in Seq(PipelineType)
    BY DEF IInv, TypeOK
  <2> QED BY <2>1, ElementOfSeq DEF IInv, TypeOK
<1>2. /\ wire[m].last <= Len(ops)
      /\ wire[m].cmd <= Len(QueueOp(ops[wire[m].op]))
  BY DEF IInv, WireInv, WellPlaced
<1>3. wire[m].op \in 1 .. Len(ops) /\ wire[m].cmd \in 1 .. 3
  BY <1>1, <1>2 DEF Drained, PipelineType
<1>4. /\ Len(QueueOp(ops[wire[m].op])) \in Nat
      /\ \A j \in 1 .. Len(QueueOp(ops[wire[m].op])) :
            QueueOp(ops[wire[m].op])[j] \in Command
  BY <1>3, OpsCommands DEF IInv
<1>5. k \in 1 .. Len(QueueOp(ops[wire[m].op]))
  BY <1>2, <1>3, <1>4
<1> QED BY <1>4, <1>5

\* Another call that shrinks Redis leaves this one's pipelines where they were.
LEMMA PrefixStays ==
    ASSUME IInv, PrefixInv, Shrunk(redis', redis), UNCHANGED <<ops, wire>>
    PROVE  PrefixInv'
<1>1. ASSUME NEW m \in 1 .. Len(wire), ~Drained(wire[m]),
             NEW k \in 1 .. wire[m].cmd - 1
      PROVE  Gone(redis', QueueOp(ops[wire[m].op])[k])
  <2>1. Gone(redis, QueueOp(ops[wire[m].op])[k])
    BY <1>1 DEF PrefixInv
  <2>2. QueueOp(ops[wire[m].op])[k] \in Command
    BY <1>1, PassedCommand
  <2> QED BY <2>1, <2>2, ShrunkGone
<1> QED BY <1>1 DEF PrefixInv, Drained

\* A command leaves behind it, in every pipeline, what was gone.
LEMMA PrefixStep ==
    ASSUME IInv, PrefixInv, NEW n \in 1 .. Len(wire), Serve(n)
    PROVE  PrefixInv'
<1>1. PICK o \in PlannedOps(Issues), c \in Command :
         /\ o = ops[wire[n].op] /\ c = QueueOp(o)[wire[n].cmd]
         /\ wire[n].cmd \in 1 .. Len(QueueOp(o))
         /\ wire[n].op \in 1 .. Len(ops) /\ ~Drained(wire[n])
         /\ redis' = Exec(redis, c)
  BY ServeMeans
<1>2. /\ Gone(redis', c)
      /\ \A e \in Command : Gone(redis, e) => Gone(redis', e)
  BY <1>1, ExecRemoves DEF IInv, TypeOK
<1>3. \A i \in 1 .. Len(ops) :
         /\ QueueOp(ops[i]) \in Seq(Command)
         /\ Len(QueueOp(ops[i])) \in Nat
         /\ \A k \in 1 .. Len(QueueOp(ops[i])) : QueueOp(ops[i])[k] \in Command
  BY OpsCommands DEF IInv
<1>4. /\ wire \in Seq(PipelineType) /\ Len(wire) \in Nat
      /\ \A m \in 1 .. Len(wire) : wire[m] \in PipelineType
  <2>1. wire \in Seq(PipelineType)
    BY DEF IInv, TypeOK
  <2> QED BY <2>1, ElementOfSeq
<1>5. ops' = ops
  BY DEF Serve, local
<1> DEFINE q == IF wire[n].cmd < Len(QueueOp(ops[wire[n].op]))
                THEN [wire[n] EXCEPT !.cmd = @ + 1]
                ELSE [wire[n] EXCEPT !.op = @ + 1, !.cmd = 1]
<1>6. wire' = [wire EXCEPT ![n] = q]
  BY DEF Serve
<1>7. /\ Len(wire') = Len(wire)
      /\ \A m \in 1 .. Len(wire) : wire'[m] = IF m = n THEN q ELSE wire[m]
  <2> HIDE DEF q
  <2> QED BY <1>4, <1>6
<1> SUFFICES ASSUME NEW m \in 1 .. Len(wire), ~Drained(wire'[m]),
                    NEW k \in 1 .. wire'[m].cmd - 1
             PROVE  Gone(redis', QueueOp(ops[wire'[m].op])[k])
  BY <1>5, <1>7 DEF PrefixInv, Drained
<1>8. CASE m # n
  <2>1. wire'[m] = wire[m]
    BY <1>7, <1>8
  <2>2. Gone(redis, QueueOp(ops[wire[m].op])[k])
    BY <2>1 DEF PrefixInv, Drained
  <2>3. QueueOp(ops[wire[m].op])[k] \in Command
    <3>1. ~Drained(wire[m]) /\ k \in 1 .. wire[m].cmd - 1
      BY <2>1 DEF Drained
    <3> QED BY <3>1, PassedCommand
  <2> QED BY <1>2, <2>1, <2>2, <2>3
<1>9. CASE m = n /\ wire[n].cmd < Len(QueueOp(ops[wire[n].op]))
  <2>1. wire'[m] = [wire[n] EXCEPT !.cmd = @ + 1]
    BY <1>7, <1>9
  <2>2. wire'[m].op = wire[n].op /\ wire'[m].cmd = wire[n].cmd + 1
    BY <1>4, <2>1 DEF PipelineType
  <2>3. wire[n].cmd \in Nat
    BY <1>1
  <2>4. CASE k = wire[n].cmd
    BY <1>1, <1>2, <2>2, <2>4
  <2>5. CASE k \in 1 .. wire[n].cmd - 1
    <3>1. Gone(redis, QueueOp(ops[wire[n].op])[k])
      BY <1>1, <2>5 DEF PrefixInv
    <3>2. k \in 1 .. Len(QueueOp(ops[wire[n].op]))
      BY <1>1, <1>3, <2>5
    <3>3. QueueOp(ops[wire[n].op])[k] \in Command
      BY <1>1, <1>3, <3>2
    <3> QED BY <1>2, <2>2, <3>1, <3>3
  <2> QED BY <2>2, <2>3, <2>4, <2>5
<1>10. CASE m = n /\ ~(wire[n].cmd < Len(QueueOp(ops[wire[n].op])))
  <2>1. wire'[m] = [wire[n] EXCEPT !.op = @ + 1, !.cmd = 1]
    BY <1>7, <1>10
  <2>2. wire'[m].cmd = 1
    BY <1>4, <2>1 DEF PipelineType
  <2> QED BY <2>2
<1> QED BY <1>8, <1>9, <1>10

\* A pipeline is sent with nothing behind it.
LEMMA PlannedPrefix ==
    ASSUME IInv, PrefixInv, Plan \/ Send
    PROVE  PrefixInv'
<1>1. CASE Plan
  <2>1. wire' = <<>>
    BY <1>1 DEF Plan, IInv, PlanInv
  <2> QED BY <2>1 DEF PrefixInv
<1>2. CASE Send
  <2>1. UNCHANGED <<redis, ops>>
    BY <1>2 DEF Send
  <2> DEFINE new == Pipeline(start, ChunkEnd)
  <2>2. wire \in Seq(PipelineType) /\ wire' = Append(wire, new) /\ new.cmd = 1
    BY <1>2 DEF Send, IInv, TypeOK, Pipeline
  <2> HIDE DEF new
  <2>3. \A m \in 1 .. Len(wire') :
           \/ m \in 1 .. Len(wire) /\ wire'[m] = wire[m]
           \/ wire'[m].cmd = 1
    BY <2>2
  <2>4. ASSUME NEW m \in 1 .. Len(wire'), ~Drained(wire'[m]),
               NEW k \in 1 .. wire'[m].cmd - 1
        PROVE  Gone(redis, QueueOp(ops[wire'[m].op])[k])
    <3>1. m \in 1 .. Len(wire) /\ wire'[m] = wire[m]
      <4>1. wire'[m].cmd = 1 => 1 .. wire'[m].cmd - 1 = {}
        OBVIOUS
      <4> QED BY <2>3, <2>4, <4>1
    <3> QED BY <2>4, <3>1 DEF PrefixInv, Drained
  <2> QED BY <2>1, <2>4 DEF PrefixInv, Drained
<1> QED BY <1>1, <1>2

\* Every step of the call keeps Redis shrinking.
LEMMA ShrinkingStep ==
    ASSUME IInv, ShrinkInv, PrefixInv, [Next]_vars, ~Registry
    PROVE  ShrinkInv' /\ PrefixInv'
<1>1. CASE \E n \in 1 .. Len(wire) : Serve(n)
  BY <1>1, ShrinkStep, PrefixStep
<1>2. CASE UNCHANGED <<redis, snapshot, fs, ops, wire>>
  BY <1>2 DEF ShrinkInv, PrefixInv, Drained
<1>3. CASE Plan \/ Send
  <2>1. UNCHANGED <<redis, snapshot, fs>>
    BY <1>3 DEF Plan, Send, call
  <2> QED BY <1>3, <2>1, PlannedPrefix DEF ShrinkInv
<1>4. (\/ ExecuteOk \/ ExecuteErrorRetry \/ ExecuteErrorGiveUp \/ Abort
       \/ UNCHANGED vars) => UNCHANGED <<redis, snapshot, fs, ops, wire>>
  BY DEF ExecuteOk, ExecuteErrorRetry, ExecuteErrorGiveUp, Abort, vars, local, call
<1> QED BY <1>1, <1>2, <1>3, <1>4 DEF Next

\* Only the registry counts writes.
LEMMA WritesCount ==
    ASSUME IInv, [Next]_vars
    PROVE  writes \in Nat /\ writes' \in {writes, writes + 1}
<1>1. writes \in Nat
  BY CleanAssumption DEF IInv, TypeOK
<1> QED BY <1>1 DEF Next, Plan, Send, Serve, ExecuteOk, ExecuteErrorRetry,
                    ExecuteErrorGiveUp, Abort, vars, Registry, RegistrySadd,
                    RegistryHmset, RegistryHsetnx, RegistryHset, RegistryClear,
                    RegistryWrite

LEMMA QuietStep == IInv /\ QuietInv /\ [Next]_vars => QuietInv'
<1> SUFFICES ASSUME IInv, QuietInv, [Next]_vars, writes' = 0
             PROVE  ShrinkInv' /\ PrefixInv'
  BY DEF QuietInv
<1>1. writes \in Nat
  BY CleanAssumption DEF IInv, TypeOK
<1>2. Registry => writes' = writes + 1
  BY DEF Registry, RegistrySadd, RegistryHmset, RegistryHsetnx, RegistryHset,
         RegistryClear, RegistryWrite
<1>3. ~Registry
  BY <1>1, <1>2
<1>4. writes = 0
  BY <1>3 DEF Next, Plan, Send, Serve, ExecuteOk, ExecuteErrorRetry,
              ExecuteErrorGiveUp, Abort, vars
<1> QED BY <1>3, <1>4, ShrinkingStep DEF QuietInv

\* Two states agree on what is said of a digest.
SameKeys(r, s, d) ==
    /\ r.global_blobs[d] = s.global_blobs[d]
    /\ \A p \in Pair : p[2] = d =>
          /\ p \in r.repo_blob_sets <=> p \in s.repo_blob_sets
          /\ p \in r.repo_blob_hashes <=> p \in s.repo_blob_hashes

LEMMA ServeTouches ==
    ASSUME IInv, NEW n \in 1 .. Len(wire), Serve(n), NEW d \in Digests,
           ~SameKeys(redis', redis, d)
    PROVE  \E o \in PlannedOps(Issues) : o.digest = d
<1>1. PICK o \in PlannedOps(Issues), c \in Command :
         /\ redis' = Exec(redis, c)
         /\ \/ c = Srem(<<o.repo, o.digest>>)
            \/ c = Del(<<o.repo, o.digest>>)
            \/ c = Hdel(o.digest)
  BY ServeMeans
<1>2. c.digest = o.digest
  BY <1>1 DEF Srem, Del, Hdel
<1>3. redis \in RedisState
  BY DEF IInv, TypeOK
<1>4. d # c.digest => SameKeys(redis', redis, d)
  <2> SUFFICES ASSUME d # c.digest PROVE SameKeys(Exec(redis, c), redis, d)
    BY <1>1
  <2>1. CASE c.verb = "SREM"
    BY <1>3, <2>1 DEF Exec, SameKeys, RedisState
  <2>2. CASE c.verb = "DEL"
    BY <1>3, <2>2 DEF Exec, SameKeys, RedisState
  <2>3. CASE c.verb = "HDEL"
    BY <1>3, <2>3 DEF Exec, SameKeys, RedisState
  <2> QED BY <2>1, <2>2, <2>3 DEF Command
<1> QED BY <1>2, <1>4

\* A step of a call in a quiet registry, whoever else has been removing keys
\* since its scan: it shrinks Redis, and touches only what its plan names.
LEMMA QuietCall ==
    ASSUME IInv, Shrunk(redis, snapshot), PrefixInv, [Next]_vars,
           writes' = writes
    PROVE  /\ Shrunk(redis', redis) /\ PrefixInv'
           /\ UNCHANGED <<call, rewritten>>
           /\ \A p \in redis.repo_blob_sets \ redis'.repo_blob_sets :
                 PairCategory(snapshot, fs, p) \in NeedsSrem
           /\ \A d \in Digests : ~SameKeys(redis', redis, d) =>
                 ~dry_run /\ \E o \in PlannedOps(Issues) : o.digest = d
<1>1. CASE \E n \in 1 .. Len(wire) : Serve(n)
  <2>1. PICK n \in 1 .. Len(wire) : Serve(n)
    BY <1>1
  <2>2. wire # <<>>
    BY <2>1
  <2>3. ~dry_run
    BY <2>2 DEF IInv, PlanInv
  <2>4. UNCHANGED <<call, rewritten>>
    BY <2>1 DEF Serve, local
  <2> QED BY <2>1, <2>3, <2>4, ServeShrinks, ServeTouches, PrefixStep
<1>2. CASE UNCHANGED <<redis, call, rewritten, ops, wire>>
  <2>1. Shrunk(redis', redis) /\ (\A d \in Digests : SameKeys(redis', redis, d))
    BY <1>2 DEF Shrunk, SameKeys
  <2> QED BY <1>2, <2>1, PrefixStays
<1>3. CASE Plan \/ Send
  <2>1. UNCHANGED <<redis, call, rewritten>>
    BY <1>3 DEF Plan, Send
  <2>2. Shrunk(redis', redis) /\ (\A d \in Digests : SameKeys(redis', redis, d))
    BY <2>1 DEF Shrunk, SameKeys
  <2>3. PrefixInv'
    BY <1>3, PlannedPrefix
  <2> QED BY <2>1, <2>2, <2>3
<1>4. ~Registry
  <2>1. Registry => writes' = writes + 1
    BY DEF Registry, RegistrySadd, RegistryHmset, RegistryHsetnx, RegistryHset,
           RegistryClear, RegistryWrite
  <2>2. writes \in Nat
    BY CleanAssumption DEF IInv, TypeOK
  <2> QED BY <2>1, <2>2
<1>5. (\/ ExecuteOk \/ ExecuteErrorRetry \/ ExecuteErrorGiveUp \/ Abort
       \/ UNCHANGED vars) => UNCHANGED <<redis, call, rewritten, ops, wire>>
  BY DEF ExecuteOk, ExecuteErrorRetry, ExecuteErrorGiveUp, Abort, vars, local
<1> QED BY <1>1, <1>2, <1>3, <1>4, <1>5 DEF Next

\* What shrinking in that order makes of each verdict: a failure of nothing
\* that was none, and nothing that harms; a healthy pair may disappear.
LEMMA ShrunkVerdict ==
    ASSUME NEW s, NEW r, Shrunk(r, s), NEW p \in Pair
    PROVE  LET before == Verdict(s, p)
               now    == Verdict(r, p)
           IN  \/ before = now \/ <<before, now>> \in Degrades
               \/ before = "OK" /\ now \in {"C6", "none"}
<1>1. /\ p[2] \in Digests
      /\ r.global_blobs[p[2]] \in {s.global_blobs[p[2]], NoKey}
      /\ p \in r.repo_blob_sets => p \in s.repo_blob_sets
      /\ p \in r.repo_blob_hashes => p \in s.repo_blob_hashes
      /\ p \in s.repo_blob_hashes /\ p \notin r.repo_blob_hashes =>
            p \notin r.repo_blob_sets
  BY DEF Shrunk, Pair
<1>2. NoKey \notin Sizes
  BY SpecialValues
<1> DEFINE before == PairCategory(s, fs, p)
           now == PairCategory(r, fs, p)
<1>3. before \in {"OK", "C2", "C3", "C4", "C5", "C6"}
  BY DEF PairCategory
<1>4. CASE p \notin Pairs(s)
  <2>1. p \notin Pairs(r)
    BY <1>1, <1>4 DEF Pairs
  <2> QED BY <1>4, <2>1 DEF Verdict
<1>5. CASE p \in Pairs(s)
  <2>1. Verdict(s, p) = before
    BY <1>5 DEF Verdict
  <2>2. CASE p \notin Pairs(r)
    <3>1. Verdict(r, p) = "none"
      BY <2>2 DEF Verdict
    <3> HIDE DEF before
    <3> QED BY <1>3, <2>1, <3>1 DEF Degrades
  <2>3. CASE p \in r.repo_blob_sets
    <3>1. Verdict(r, p) = now
      BY <2>3 DEF Verdict, Pairs
    <3>2. /\ p \in s.repo_blob_sets
          /\ p \in r.repo_blob_hashes <=> p \in s.repo_blob_hashes
      BY <1>1, <2>3
    <3>3. CASE r.global_blobs[p[2]] = s.global_blobs[p[2]]
      <4>1. now = before
        BY <2>3, <3>2, <3>3 DEF PairCategory, GlobalValid, RedisSize
      <4> QED BY <2>1, <3>1, <4>1
    <3>4. CASE r.global_blobs[p[2]] = NoKey
      <4>1. now = "C2"
        BY <1>2, <2>3, <3>4 DEF PairCategory, GlobalValid
      <4>2. before # "C6"
        BY <3>2 DEF PairCategory
      <4> HIDE DEF before, now
      <4> QED BY <1>3, <2>1, <3>1, <4>1, <4>2 DEF Degrades
    <3> QED BY <1>1, <3>3, <3>4
  <2>4. CASE p \notin r.repo_blob_sets /\ p \in r.repo_blob_hashes
    <3>1. Verdict(r, p) = "C6"
      BY <2>4 DEF Verdict, Pairs, PairCategory
    <3>2. before # "C3"
      BY <1>1, <2>4 DEF PairCategory
    <3> HIDE DEF before
    <3> QED BY <1>3, <2>1, <3>1, <3>2 DEF Degrades
  <2> QED BY <2>2, <2>3, <2>4 DEF Pairs
<1> QED BY <1>4, <1>5

\* A single call leaves the healthy pairs their set members and hashes.
LEMMA ShrunkVerdicts ==
    ASSUME ShrinkInv, NEW p \in Pair
    PROVE  LET before == Verdict(snapshot, p)
               now    == Verdict(redis, p)
           IN  before = now \/ <<before, now>> \in Degrades
<1>1. SUFFICES ASSUME Verdict(snapshot, p) = "OK", Verdict(redis, p) \in {"C6", "none"}
               PROVE  FALSE
  BY ShrunkVerdict DEF ShrinkInv
<1>2. p \in Pairs(snapshot) /\ PairCategory(snapshot, fs, p) = "OK"
  BY <1>1 DEF Verdict
<1>3. p \in snapshot.repo_blob_sets \ redis.repo_blob_sets
  <2>1. p \in snapshot.repo_blob_sets
    BY <1>2 DEF Pairs, PairCategory
  <2>2. p \notin redis.repo_blob_sets
    BY <1>1 DEF Verdict, Pairs, PairCategory
  <2> QED BY <2>1, <2>2
<1> QED BY <1>2, <1>3 DEF ShrinkInv, NeedsSrem

\* As long as the registry is quiet, no prefix of any pipelines, in any order,
\* makes a failure of a pair that was none, and every verdict that changes
\* becomes a harmless one.
THEOREM HalfAppliedIsHarmless == Spec => []HalfAppliedDegrades
<1>1. Init => QuietInv
  <2> SUFFICES ASSUME Init PROVE ShrinkInv /\ PrefixInv
    BY DEF QuietInv
  <2> QED BY DEF Init, ShrinkInv, Shrunk, PrefixInv
<1>2. IInv /\ QuietInv => HalfAppliedDegrades
  BY ShrunkVerdicts DEF IInv, QuietInv, HalfAppliedDegrades
<1> QED BY <1>1, <1>2, QuietStep, Inductive, PTL DEF Spec

-----------------------------------------------------------------------------
(***************************************************************************)
(* A plan is all of the planned ops.                                       *)
(***************************************************************************)

LEMMA SetToSeqsRange ==
    ASSUME NEW S, IsFiniteSet(S), NEW s \in SetToSeqs(S)
    PROVE  Range(s) = S
<1> DEFINE D == 1 .. Cardinality(S)
<1>1. Cardinality(S) \in Nat
  BY FS_CardinalityType
<1>2. IsFiniteSet(D) /\ Cardinality(D) = Cardinality(S)
  BY <1>1, FS_Interval
<1>3. s \in Injection(D, S)
  BY DEF SetToSeqs, Injection, IsInjective
<1> HIDE DEF D
<1>4. s \in Surjection(D, S)
  BY <1>2, <1>3, FS_Injection
<1> QED BY <1>4 DEF Surjection, Range

LEMMA PlansRange ==
    ASSUME NEW issues \in SUBSET Issue, NEW o \in Plans(issues)
    PROVE  Range(o) = PlannedOps(issues)
<1> DEFINE P == PlannedOps(issues)
           orphans == {x \in P : x.category = "C1"}
<1>1. IsFiniteSet(orphans) /\ IsFiniteSet(P \ orphans)
  <2>1. P \subseteq CleanOp
    BY PlannedOpsType
  <2>2. orphans \subseteq CleanOp /\ P \ orphans \subseteq CleanOp
    BY <2>1
  <2> HIDE DEF P, orphans
  <2> QED BY <2>2, CleanOpFinite, FS_Subset
<1>2. PICK s \in SetToSeqs(P \ orphans), t \in SetToSeqs(orphans) : o = s \o t
  BY DEF Plans
<1>3. orphans \subseteq P
  OBVIOUS
<1> HIDE DEF orphans, P
<1>4. s \in Seq(P \ orphans) /\ t \in Seq(orphans)
  BY <1>1, <1>2, SetToSeqsType
<1>5. Range(s) = P \ orphans /\ Range(t) = orphans
  BY <1>1, <1>2, SetToSeqsRange
<1>6. Range(o) = Range(s) \union Range(t)
  <2>1. /\ DOMAIN s = 1 .. Len(s) /\ DOMAIN t = 1 .. Len(t)
        /\ Len(s) \in Nat /\ Len(t) \in Nat
    BY <1>4
  <2>2. /\ DOMAIN o = 1 .. Len(s) + Len(t)
        /\ \A i \in 1 .. Len(s) : o[i] = s[i]
        /\ \A i \in 1 .. Len(t) : o[Len(s) + i] = t[i]
    BY <1>2, <1>4
  <2>3. \A i \in DOMAIN o : \/ i \in 1 .. Len(s)
                            \/ i - Len(s) \in 1 .. Len(t)
    BY <2>1, <2>2
  <2>4. \A i \in DOMAIN o : o[i] \in Range(s) \union Range(t)
    <3>1. ASSUME NEW i \in DOMAIN o, i - Len(s) \in 1 .. Len(t)
          PROVE  o[i] = t[i - Len(s)]
      <4>1. i = Len(s) + (i - Len(s))
        BY <2>1, <2>2
      <4> QED BY <2>2, <3>1, <4>1
    <3> QED BY <2>1, <2>2, <2>3, <3>1 DEF Range
  <2>5. \A i \in 1 .. Len(s) : i \in DOMAIN o
    BY <2>1, <2>2
  <2>6. \A i \in 1 .. Len(t) : Len(s) + i \in DOMAIN o
    BY <2>1, <2>2
  <2>7. Range(s) \union Range(t) \subseteq Range(o)
    BY <2>1, <2>2, <2>5, <2>6 DEF Range
  <2> QED BY <2>4, <2>7 DEF Range
<1> QED BY <1>3, <1>5, <1>6 DEF P

-----------------------------------------------------------------------------
(***************************************************************************)
(* What a call leaves that has executed all of its plan.                   *)
(***************************************************************************)

\* Every pair whose verdict is eligible has its op.
LEMMA PairIsPlanned ==
    ASSUME TypeOK, NEW p \in Pairs(snapshot),
           PairCategory(snapshot, fs, p) # "OK",
           \/ clear_internal_garbage
           \/ PairCategory(snapshot, fs, p) \in {"C4", "C5"}
    PROVE  \E o \in PlannedOps(Issues) :
              /\ o.category = PairCategory(snapshot, fs, p)
              /\ <<o.repo, o.digest>> = p /\ o.repo \in Repos
<1> DEFINE cat == PairCategory(snapshot, fs, p)
           i == MkIssue(snapshot, fs, cat, p[2], p[1])
<1>1. p \in Pair
  BY DEF TypeOK, RedisState, Pairs
<1>2. i \in Issues
  BY DEF Issues, Classify, PairIssues
<1>3. cat \in {"OK", "C2", "C3", "C4", "C5", "C6"}
  BY DEF PairCategory
<1>4. i.category = cat /\ i.digest = p[2] /\ i.repo = p[1]
  BY DEF MkIssue
<1>5. cat \in Eligible
  BY <1>3 DEF Eligible, InternalGarbage, RealFailures
<1>6. p[1] \in Repos /\ p[1] # None /\ p = <<p[1], p[2]>>
  BY <1>1, SpecialValues DEF Pair
<1> HIDE DEF cat, i
<1>7. ToCleanOp(i) \in PlannedOps(Issues)
  BY <1>2, <1>4, <1>5, <1>6 DEF PlannedOps
<1>8. /\ ToCleanOp(i).category = cat /\ ToCleanOp(i).digest = p[2]
      /\ ToCleanOp(i).repo = p[1]
  BY <1>4 DEF ToCleanOp
<1> QED BY <1>6, <1>7, <1>8 DEF cat

LEMMA OrphanIsPlanned ==
    ASSUME TypeOK, NEW d \in GlobalOrphans(snapshot), clear_internal_garbage
    PROVE  \E o \in PlannedOps(Issues) : o.category = "C1" /\ o.digest = d
<1> DEFINE i == MkIssue(snapshot, fs, "C1", d, None)
<1>1. i \in Issues
  BY DEF Issues, Classify, OrphanIssues
<1>2. i.category = "C1" /\ i.digest = d
  BY DEF MkIssue
<1> HIDE DEF i
<1>3. ToCleanOp(i) \in PlannedOps(Issues)
  BY <1>1, <1>2 DEF PlannedOps, Eligible, InternalGarbage, RepoScoped
<1> QED BY <1>2, <1>3 DEF ToCleanOp

\* Each command of each planned op has taken effect.
AllGone ==
    \A o \in PlannedOps(Issues) :
        \A k \in 1 .. Len(QueueOp(o)) : Gone(redis, QueueOp(o)[k])

\* The commands of an op that are gone, by its category.
LEMMA OpGone ==
    ASSUME TypeOK, AllGone, NEW o \in PlannedOps(Issues)
    PROVE  /\ redis.global_blobs[o.digest] = NoKey
           /\ o.category # "C1" =>
                 <<o.repo, o.digest>> \notin redis.repo_blob_hashes
           /\ o.category \in NeedsSrem =>
                 <<o.repo, o.digest>> \notin redis.repo_blob_sets
<1> DEFINE p == <<o.repo, o.digest>>
<1>1. \A k \in 1 .. Len(QueueOp(o)) : Gone(redis, QueueOp(o)[k])
  BY DEF AllGone
<1>2. CASE o.category = "C1"
  <2>1. QueueOp(o) = <<Hdel(o.digest)>>
    BY <1>2 DEF QueueOp
  <2>2. Gone(redis, Hdel(o.digest))
    BY <1>1, <2>1
  <2> QED BY <1>2, <2>2 DEF Gone, Hdel, NeedsSrem
<1>3. CASE o.category # "C1" /\ o.category \in NeedsSrem
  <2>1. QueueOp(o) = <<Srem(p), Del(p), Hdel(o.digest)>>
    BY <1>3 DEF QueueOp
  <2>2. /\ Len(QueueOp(o)) = 3 /\ QueueOp(o)[1] = Srem(p)
        /\ QueueOp(o)[2] = Del(p) /\ QueueOp(o)[3] = Hdel(o.digest)
    BY <2>1
  <2>3. Gone(redis, Srem(p)) /\ Gone(redis, Del(p)) /\ Gone(redis, Hdel(o.digest))
    BY <1>1, <2>2
  <2> QED BY <2>3 DEF Gone, Srem, Del, Hdel
<1>4. CASE o.category # "C1" /\ o.category \notin NeedsSrem
  <2>1. QueueOp(o) = <<Del(p), Hdel(o.digest)>>
    BY <1>4 DEF QueueOp
  <2>2. /\ Len(QueueOp(o)) = 2
        /\ QueueOp(o)[1] = Del(p) /\ QueueOp(o)[2] = Hdel(o.digest)
    BY <2>1
  <2>3. Gone(redis, Del(p)) /\ Gone(redis, Hdel(o.digest))
    BY <1>1, <2>2
  <2> QED BY <1>4, <2>3 DEF Gone, Del, Hdel
<1> QED BY <1>2, <1>3, <1>4

\* A pair with an op is gone altogether.
LEMMA PlannedPairIsGone ==
    ASSUME TypeOK, Shrunk(redis, snapshot), AllGone, NEW p \in Pairs(snapshot),
           PairCategory(snapshot, fs, p) # "OK",
           \/ clear_internal_garbage
           \/ PairCategory(snapshot, fs, p) \in {"C4", "C5"}
    PROVE  p \notin Pairs(redis) /\ redis.global_blobs[p[2]] = NoKey
<1>1. PICK o \in PlannedOps(Issues) :
         /\ o.category = PairCategory(snapshot, fs, p)
         /\ <<o.repo, o.digest>> = p
  BY PairIsPlanned
<1>2. PairCategory(snapshot, fs, p) \in {"C2", "C3", "C4", "C5", "C6"}
  BY DEF PairCategory
<1>3. redis.global_blobs[o.digest] = NoKey /\ p \notin redis.repo_blob_hashes
  BY <1>1, <1>2, OpGone
<1>4. p \notin redis.repo_blob_sets
  <2>1. CASE PairCategory(snapshot, fs, p) = "C6"
    <3>1. p \notin snapshot.repo_blob_sets
      BY <2>1 DEF PairCategory
    <3> QED BY <3>1 DEF Shrunk
  <2>2. CASE PairCategory(snapshot, fs, p) # "C6"
    BY <1>1, <1>2, <2>2, OpGone DEF NeedsSrem
  <2> QED BY <2>1, <2>2
<1>5. o.digest = p[2]
  BY <1>1
<1> QED BY <1>3, <1>4, <1>5 DEF Pairs

\* The plan misses no eligible issue.
CompleteInv == pc # "plan" => Range(ops) = PlannedOps(Issues)

\* The plan stays what it is while the call does.
LEMMA PlannedStay ==
    ASSUME UNCHANGED call
    PROVE  Issues' = Issues /\ PlannedOps(Issues)' = PlannedOps(Issues)
BY DEF call, Issues, PlannedOps, Eligible

\* A call that has just scanned, in whatever state of the cache.
LEMMA FreshCall ==
    ASSUME redis' \in RedisState, snapshot' \in RedisState, fs' \in FsState,
           dry_run' \in BOOLEAN, clear_internal_garbage' \in BOOLEAN,
           writes' \in 0 .. MaxWrites, rewritten' \subseteq Command,
           pc' = "plan", ops' = <<>>, start' = 1, attempts' = 0,
           applied' = 0, retried' = 0, failures' = <<>>, wire' = <<>>
    PROVE  IInv' /\ PrefixInv' /\ CompleteInv'
<1>1. TypeOK'
  BY CleanAssumption DEF TypeOK, MaxAttempts
<1>2. PlanInv' /\ WireInv' /\ CurrentInv' /\ AppliedIsGone'
  BY DEF PlanInv, WireInv, CurrentInv, AppliedIsGone
<1>3. LoopInv'
  BY DEF LoopInv
<1>4. PrefixInv' /\ CompleteInv'
  BY DEF PrefixInv, CompleteInv
<1> QED BY <1>1, <1>2, <1>3, <1>4 DEF IInv

LEMMA CompleteStep ==
    ASSUME IInv, CompleteInv, [Next]_vars
    PROVE  CompleteInv'
<1>1. UNCHANGED call
  BY RegistryKeeps DEF IInv, Next, Plan, Send, Serve, ExecuteOk, ExecuteErrorRetry,
                       ExecuteErrorGiveUp, Abort, vars, local
<1>2. PlannedOps(Issues)' = PlannedOps(Issues)
  BY <1>1, PlannedStay
<1>3. CASE Plan
  <2>1. ops' \in Plans(Issues) /\ Issues \in SUBSET Issue
    BY <1>3, ClassifyType DEF Plan, Issues, IInv, TypeOK
  <2>2. Range(ops') = PlannedOps(Issues)
    BY <2>1, PlansRange
  <2> QED BY <1>2, <2>2 DEF CompleteInv
<1>4. CASE ~Plan
  <2>1. ops' = ops /\ (pc' # "plan" => pc # "plan")
    BY <1>4, RegistryKeeps
       DEF IInv, Next, Send, Serve, ExecuteOk, ExecuteErrorRetry,
           ExecuteErrorGiveUp, Abort, vars, local
  <2> QED BY <1>2, <2>1 DEF CompleteInv
<1> QED BY <1>3, <1>4

\* A call that has returned without a failure has made its whole plan
\* effective.
LEMMA DoneMeansGone ==
    ASSUME IInv, CompleteInv, pc = "done", ~dry_run, failures = <<>>,
           rewritten = {}
    PROVE  AllGone
<1> SUFFICES ASSUME NEW o \in PlannedOps(Issues),
                    NEW k \in 1 .. Len(QueueOp(o))
             PROVE  Gone(redis, QueueOp(o)[k])
  BY DEF AllGone
<1>1. /\ ops \in Seq(CleanOp) /\ Len(ops) \in Nat
      /\ DOMAIN ops = 1 .. Len(ops) /\ start \in Nat
  BY DEF IInv, TypeOK
<1>2. o \in Range(ops)
  BY DEF CompleteInv
<1>3. PICK i \in 1 .. Len(ops) : ops[i] = o
  BY <1>1, <1>2 DEF Range
<1>4. i < start
  <2>1. start > Len(ops)
    BY DEF IInv, LoopInv
  <2> QED BY <1>1, <2>1
<1>5. ops[i] \notin Range(failures)
  BY DEF Range
<1> QED BY <1>3, <1>4, <1>5 DEF IInv, AppliedIsGone

=============================================================================
