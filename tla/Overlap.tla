------------------------------- MODULE Overlap -------------------------------
(***************************************************************************)
(* Two `rcd clean --apply` on one Redis at once: two containers, or a run  *)
(* that is not over when the next one starts.  Nothing keeps them apart.   *)
(* One of the two has scanned before the other one's first command: that   *)
(* is the first.  The other one scans at any time, key by key, amid the    *)
(* commands of the first one's call, so that its snapshot may be of no     *)
(* state that Redis was ever in; then both execute what they have planned. *)
(* The calls are two of module Clean, the scan is one of module RedisScan; *)
(* they share Redis, the storage tree, which stays as it is and looks the  *)
(* same to both, and the configuration.                                    *)
(***************************************************************************)
EXTENDS CleanProperties

VARIABLES scan_pc, todo, found, snapshot2,
          pc2, ops2, start2, attempts2, applied2, retried2, failures2, wire2

scan2  == <<scan_pc, todo, found, snapshot2>>
call2  == <<pc2, ops2, start2, attempts2, applied2, retried2, failures2, wire2>>
second == <<scan2, call2>>

Looking == INSTANCE RedisScan WITH snapshot <- snapshot2

Other == INSTANCE CleanProperties
    WITH snapshot <- snapshot2, pc <- pc2, ops <- ops2, start <- start2,
         attempts <- attempts2, applied <- applied2, retried <- retried2,
         failures <- failures2, wire <- wire2

OverlapTypeOK ==
    /\ TypeOK
    /\ snapshot2 \in RedisState
    /\ pc2 # "idle" => Other!TypeOK

OverlapInit ==
    /\ Init
    /\ ~dry_run
    /\ Looking!ThreadInit
    /\ pc2 = "idle"
    /\ ops2 = <<>> /\ start2 = 1 /\ attempts2 = 0
    /\ applied2 = 0 /\ retried2 = 0 /\ failures2 = <<>>
    /\ wire2 = <<>>

\* The second process scans; an error of its client is the end of it.
SecondScans ==
    /\ pc2 = "idle"
    /\ Looking!ScanRedis \/ Looking!ScanError
    /\ UNCHANGED <<vars, call2>>

\* Its scan is whole, and it calls clean_registry.
SecondCleans ==
    /\ pc2 = "idle" /\ scan_pc = "done"
    /\ pc2' = "plan"
    /\ UNCHANGED <<vars, scan2, ops2, start2, attempts2, applied2, retried2,
                   failures2, wire2>>

OverlapNext ==
    \/ SecondScans
    \/ SecondCleans
    \/ Next /\ UNCHANGED second
    \/ Other!Next /\ UNCHANGED <<local, wire, scan2>>

OverlapSpec == OverlapInit /\ [][OverlapNext]_<<vars, second>>

-----------------------------------------------------------------------------
\* What either call has counted as applied is gone, whatever the other one
\* does: the plans overlap, and an op may find its keys already removed.
BothAppliedAreGone == AppliedIsGone /\ Other!AppliedIsGone

\* The harmless verdicts stay harmless under two calls, too, as long as the
\* registry is quiet.  The one difference: a healthy pair that the first call
\* has made C2, by taking the shared global hash, may be in the second one's
\* plan, and vanish.
OverlapDegrades ==
    writes = 0 =>
        \A p \in Pair :
            LET before == Verdict(snapshot, p)
                now    == Verdict(redis, p)
            IN  before = now \/ <<before, now>> \in
                    Degrades \union {<<"OK", "C6">>, <<"OK", "none">>}

\* When both calls have returned without a failure, with internal garbage to
\* be cleared, they leave what one of them alone leaves: no real failure, and
\* no drift but C2 on pairs that were healthy before and whose digest the
\* first call has removed.
OverlapLeavesSharedC2 ==
    (/\ pc = "done" /\ pc2 = "done" /\ failures = <<>> /\ failures2 = <<>>
     /\ clear_internal_garbage /\ writes = 0)
    => \A i \in Classify(redis, fs) : i.category # "C7" =>
           /\ i.category = "C2"
           /\ Verdict(snapshot, <<i.repo, i.digest>>) = "OK"
           /\ \E o \in Range(ops) : o.digest = i.digest

\* To the registry's clients two calls are one: whatever the second one makes
\* of a state that the first has half cleaned, both evict only what the first
\* scan has condemned.
OverlapEvictsOnly == [][writes' = 0 => Evictions!Next]_(Evictions!vars)
=============================================================================
