------------------------------- MODULE Inspect -------------------------------
(***************************************************************************)
(* `rcd inspect --registry R --category C [--with-refs]`: a scan of one    *)
(* registry, whose issues of one category are written as events.  With     *)
(* --with-refs each event names the repositories that reference its        *)
(* digest; the first scan has not kept them, so the command scans Redis a  *)
(* second time, and the world goes on in between.                          *)
(* Definitions marked "Slip" are mistakes that the properties must see.    *)
(***************************************************************************)
EXTENDS Scan

VARIABLES stage,       \* "load", "scan", "rescan", "filter", "emit" or "exit"
          with_refs,   \* argument --with-refs
          target,      \* argument --category
          pending,     \* issues that are still to be written
          events,      \* what stdout has received
          exit_code

inspect == <<stage, with_refs, target, pending, events, exit_code>>

InspectTypeOK ==
    /\ TypeOK
    /\ stage \in {"load", "scan", "rescan", "filter", "emit", "exit"}
    /\ with_refs \in BOOLEAN
    /\ target \in Category
    /\ pending \subseteq Issue
    /\ exit_code \in {0, 1}

\* An argument gets its value in the action that reads it first.
InspectInit ==
    /\ Init
    /\ stage = "load"
    /\ with_refs = FALSE /\ target = "OK"
    /\ pending = {} /\ events = {}
    /\ exit_code = 0

Exit(code) == stage' = "exit" /\ exit_code' = code

\* The configuration is valid and enables the registry, or not.
Load ==
    /\ stage = "load"
    /\ \/ stage' = "scan" /\ UNCHANGED exit_code
       \/ Exit(1)
    /\ UNCHANGED <<vars, with_refs, target, pending, events>>

Scanning == stage \in {"scan", "rescan"} /\ scan_pc # "failed"

Threads == Scanning /\ (Thread \/ Walk) /\ UNCHANGED inspect

\* What happens in the world while nothing is scanned is not observed.
Elsewhere == Scanning /\ World /\ UNCHANGED inspect

\* An error of either scan or of the second client; an interrupt of a scan
\* ends in the same way.
ScanRaises ==
    /\ stage \in {"scan", "rescan"}
    /\ scan_pc = "failed"
    /\ Exit(1)
    /\ UNCHANGED <<vars, with_refs, target, pending, events>>

\* The first scan is classified, and its snapshot dropped.
ScanReturns ==
    /\ stage = "scan" /\ Scanned
    /\ with_refs' \in BOOLEAN
    /\ pending' = Classify(snapshot, fs)
    /\ IF with_refs' THEN /\ stage' = "rescan"
                          /\ scan_pc' = "globals" /\ todo' = KeysOf("globals")
                          /\ found' = {} /\ snapshot' = EmptyRedis
                     ELSE /\ stage' = "filter"
                          /\ UNCHANGED thread
    /\ UNCHANGED <<world, files, history, target, events, exit_code>>

RefsReturn ==
    /\ stage = "rescan" /\ Scanned
    /\ stage' = "filter"
    /\ UNCHANGED <<vars, with_refs, target, pending, events, exit_code>>

Filter ==
    /\ stage = "filter"
    /\ target' \in Category
    /\ pending' = {i \in pending : i.category = target'}
    /\ stage' = "emit"
    /\ UNCHANGED <<vars, with_refs, events, exit_code>>

\* Slip: the references are those of the repository hashes.
RefsByHash(d) == {repo \in Repos : <<repo, d>> \in snapshot.repo_blob_hashes}

\* refs_by_digest of the second scan.
RefsByDigest(d) == {repo \in Repos : <<repo, d>> \in snapshot.repo_blob_sets}

EmitInspect(i) ==
    /\ stage = "emit"
    /\ i \in pending
    /\ pending' = pending \ {i}
    /\ events' = events \union
          {[issue |-> i, refs |-> IF with_refs THEN RefsByDigest(i.digest) ELSE None]}
    /\ UNCHANGED <<vars, stage, with_refs, target, exit_code>>

Returns ==
    /\ stage = "emit"
    /\ pending = {}
    /\ Exit(0)
    /\ UNCHANGED <<vars, with_refs, target, pending, events>>

\* main: a KeyboardInterrupt, or an exception of the output stream.
Abandoned ==
    /\ stage \in {"filter", "emit"}
    /\ Exit(1)
    /\ UNCHANGED <<vars, with_refs, target, pending, events>>

Serial == \/ Load \/ ScanRaises \/ ScanReturns \/ RefsReturn \/ Filter
          \/ \E i \in pending : EmitInspect(i)
          \/ Returns

InspectNext == Serial \/ Threads \/ Elsewhere \/ Abandoned

inspectVars == <<vars, inspect>>

\* The command goes on, and both threads of a scan do.
InspectFairness ==
    /\ WF_inspectVars(Serial)
    /\ WF_inspectVars(Threads /\ Thread)
    /\ WF_inspectVars(Threads /\ Walk)

InspectSpec == InspectInit /\ [][InspectNext]_inspectVars /\ InspectFairness

-----------------------------------------------------------------------------
\* What the category of an issue says of the references to its digest.
References(i, repo) ==
    i.category \in {"C2", "C3", "C4", "C5"} /\ i.repo = repo

\* An event contradicts its own references, a C4 pair that nothing references
\* or a C1 orphan or C6 pair that its repository does, only when the reference
\* has come or gone between the beginning of one scan and the end of the other.
RefsDisagreeOnlyOnChange ==
    \A e \in events : e.refs # None =>
        \A repo \in Repos :
            (/\ (repo \in e.refs) # References(e.issue, repo)
             /\ e.issue.repo \in {None, repo})
            => <<"member", <<repo, e.issue.digest>>>> \in ever \ always

\* The category that a standing failure has at every moment, if it is one.
StandingCategory(p) ==
    LET sizes == {s \in Sizes : <<"file", p[2], s>> \in ever}
    IN  IF sizes = {} \/ ~mounted THEN "C4"
        ELSE IF \E s \in sizes : <<"file", p[2], s>> \in always THEN "C5"
        ELSE "unsettled"

\* A pair whose pull is broken all along, from the start of the first scan to
\* the end of the last, is among the events when its category is asked for and
\* the command succeeds; with --with-refs its own repository is among the
\* references of the event.
StandingFailureIsListed ==
    (stage = "exit" /\ exit_code = 0) =>
        \A p \in Pair : (StandingFailure(p) /\ target = StandingCategory(p)) =>
            \E e \in events : /\ <<e.issue.repo, e.issue.digest>> = p
                              /\ e.refs # None => p[1] \in e.refs

\* Both scans end and so does the command, though the world never rests.
InspectReturns == <>(stage = "exit")
=============================================================================
