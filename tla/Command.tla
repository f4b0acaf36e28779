------------------------------- MODULE Command -------------------------------
(***************************************************************************)
(* rcd.cli: one `rcd scan` or `rcd clean` over all registries, and what    *)
(* cron makes of it.  The command loads the configuration, lets the        *)
(* orchestrator scan, writes one event for each report and a summary, and, *)
(* for `clean`, plans and executes one registry after the other; an error  *)
(* there skips to the next.  Of a report and of a call of clean_registry   *)
(* (module Clean), what the exit code depends on is kept.                  *)
(* Definitions marked "Slip" are mistakes that the properties must see.    *)
(***************************************************************************)
EXTENDS Orchestrator, SequencesExt

VARIABLES
    args,          \* the arguments, merged with the configuration
    drift,         \* what the classifier has found in each registry
    pc,            \* "parse", "load", "scan", "emit", "clean", "report", "exit"
    stdout,        \* the events written, which a buffer may hold till the end
    current,       \* the registry being cleaned, or 0
    outcome,       \* how the loop of `clean` has dealt with each registry
    exit_code

vars == <<scanVars, args, drift, pc, stdout, current, outcome, exit_code>>

EXIT_OK                  == 0
EXIT_TOOL_ERROR          == 1
EXIT_DRIFT               == 2
EXIT_STRICT_REAL_FAILURE == 3
EXIT_STRICT_CLEAN_FAILED == 4
EXIT_USAGE               == 2   \* of argparse
EXIT_FLUSH               == 120 \* of the interpreter

Arguments == [command : {"scan", "clean", "version"}, dry_run : BOOLEAN,
              strict : BOOLEAN, clear_internal_garbage : BOOLEAN]

\* C1, C2, C3 and C6; C4 and C5; C7.
Kinds == {"garbage", "real", "c7"}

\* What plan_clean leaves of a registry's issues.
Planned(r) == drift[r] \intersect
                 IF args.clear_internal_garbage THEN {"garbage", "real"} ELSE {"real"}

Outcomes(r) == IF Planned(r) = {} THEN {"empty"}
               ELSE IF args.dry_run THEN {"planned"} ELSE {"applied", "failed"}

\* clean_registry has returned a report.
Returned == {"empty", "planned", "applied", "failed"}

ScanCompleted(r)  == [event |-> "scan_completed", registry |-> r]
RunSummary        == [event |-> "run_summary", registry |-> 0]
CleanCompleted(r) == [event |-> "clean_completed", registry |-> r]

Event == [event : {"scan_completed", "run_summary", "clean_completed"},
          registry : 0 .. N]

TypeOK ==
    /\ ScanTypeOK
    /\ args \in Arguments
    /\ drift \in [Registries -> SUBSET Kinds]
    /\ pc \in {"parse", "load", "scan", "emit", "clean", "report", "exit"}
    /\ stdout \in Seq(Event)
    /\ current \in enabled \union {0}
    /\ outcome \in [Registries -> Returned \union
                       {"none", "skipped", "refused", "exception"}]
    /\ exit_code \in (0 .. 4) \union {EXIT_FLUSH}

Init ==
    /\ ScanInit
    /\ args \in Arguments
    /\ drift = [r \in Registries |-> {}]
    /\ pc = "parse"
    /\ stdout = <<>>
    /\ current = 0
    /\ outcome = [r \in Registries |-> "none"]
    /\ exit_code = EXIT_OK

-----------------------------------------------------------------------------
\* The categories that the counts of all reports add up to.
Totals == UNION {drift[r] : r \in enabled}

ScanExitCode ==
    IF enabled # {} /\ \A r \in enabled : reports[r] = "error"
    THEN EXIT_TOOL_ERROR
    ELSE IF args.strict /\ "real" \in Totals THEN EXIT_STRICT_REAL_FAILURE
    ELSE IF Totals \intersect {"garbage", "real"} # {} THEN EXIT_DRIFT
    ELSE EXIT_OK

\* The sums run over the registries whose clean has returned.
AnyFailed  == \E r \in enabled : outcome[r] = "failed"
AnyPlanned == \E r \in enabled : outcome[r] \in Returned \ {"empty"}

\* Slip: a failure is drift before anybody asks for --strict.
CleanExitCodeLate ==
    IF (args.dry_run /\ AnyPlanned) \/ AnyFailed THEN EXIT_DRIFT
    ELSE IF args.strict /\ AnyFailed THEN EXIT_STRICT_CLEAN_FAILED ELSE EXIT_OK

CleanExitCode ==
    IF args.strict /\ AnyFailed THEN EXIT_STRICT_CLEAN_FAILED
    ELSE IF args.dry_run /\ AnyPlanned THEN EXIT_DRIFT
    ELSE IF ~args.dry_run /\ AnyFailed THEN EXIT_DRIFT
    ELSE EXIT_OK

\* rcd-cron-exec, the status that supercronic sees.
CronStatus == IF exit_code = 2 THEN 0 ELSE exit_code

Exit(code) == pc' = "exit" /\ exit_code' = code

Write(event) == stdout' = Append(stdout, event)

-----------------------------------------------------------------------------
\* argparse does not return, or there is nothing to load.
UsageError ==
    /\ pc = "parse"
    /\ Exit(EXIT_USAGE)
    /\ UNCHANGED <<scanVars, args, drift, stdout, current, outcome>>

Parse ==
    /\ pc = "parse"
    /\ IF args.command = "version" THEN Exit(EXIT_OK)
                                   ELSE pc' = "load" /\ UNCHANGED exit_code
    /\ UNCHANGED <<scanVars, args, drift, stdout, current, outcome>>

\* A configuration is found and valid, or it is not.
Load ==
    /\ pc = "load"
    /\ \/ pc' = "scan" /\ UNCHANGED exit_code
       \/ Exit(EXIT_TOOL_ERROR)
    /\ UNCHANGED <<scanVars, args, drift, stdout, current, outcome>>

\* asyncio.run(scan_registries(...)), and a thread that it has left behind.
During(step) ==
    /\ step
    /\ UNCHANGED <<args, drift, pc, stdout, current, outcome, exit_code>>

Scan     == pc = "scan" /\ During(ScanNext)
Straggle == pc \in {"emit", "clean", "report"} /\ During(\E h \in Half : ThreadEnds(h))

\* The reports are there; one that carries errors has no issues.
ScanReturned ==
    /\ pc = "scan" /\ phase = "over" /\ ~interrupted
    /\ drift' \in [Registries -> SUBSET Kinds]
    /\ \A r \in Registries : reports[r] # "whole" => drift'[r] = {}
    /\ pc' = "emit"
    /\ UNCHANGED <<scanVars, args, stdout, current, outcome, exit_code>>

\* `except Exception` around asyncio.run: no event loop can be had.  What goes
\* wrong later is in a report.
ScanRaises ==
    /\ pc = "scan" /\ \A r \in Registries : task[r] = "waiting"
    /\ Exit(EXIT_TOOL_ERROR)
    /\ UNCHANGED <<scanVars, args, drift, stdout, current, outcome>>

ScanInterrupted ==
    /\ pc = "scan" /\ phase = "over" /\ interrupted
    /\ Exit(EXIT_TOOL_ERROR)
    /\ UNCHANGED <<scanVars, args, drift, stdout, current, outcome>>

\* The loops run over the reports, in the order of the configuration.
First(r, rest) == r \in rest /\ \A other \in rest : r <= other

EmitScanCompleted(r) ==
    /\ pc = "emit"
    /\ First(r, {q \in enabled : ScanCompleted(q) \notin Range(stdout)})
    /\ Write(ScanCompleted(r))
    /\ UNCHANGED <<scanVars, args, drift, pc, current, outcome, exit_code>>

EmitRunSummary ==
    /\ pc = "emit"
    /\ \A r \in enabled : ScanCompleted(r) \in Range(stdout)
    /\ Write(RunSummary)
    /\ IF args.command = "scan" THEN Exit(ScanExitCode)
                                ELSE pc' = "clean" /\ UNCHANGED exit_code
    /\ UNCHANGED <<scanVars, args, drift, current, outcome>>

-----------------------------------------------------------------------------
\* The loop of `clean`

Unreached == {r \in enabled : outcome[r] = "none"}

\* Slip: a report that carries errors is cleaned all the same.
CleanableAny(r) == reports[r] # "none"

Cleanable(r) == reports[r] = "whole"

Deals(r, how) == outcome' = [outcome EXCEPT ![r] = how]

CleanStarts(r) ==
    /\ pc = "clean" /\ current = 0
    /\ First(r, Unreached)
    /\ Cleanable(r)
    /\ current' = r
    /\ UNCHANGED <<scanVars, args, drift, pc, stdout, outcome, exit_code>>

\* The report carries errors, or the client cannot be built.
CleanSkips(r) ==
    /\ pc = "clean" /\ current = 0
    /\ First(r, Unreached)
    /\ Deals(r, IF reports[r] = "error" THEN "skipped" ELSE "refused")
    /\ UNCHANGED <<scanVars, args, drift, pc, stdout, current, exit_code>>

CleanReturns ==
    /\ pc = "clean" /\ current # 0
    /\ \E how \in Outcomes(current) : Deals(current, how)
    /\ pc' = "report"
    /\ UNCHANGED <<scanVars, args, drift, stdout, current, exit_code>>

\* Slip: an exception ends the loop.
AfterExceptionOut == Exit(CleanExitCode)

AfterException == UNCHANGED <<pc, exit_code>>

\* Anything but RedisError and OSError leaves execute_clean at once.
CleanRaises ==
    /\ pc = "clean" /\ current # 0
    /\ Planned(current) # {} /\ ~args.dry_run
    /\ Deals(current, "exception")
    /\ current' = 0
    /\ AfterException
    /\ UNCHANGED <<scanVars, args, drift, stdout>>

EmitCleanCompleted ==
    /\ pc = "report"
    /\ Write(CleanCompleted(current))
    /\ current' = 0
    /\ pc' = "clean"
    /\ UNCHANGED <<scanVars, args, drift, outcome, exit_code>>

LoopEnds ==
    /\ pc = "clean" /\ current = 0
    /\ Unreached = {}
    /\ Exit(CleanExitCode)
    /\ UNCHANGED <<scanVars, args, drift, stdout, current, outcome>>

\* Slip: what main catches does not change the exit code.
EXIT_ABANDONED_SILENTLY == EXIT_OK

EXIT_ABANDONED == EXIT_TOOL_ERROR

\* main: a KeyboardInterrupt, or an exception of the output stream.
Abandoned ==
    /\ pc \in {"emit", "clean", "report"}
    /\ Exit(EXIT_ABANDONED)
    /\ UNCHANGED <<scanVars, args, drift, stdout, current, outcome>>

\* _write does not flush: what the buffer still holds at the end may fail to
\* go out when the interpreter has left main.
FlushFails ==
    /\ pc = "exit" /\ exit_code # EXIT_FLUSH
    /\ \E n \in 0 .. Len(stdout) - 1 : stdout' = SubSeq(stdout, 1, n)
    /\ Exit(EXIT_FLUSH)
    /\ UNCHANGED <<scanVars, args, drift, current, outcome>>

-----------------------------------------------------------------------------
Proceeds ==
    \/ Parse \/ Load \/ ScanReturned \/ ScanInterrupted
    \/ \E r \in Registries : EmitScanCompleted(r) \/ CleanStarts(r) \/ CleanSkips(r)
    \/ EmitRunSummary
    \/ CleanReturns \/ EmitCleanCompleted \/ LoopEnds

Next == \/ Proceeds \/ UsageError \/ Scan \/ Straggle \/ ScanRaises
        \/ CleanRaises \/ Abandoned \/ FlushFails

\* The main thread goes on, and so does the event loop; a thread of the pool
\* is an operating system thread, and both halves end: the Redis client has a
\* socket timeout and the tree is finite.
Fairness ==
    /\ WF_vars(Proceeds)
    /\ WF_vars(Scan /\ \E r \in Registries : Begins(r))
    /\ \A r \in Registries : WF_vars(Scan /\ Gathered(r))
    /\ WF_vars(Scan /\ ThreadTakes)
    /\ \A h \in Half : WF_vars(Scan /\ ThreadEnds(h))
    /\ WF_vars(Scan /\ (AllReported \/ LoopCloses))

Spec == Init /\ [][Next]_vars /\ Fairness

-----------------------------------------------------------------------------
\* No scan of a registry is under way while it is cleaned: what asyncio.run
\* leaves running belongs to a registry that the loop skips.
CleanNeverOverlapsScan ==
    current # 0 => \A h \in Half : h[1] = current => half[h] # "running"

\* A registry's trouble stays its own in the loop, too: when `clean` ends on
\* its own, it has tried every registry that was scanned whole, and no other.
EveryWholeScanIsCleaned ==
    (pc = "exit" /\ args.command = "clean" /\ RunSummary \in Range(stdout)
       /\ exit_code \notin {EXIT_TOOL_ERROR, EXIT_FLUSH})
    => \A r \in enabled :
          reports[r] = "whole" <=> outcome[r] \notin {"none", "skipped"}

\* An exit code other than 1 and 120 vouches for the output: after a scan, stdout has
\* one event for every registry, in order, then the summary, then one for
\* every clean that has returned, in order.  A clean whose event is missing
\* has changed Redis unseen.
Stage(e) == CASE e.event = "scan_completed"  -> 0
              [] e.event = "run_summary"     -> 1
              [] e.event = "clean_completed" -> 2

Precedes(a, b) == \/ Stage(a) < Stage(b)
                  \/ Stage(a) = Stage(b) /\ a.registry < b.registry

InOrder(events) == \A i, j \in 1 .. Len(events) :
                       i < j => Precedes(events[i], events[j])

EventsFor(cleaned) == {ScanCompleted(r) : r \in enabled} \union {RunSummary}
                        \union {CleanCompleted(r) : r \in cleaned}

OutputIsComplete ==
    (pc = "exit" /\ phase = "over" /\ exit_code \notin {EXIT_TOOL_ERROR, EXIT_FLUSH}) =>
        /\ Range(stdout) = EventsFor({r \in enabled : outcome[r] \in Returned})
        /\ InOrder(stdout)

\* A registry that the loop has logged and counted as nothing.
LoggedOnly == {"refused", "exception"}

\* What success means to cron under --strict: `scan` has found no real failure
\* in the registries it could scan, and `clean --apply` has applied all it had
\* planned for them, with two exceptions.  A registry whose client cannot be
\* built, or whose clean raises, is logged and counts as nothing: its status
\* is 0 though entries stay, which cli.py:31 and README.md:151-152, 221 do not
\* let on.  No other code gets in before 3 or 4 that rcd-cron-exec would turn
\* into success.
CronSeesStrictFailures ==
    (pc = "exit" /\ args.strict /\ CronStatus = 0) =>
        /\ args.command = "scan" => "real" \notin Totals
        /\ (args.command = "clean" /\ ~args.dry_run) =>
               \A r \in enabled : Planned(r) # {} => outcome[r] \in {"applied"} \union LoggedOnly

\* The command returns, whatever fails in it: the cap, the pool and the
\* halves left behind never block one another.
CommandReturns == <>(pc = "exit")

\* cli.py: "1 -- tool error (config invalid, all registries failed, etc.)".
AllFailedIsToolError ==
    (pc = "exit" /\ enabled # {} /\ \A r \in enabled : reports[r] = "error")
        => exit_code \in {EXIT_TOOL_ERROR, EXIT_FLUSH}

\* README.md on [clean].strict: "When false (default), permanent failures are
\* still logged but do not change the exit code".
LenientIgnoresFailures ==
    (pc = "exit" /\ ~args.dry_run /\ ~args.strict /\ AnyFailed)
        => exit_code \in {EXIT_OK, EXIT_TOOL_ERROR, EXIT_FLUSH}

\* rcd-cron-exec.sh: "the only "drift" exit (2) is normalised to 0, while
\* genuine failures (1) [...] propagate": a command that has not scanned
\* anything, because its command line is refused, is no success for cron.
RefusedIsSeen ==
    (pc = "exit" /\ args.command # "version" /\ phase # "over") => CronStatus # 0
=============================================================================
