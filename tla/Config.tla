------------------------------- MODULE Config -------------------------------
(***************************************************************************)
(* rcd.config and the flags that override it: how a command comes by its   *)
(* settings.  find_config picks one file; load_config converts and checks  *)
(* it section by section.  Every check that fails ends the command with a  *)
(* tool error; which one is the first, and its message, are left out.  So  *)
(* are the options that bool() converts: whatever stands in the file, one  *)
(* of the two values comes out, and modules Clean and Command take either; *)
(* and the socket timeouts, ports and database numbers, which are          *)
(* converted and not checked.                                              *)
(* Definitions marked "Slip" are mistakes that the properties must see.    *)
(***************************************************************************)
EXTENDS Integers, SequencesExt

CONSTANTS Names,          \* registry names, after str()
          MaxRegistries   \* bound: [[registry]] tables in a file

ASSUME ConfigAssumption == MaxRegistries \in Nat

VARIABLES pc,          \* the next step, "ready" or "failed"
          present,     \* places of the search order where there is a file
          named,       \* places that --config and RCD_CONFIG name
          path,        \* the place chosen
          scan_count,  \* [redis].scan_count, the COUNT of SCAN
          batch,       \* [redis].pipeline_batch
          parallel,    \* [scan].parallel, or --parallel
          retry,       \* [clean].retry
          registries   \* the [[registry]] tables so far

vars == <<pc, present, named, path, scan_count, batch, parallel, retry, registries>>

\* The search order; the user names the first two.
Places == <<"--config", "RCD_CONFIG", "cwd", "user config">>
Named  == {"--config", "RCD_CONFIG"}

\* A value of the file: its TOML type and what int() makes of it.  int() cuts
\* off a fraction, reads a numeral, takes true for 1, and raises on the rest.
Values == {<<"integer", i>> : i \in -1 .. 2}
            \union {<<"fraction", 0>>, <<"numeral", 2>>, <<"boolean", 1>>, <<"text", 2>>}

\* Slip: the range is checked before the fraction is cut off.
AtLeastUncut(least, v) == v[1] # "text" /\ (v[2] >= least \/ v[1] = "fraction")

AtLeast(least, v) == v[1] # "text" /\ v[2] >= least

Accepted(least) == {v[2] : v \in {w \in Values : AtLeast(least, w)}}

\* Slip: a name that is no text stays what it is.
RegistryConfigAsIs == [name : Names \union {1}, enabled : BOOLEAN]

RegistryConfig == [name : Names, enabled : BOOLEAN]

TypeOK ==
    /\ pc \in {"find", "open", "redis", "scan", "clean", "registry", "flags",
               "ready", "failed"}
    /\ present \subseteq Range(Places)
    /\ named \subseteq Named
    /\ path \in Range(Places) \union {"none"}
    /\ scan_count \in Int /\ batch \in Int /\ parallel \in Int /\ retry \in Int
    /\ registries \in Seq([name : Names, enabled : BOOLEAN])

\* The options have their defaults until a section replaces them.
Init ==
    /\ pc = "find"
    /\ present \in SUBSET Range(Places)
    /\ named \in SUBSET Named
    /\ path = "none"
    /\ scan_count = 1000 /\ batch = 200 /\ parallel = 0 /\ retry = 1
    /\ registries = <<>>

-----------------------------------------------------------------------------
\* find_config

\* Slip: a named file that does not exist is passed over.
CandidatesPresent == {i \in DOMAIN Places : Places[i] \in present \ (Named \ named)}

\* A named file is taken unseen, the others when they exist.
Candidates == {i \in DOMAIN Places : Places[i] \in named \union (present \ Named)}

Find ==
    /\ pc = "find"
    /\ \E i \in Candidates : /\ \A j \in Candidates : i <= j
                             /\ path' = Places[i]
    /\ pc' = "open"
    /\ UNCHANGED <<present, named, scan_count, batch, parallel, retry, registries>>

\* The file exists, is TOML, has no unknown key and schema_version 1.
Open ==
    /\ pc = "open"
    /\ path \in present
    /\ pc' = "redis"
    /\ UNCHANGED <<present, named, path, scan_count, batch, parallel, retry, registries>>

\* _redis_options, _scan_options, _clean_options
RedisOptions ==
    /\ pc = "redis"
    /\ scan_count' \in Accepted(1) \union {scan_count}
    /\ batch' \in Accepted(1) \union {batch}
    /\ pc' = "scan"
    /\ UNCHANGED <<present, named, path, parallel, retry, registries>>

ScanOptions ==
    /\ pc = "scan"
    /\ parallel' \in Accepted(0) \union {parallel}
    /\ pc' = "clean"
    /\ UNCHANGED <<present, named, path, scan_count, batch, retry, registries>>

CleanOptions ==
    /\ pc = "clean"
    /\ retry' \in Accepted(0) \union {retry}
    /\ pc' = "registry"
    /\ UNCHANGED <<present, named, path, scan_count, batch, parallel, registries>>

\* _registry_config, for one table after the other
ReadRegistry ==
    /\ pc = "registry"
    /\ Len(registries) < MaxRegistries
    /\ \E r \in RegistryConfig : registries' = Append(registries, r)
    /\ UNCHANGED <<pc, present, named, path, scan_count, batch, parallel, retry>>

\* Slip: registries that are disabled may share a name.
UniqueNamesEnabled ==
    \A i, j \in DOMAIN registries : registries[i] = registries[j] => i = j

UniqueNames ==
    \A i, j \in DOMAIN registries : registries[i].name = registries[j].name => i = j

RegistriesRead ==
    /\ pc = "registry"
    /\ registries # <<>>
    /\ UniqueNames
    /\ pc' = "flags"
    /\ UNCHANGED <<present, named, path, scan_count, batch, parallel, retry, registries>>

\* --parallel wins, and is not checked.
Flags ==
    /\ pc = "flags"
    /\ parallel' \in {-1, 0, 2} \union {parallel}
    /\ pc' = "ready"
    /\ UNCHANGED <<present, named, path, scan_count, batch, retry, registries>>

\* No file, or a check or a conversion that fails.
Fail ==
    /\ pc \notin {"flags", "ready", "failed"}
    /\ pc' = "failed"
    /\ UNCHANGED <<present, named, path, scan_count, batch, parallel, retry, registries>>

Next == \/ Find \/ Open \/ RedisOptions \/ ScanOptions \/ CleanOptions
        \/ ReadRegistry \/ RegistriesRead \/ Flags \/ Fail

Spec == Init /\ [][Next]_vars

-----------------------------------------------------------------------------
\* Three settings of a command that goes on are in the range that RedisScan and
\* Clean rely on: SCAN is asked for at least one key (Redis refuses COUNT 0), a
\* pipeline has room for an op (range() would raise on a step of zero), and
\* every chunk is attempted once.  --parallel is not checked, and needs not be:
\* Orchestrator takes any integer.
SettingsAreInRange ==
    pc = "ready" => /\ scan_count \in Nat \ {0}
                    /\ batch \in Nat \ {0}
                    /\ retry \in Nat

\* _cmd_clean keeps no registry but the name in a report, and looks the client
\* up by that name, where the last table of a name wins: it is the registry
\* that was scanned.  Issues of one registry never reach another one's Redis.
ByName(name) ==
    CHOOSE i \in DOMAIN registries :
        /\ registries[i].name = name
        /\ \A j \in DOMAIN registries : registries[j].name = name => j <= i

ClientIsOfScannedRegistry ==
    pc = "ready" =>
        \A i \in DOMAIN registries :
            registries[i].enabled => ByName(registries[i].name) = i

\* A file that the user has named and that is not there stops the command; it
\* never goes on with the settings of another file.
NoOtherFile ==
    pc = "ready" =>
        \A i \in DOMAIN Places : Places[i] \in named =>
            \E j \in 1 .. i : path = Places[j] /\ path \in named
=============================================================================
