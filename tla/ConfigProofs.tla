---------------------------- MODULE ConfigProofs ----------------------------
(***************************************************************************)
(* Proofs about module Config, for any names and any number of registries. *)
(* CInv adds to the types what each step has established.                  *)
(***************************************************************************)
EXTENDS Config, TLAPS

\* The path is the first place of the search order that is named, or that has
\* a file and is not for the user to name; from "open" on the file is there.
FirstInv ==
    pc \notin {"find", "failed"} =>
        \E i \in DOMAIN Places : /\ path = Places[i]
                                 /\ i \in Candidates
                                 /\ \A j \in Candidates : i <= j

PresentInv == pc \notin {"find", "open", "failed"} => path \in present

\* The defaults are in range, too.
RangeInv == scan_count \in Nat \ {0} /\ batch \in Nat \ {0} /\ retry \in Nat

NamesInv == pc \in {"flags", "ready"} => UniqueNames

CInv == TypeOK /\ FirstInv /\ PresentInv /\ RangeInv /\ NamesInv

-----------------------------------------------------------------------------
\* The user names the first two of four places.
LEMMA PlacesAre ==
    /\ DOMAIN Places = 1 .. 4
    /\ \A i \in 1 .. 4 : Places[i] \in Range(Places)
    /\ Places[1] \in Named /\ Places[2] \in Named
    /\ Places[3] \notin Named /\ Places[4] \notin Named
<1>1. DOMAIN Places = 1 .. 4
  BY DEF Places
<1>2. /\ Places[1] = "--config" /\ Places[2] = "RCD_CONFIG"
      /\ Places[3] = "cwd" /\ Places[4] = "user config"
  BY DEF Places
<1> QED
  BY <1>1, <1>2 DEF Range, Named

\* What a value of the file is converted to is in the range that is checked.
LEMMA AcceptedType ==
    /\ Accepted(1) \subseteq Nat \ {0}
    /\ Accepted(0) \subseteq Nat
BY DEF Accepted, Values, AtLeast

\* The initial states satisfy the invariant.
LEMMA CInvInit == Init => CInv
<1> SUFFICES ASSUME Init PROVE CInv
  OBVIOUS
<1>1. TypeOK
  <2>1. registries \in Seq([name : Names, enabled : BOOLEAN])
    BY DEF Init
  <2> QED
    BY <2>1 DEF Init, TypeOK
<1> QED
  BY <1>1 DEF Init, CInv, FirstInv, PresentInv, RangeInv, NamesInv

\* A file is chosen and opened.
LEMMA FindInv ==
    ASSUME CInv, Find \/ Open
    PROVE  CInv'
<1> USE DEF CInv, Find, Open
<1>1. Candidates' = Candidates
  BY DEF Candidates
<1>2. TypeOK'
  BY PlacesAre DEF TypeOK, Candidates
<1>3. FirstInv' /\ PresentInv'
  BY <1>1 DEF FirstInv, PresentInv, Candidates
<1>4. RangeInv' /\ NamesInv'
  BY DEF RangeInv, NamesInv
<1> QED
  BY <1>2, <1>3, <1>4

\* The sections are converted and checked; a flag replaces --parallel's.
LEMMA OptionsInv ==
    ASSUME CInv, RedisOptions \/ ScanOptions \/ CleanOptions \/ Flags
    PROVE  CInv'
<1> USE DEF CInv, RedisOptions, ScanOptions, CleanOptions, Flags
<1>1. RangeInv'
  BY AcceptedType DEF RangeInv
<1>2. TypeOK'
  BY AcceptedType DEF TypeOK
<1>3. FirstInv' /\ PresentInv'
  BY DEF FirstInv, PresentInv, Candidates
<1>4. NamesInv'
  BY DEF NamesInv, UniqueNames
<1> QED
  BY <1>1, <1>2, <1>3, <1>4

\* The registries are read, and their names compared; or a check fails.
LEMMA RegistriesInv ==
    ASSUME CInv, ReadRegistry \/ RegistriesRead \/ Fail \/ UNCHANGED vars
    PROVE  CInv'
<1> USE DEF CInv, ReadRegistry, RegistriesRead, Fail, vars
<1>1. TypeOK'
  <2>1. registries' \in Seq([name : Names, enabled : BOOLEAN])
    <3>1. registries \in Seq(RegistryConfig)
      BY DEF TypeOK, RegistryConfig
    <3>2. registries' \in Seq(RegistryConfig)
      BY <3>1
    <3> QED
      BY <3>2 DEF RegistryConfig
  <2> QED
    BY <2>1 DEF TypeOK
<1>2. FirstInv' /\ PresentInv'
  BY DEF FirstInv, PresentInv, Candidates
<1>3. RangeInv' /\ NamesInv'
  BY DEF RangeInv, NamesInv, UniqueNames
<1> QED
  BY <1>1, <1>2, <1>3

\* The invariant is one.
LEMMA CInvHolds == Spec => []CInv
<1>1. CInv /\ [Next]_vars => CInv'
  BY FindInv, OptionsInv, RegistriesInv DEF Next
<1> QED
  BY <1>1, CInvInit, PTL DEF Spec

-----------------------------------------------------------------------------
\* The settings keep their types.
THEOREM ConfigTypeCorrect == Spec => []TypeOK
<1>1. CInv => TypeOK
  BY DEF CInv
<1> QED
  BY <1>1, CInvHolds, PTL

\* scan_count, pipeline_batch and retry are in the range that SCAN and
\* execute_clean rely on, for every file that is accepted.  Nothing is said of
\* the settings that load_config does not check.
THEOREM SettingsInRange == Spec => []SettingsAreInRange
<1>1. CInv => SettingsAreInRange
  BY DEF CInv, RangeInv, SettingsAreInRange
<1> QED
  BY <1>1, CInvHolds, PTL

\* A registry's ops go to its own Redis: no other table has its name.
THEOREM OpsGoHome == Spec => []ClientIsOfScannedRegistry
<1>1. CInv => ClientIsOfScannedRegistry
  <2> SUFFICES ASSUME CInv, pc = "ready", NEW i \in DOMAIN registries
               PROVE  ByName(registries[i].name) = i
    BY DEF ClientIsOfScannedRegistry
  <2>1. \A j \in DOMAIN registries : registries[j].name = registries[i].name => j = i
    BY DEF CInv, NamesInv, UniqueNames
  <2>2. i \in Nat
    BY DEF CInv, TypeOK
  <2> QED
    BY <2>1, <2>2 DEF ByName
<1> QED
  BY <1>1, CInvHolds, PTL

\* A named file that is missing is never replaced by another one.
THEOREM NoOtherFileIsRead == Spec => []NoOtherFile
<1>1. CInv => NoOtherFile
  <2> SUFFICES ASSUME CInv, pc = "ready", NEW k \in DOMAIN Places, Places[k] \in named
               PROVE  \E j \in 1 .. k : path = Places[j] /\ path \in named
    BY DEF NoOtherFile
  <2>1. k \in Candidates
    BY DEF Candidates
  <2>2. PICK i \in DOMAIN Places : /\ path = Places[i]
                                   /\ i \in Candidates
                                   /\ \A j \in Candidates : i <= j
    BY DEF CInv, FirstInv
  <2>3. i \in 1 .. 4 /\ k \in 1 .. 4 /\ i <= k
    BY <2>1, <2>2, PlacesAre
  <2>4. Places[i] \in named
    <3>1. Places[k] \in Named
      BY DEF CInv, TypeOK
    <3>2. k = 1 \/ k = 2
      BY <2>3, <3>1, PlacesAre
    <3>3. Places[i] \in Named
      BY <2>3, <3>2, PlacesAre
    <3> QED
      BY <2>2, <3>3 DEF Candidates
  <2> QED
    BY <2>2, <2>3, <2>4
<1> QED
  BY <1>1, CInvHolds, PTL
=============================================================================
