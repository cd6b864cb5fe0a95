--------------------------- MODULE ProviderRuntime ---------------------------
(***************************************************************************)
(* How one process replaces a provider's application while it runs: a      *)
(* candidate registration is prepared, its sources are started, the        *)
(* configuration is saved, and the candidate is published                  *)
(* (src/src/provider-applications/index.ts over                            *)
(* internal/runtime-owner.ts). Operations of one process are serialised;   *)
(* another process may save meanwhile, and a process may die and start     *)
(* again. Requests are answered only after the start.                      *)
(***************************************************************************)
EXTENDS Integers, FiniteSets

CONSTANTS Registrations, None,
          MaxStored,   \* bound on saved versions
          MaxCrashes   \* bound on crashes

VARIABLES
  stored,    \* the version in runtime_provider_configuration
  slot,      \* slot.active
  version,   \* the configuration a registration was made of; 0: not made
  sources,   \* what the sources of a registration do
  accepting, \* acceptingEvents
  change,    \* the operation at the head of the provider's queue
  savedBy,   \* history: whose save each version is
  crashes

\* The bounds are numbers.
RuntimeAssumption ==
  None \notin Registrations /\ MaxStored \in Nat \ {0} /\ MaxCrashes \in Nat

vars == <<stored, slot, version, sources, accepting, change, savedBy, crashes>>

NoChange == [pc |-> "none", candidate |-> None, startup |-> FALSE]
Startup == [pc |-> "queued", candidate |-> None, startup |-> TRUE]

TypeOK ==
  /\ stored \in 0..MaxStored /\ slot \in Registrations \cup {None}
  /\ version \in [Registrations -> 0..(MaxStored + 1)]
  /\ sources \in [Registrations -> {"off", "starting", "on", "stopping"}]
  /\ accepting \in [Registrations -> BOOLEAN]
  /\ savedBy \in [1..MaxStored -> {"nobody", "other", "own"}]
  /\ change.pc \in {"none", "queued", "prepared", "started", "saved"}

Init ==
  /\ stored \in 0..1 /\ slot = None /\ change = Startup
  /\ version = [r \in Registrations |-> 0]
  /\ sources = [r \in Registrations |-> "off"]
  /\ accepting = [r \in Registrations |-> FALSE]
  /\ savedBy = [v \in 1..MaxStored |-> IF v <= stored THEN "other" ELSE "nobody"]
  /\ crashes = 0

\* stopSources: nothing is stopped that has not started.
Stopped(r) == IF r # None /\ sources[r] = "on" THEN [sources EXCEPT ![r] = "stopping"] ELSE sources

\* A registration that nothing refers to any more is as good as a new one.
Fresh == {r \in Registrations : r # slot /\ r # change.candidate /\ sources[r] = "off"}

-----------------------------------------------------------------------------

\* The operator's input was verified (verifyAndActivateProvider, configureSlackSocket)
\* or the provider's callback came (completeSlackInstallation, completeLinearInstallation).
BeginChange ==
  /\ change = NoChange
  /\ change' = [Startup EXCEPT !.startup = FALSE]
  /\ UNCHANGED <<stored, slot, version, sources, accepting, savedBy, crashes>>

\* prepare: of the stored configuration at a start, else of the one to be saved,
\* which expects the version that the page was loaded with.
Prepare(r, expected) ==
  /\ change.pc = "queued" /\ r \in Fresh /\ expected <= stored
  /\ change.startup => expected = stored /\ stored > 0
  /\ version' = [version EXCEPT ![r] = IF change.startup THEN stored ELSE expected + 1]
  /\ sources' = [sources EXCEPT ![r] = "starting"]
  /\ accepting' = [accepting EXCEPT ![r] = FALSE]
  /\ change' = [change EXCEPT !.pc = "prepared", !.candidate = r]
  /\ UNCHANGED <<stored, slot, savedBy, crashes>>

\* A process without a configuration has nothing to activate.
NothingStored ==
  /\ change.pc = "queued" /\ change.startup /\ stored = 0
  /\ change' = NoChange
  /\ UNCHANGED <<stored, slot, version, sources, accepting, savedBy, crashes>>

\* start
SourcesStart ==
  /\ change.pc = "prepared"
  /\ sources' = [sources EXCEPT ![change.candidate] = "on"]
  /\ change' = [change EXCEPT !.pc = "started"]
  /\ UNCHANGED <<stored, slot, version, accepting, savedBy, crashes>>

\* A source fails: those that had started are stopped again.
SourcesFail ==
  /\ change.pc = "prepared"
  /\ sources' = [sources EXCEPT ![change.candidate] = "off"]
  /\ change' = NoChange
  /\ UNCHANGED <<stored, slot, version, accepting, savedBy, crashes>>

\* Mutant: a version that another process has saved is overwritten.
OverwritesOther(r) == TRUE
\* save and its kind compare the expected version under the provider's lock; the
\* activation at a start compares identities, which agree here.
VersionMatches(r) == change.startup \/ version[r] = stored + 1

Save ==
  LET r == change.candidate IN
  /\ change.pc = "started" /\ VersionMatches(r) /\ version[r] <= MaxStored
  /\ stored' = IF change.startup THEN stored ELSE version[r]
  /\ savedBy' = IF change.startup THEN savedBy ELSE [savedBy EXCEPT ![version[r]] = "own"]
  /\ change' = [change EXCEPT !.pc = "saved"]
  /\ UNCHANGED <<slot, version, sources, accepting, crashes>>

\* Mutant: a failed save closes the active registration.
ClosedActive == Stopped(slot)
\* closeCandidate
ClosedCandidate == Stopped(change.candidate)

\* The save is refused or fails, and nothing of the active registration changes.
SaveFails ==
  /\ change.pc = "started"
  /\ sources' = ClosedCandidate
  /\ change' = NoChange
  /\ UNCHANGED <<stored, slot, version, accepting, savedBy, crashes>>

\* Mutant: the replaced registration's sources are left to their own.
LeftRunning == sources
\* stopSources(previous)
RetiredPrevious == Stopped(slot)

\* publish swaps the registrations without an await in between.
Publish ==
  LET r == change.candidate IN
  /\ change.pc = "saved"
  /\ slot' = r
  /\ accepting' = [x \in Registrations |-> x = r]
  /\ sources' = RetiredPrevious
  /\ change' = NoChange
  /\ UNCHANGED <<stored, version, savedBy, crashes>>

\* A stop is done, or fails and is reported; the source is silent either way.
SourcesStopped(r) ==
  /\ sources[r] = "stopping"
  /\ sources' = [sources EXCEPT ![r] = "off"]
  /\ UNCHANGED <<stored, slot, version, accepting, change, savedBy, crashes>>

-----------------------------------------------------------------------------

\* Another process saves: this one goes on with what it has.
SavedElsewhere ==
  /\ stored < MaxStored
  /\ stored' = stored + 1
  /\ savedBy' = [savedBy EXCEPT ![stored'] = "other"]
  /\ UNCHANGED <<slot, version, sources, accepting, change, crashes>>

\* The process dies and is started again: what was saved is activated.
CrashAndRestart ==
  /\ crashes < MaxCrashes
  /\ crashes' = crashes + 1
  /\ slot' = None /\ change' = Startup
  /\ version' = [r \in Registrations |-> 0]
  /\ sources' = [r \in Registrations |-> "off"]
  /\ accepting' = [r \in Registrations |-> FALSE]
  /\ UNCHANGED <<stored, savedBy>>

Proceeding ==
  \/ \E r \in Registrations, expected \in 0..MaxStored : Prepare(r, expected)
  \/ NothingStored \/ SourcesStart \/ SourcesFail \/ Save \/ SaveFails \/ Publish

Next ==
  \/ BeginChange \/ Proceeding \/ SavedElsewhere \/ CrashAndRestart
  \/ \E r \in Registrations : SourcesStopped(r)

\* Every call to a provider and every query has a deadline.
Fairness == WF_vars(Proceeding) /\ \A r \in Registrations : WF_vars(SourcesStopped(r))

Spec == Init /\ [][Next]_vars /\ Fairness

-----------------------------------------------------------------------------
(* Properties *)

\* Replacing an application leaves no gap, whatever fails on the way: once there is
\* a registration, the one in the slot listens and accepts, and no other accepts.
ReplacementHasNoGap ==
  slot # None =>
    /\ sources[slot] = "on" /\ accepting[slot]
    /\ \A r \in Registrations : accepting[r] => r = slot

\* Two processes that change the application at once never overwrite each other's
\* save unseen, however long the sources take to start in between.
SavesAreKept == [][\A v \in 1..MaxStored : savedBy[v] # "nobody" => savedBy'[v] = savedBy[v]]_vars

\* Sources that are not those of the slot come to rest: of a replaced registration,
\* of a candidate whose save failed.
OthersComeToRest ==
  \A r \in Registrations : sources[r] = "on" ~> (sources[r] = "off" \/ r = slot)
=============================================================================
