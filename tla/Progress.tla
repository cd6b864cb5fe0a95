------------------------------- MODULE Progress -------------------------------
(***************************************************************************)
(* The parts of the hub whose properties need fairness, or go with those   *)
(* that do: a behaviour chooses one part at the start and only that part   *)
(* takes steps, with the fairness of that part. The constants of a part    *)
(* have its prefix.                                                        *)
(***************************************************************************)
EXTENDS Integers, Sequences, FiniteSets

CONSTANTS
  None, NoRun, NoHub,
  scTriggers, scTickers, scRecurrences, scMaxTime, scMaxSaves,
  scMaxTickFaults,
  ruRegistrations, ruMaxStored, ruMaxCrashes,
  ouCalls, ouMaxOutputs, ouMaxTurns, ouMaxLosses,
  noRuns, noHubs, noMaxFaults

VARIABLES
  part,
  scNow, scEnabled, scSchedule, scRuns, scCaught, scSaver, scTicker, scSaves,
  scTickFaults,
  ruStored, ruSlot, ruVersion, ruSources, ruAccepting, ruChange, ruSavedBy,
  ruCrashes,
  ouStatus, ouAttempt, ouOverdue, ouSent, ouEmissions, ouCall, ouFinish,
  ouSigns, ouAction, ouTurn, ouEvents, ouLosses, ouUnheard,
  noStatus, noDelivered, noLease, noReaction, noMarkers, noCredit, noTask,
  noPass, noFaults

Sc == INSTANCE ScheduledTriggers WITH
    Triggers <- scTriggers, Tickers <- scTickers,
    Recurrences <- scRecurrences, MaxTime <- scMaxTime,
    MaxSaves <- scMaxSaves, MaxTickFaults <- scMaxTickFaults, now <- scNow,
    enabled <- scEnabled, schedule <- scSchedule, runs <- scRuns,
    caught <- scCaught, saver <- scSaver, ticker <- scTicker,
    saves <- scSaves, tickFaults <- scTickFaults

Ru == INSTANCE ProviderRuntime WITH
    Registrations <- ruRegistrations, MaxStored <- ruMaxStored,
    MaxCrashes <- ruMaxCrashes,
    stored <- ruStored, slot <- ruSlot, version <- ruVersion,
    sources <- ruSources, accepting <- ruAccepting, change <- ruChange,
    savedBy <- ruSavedBy, crashes <- ruCrashes

Ou == INSTANCE ExecutionOutputs WITH
    Calls <- ouCalls, MaxOutputs <- ouMaxOutputs, MaxTurns <- ouMaxTurns,
    MaxLosses <- ouMaxLosses, status <- ouStatus, attempt <- ouAttempt,
    overdue <- ouOverdue, sent <- ouSent, emissions <- ouEmissions,
    call <- ouCall, finish <- ouFinish, signs <- ouSigns,
    action <- ouAction, turn <- ouTurn, events <- ouEvents,
    losses <- ouLosses, unheard <- ouUnheard

No == INSTANCE RunNotification WITH
    Runs <- noRuns, Hubs <- noHubs, MaxFaults <- noMaxFaults,
    status <- noStatus, delivered <- noDelivered, lease <- noLease,
    reaction <- noReaction, markers <- noMarkers, credit <- noCredit,
    task <- noTask, pass <- noPass, faults <- noFaults

varsSc ==
  <<scNow, scEnabled, scSchedule, scRuns, scCaught, scSaver, scTicker,
    scSaves, scTickFaults>>
varsRu ==
  <<ruStored, ruSlot, ruVersion, ruSources, ruAccepting, ruChange, ruSavedBy,
    ruCrashes>>
varsOu ==
  <<ouStatus, ouAttempt, ouOverdue, ouSent, ouEmissions, ouCall, ouFinish,
    ouSigns, ouAction, ouTurn, ouEvents, ouLosses, ouUnheard>>
varsNo ==
  <<noStatus, noDelivered, noLease, noReaction, noMarkers, noCredit, noTask,
    noPass, noFaults>>

vars ==
  <<part,
    scNow, scEnabled, scSchedule, scRuns, scCaught, scSaver, scTicker,
    scSaves, scTickFaults,
    ruStored, ruSlot, ruVersion, ruSources, ruAccepting, ruChange, ruSavedBy,
    ruCrashes,
    ouStatus, ouAttempt, ouOverdue, ouSent, ouEmissions, ouCall, ouFinish,
    ouSigns, ouAction, ouTurn, ouEvents, ouLosses, ouUnheard,
    noStatus, noDelivered, noLease, noReaction, noMarkers, noCredit, noTask,
    noPass, noFaults>>

OthersSc ==
  <<part,
    ruStored, ruSlot, ruVersion, ruSources, ruAccepting, ruChange, ruSavedBy,
    ruCrashes,
    ouStatus, ouAttempt, ouOverdue, ouSent, ouEmissions, ouCall, ouFinish,
    ouSigns, ouAction, ouTurn, ouEvents, ouLosses, ouUnheard,
    noStatus, noDelivered, noLease, noReaction, noMarkers, noCredit, noTask,
    noPass, noFaults>>
OthersRu ==
  <<part,
    scNow, scEnabled, scSchedule, scRuns, scCaught, scSaver, scTicker,
    scSaves, scTickFaults,
    ouStatus, ouAttempt, ouOverdue, ouSent, ouEmissions, ouCall, ouFinish,
    ouSigns, ouAction, ouTurn, ouEvents, ouLosses, ouUnheard,
    noStatus, noDelivered, noLease, noReaction, noMarkers, noCredit, noTask,
    noPass, noFaults>>
OthersOu ==
  <<part,
    scNow, scEnabled, scSchedule, scRuns, scCaught, scSaver, scTicker,
    scSaves, scTickFaults,
    ruStored, ruSlot, ruVersion, ruSources, ruAccepting, ruChange, ruSavedBy,
    ruCrashes,
    noStatus, noDelivered, noLease, noReaction, noMarkers, noCredit, noTask,
    noPass, noFaults>>
OthersNo ==
  <<part,
    scNow, scEnabled, scSchedule, scRuns, scCaught, scSaver, scTicker,
    scSaves, scTickFaults,
    ruStored, ruSlot, ruVersion, ruSources, ruAccepting, ruChange, ruSavedBy,
    ruCrashes,
    ouStatus, ouAttempt, ouOverdue, ouSent, ouEmissions, ouCall, ouFinish,
    ouSigns, ouAction, ouTurn, ouEvents, ouLosses, ouUnheard>>

\* What the parts ask of their constants.
ASSUME ProgressAssumption ==
  /\ Sc!ScheduleAssumption
  /\ Ru!RuntimeAssumption
  /\ Ou!OutputsAssumption
  /\ No!NotificationAssumption

Init ==
  /\ part \in {"schedules", "runtime", "outputs", "prompt"}
  /\ Sc!Init
  /\ Ru!Init
  /\ Ou!Init
  /\ No!Init

\* Only the chosen part takes steps.
Next ==
  \/ part = "schedules" /\ Sc!Next /\ UNCHANGED OthersSc
  \/ part = "runtime" /\ Ru!Next /\ UNCHANGED OthersRu
  \/ part = "outputs" /\ Ou!Next /\ UNCHANGED OthersOu
  \/ part = "prompt" /\ No!Next /\ UNCHANGED OthersNo

\* The parts that run keep going: the timers tick and saves commit; the calls to a
\* provider and the queries of a change end; an agent's calls and turns end; a
\* delivery pass settles.
Fairness ==
  /\ \A w \in scTickers : WF_varsSc(part = "schedules" /\ Sc!Ticking(w))
  /\ \A t \in scTriggers : WF_varsSc(part = "schedules" /\ Sc!CommitSave(t))
  /\ WF_varsRu(part = "runtime" /\ Ru!Proceeding)
  /\ \A r \in ruRegistrations :
       WF_varsRu(part = "runtime" /\ Ru!SourcesStopped(r))
  /\ WF_varsOu(part = "outputs" /\ Ou!Progressing)
  /\ \A h \in noHubs : WF_varsNo(part = "prompt" /\ No!Passing(h))

Spec == Init /\ [][Next]_vars /\ Fairness

-----------------------------------------------------------------------------
\* Every variable of the chosen part has its type.
TypeOK ==
  /\ part = "schedules" => Sc!TypeOK
  /\ part = "runtime" => Ru!TypeOK
  /\ part = "outputs" => Ou!TypeOK
  /\ part = "prompt" => No!TypeOK

\* A schedule never has two runs at work; an application is replaced without a
\* gap; what an agent finished it has sent, within its limit, and is archived
\* after its turn (triggers/schedule, provider-applications, execution-capabilities).
NothingOverlaps ==
  /\ part = "schedules" => Sc!NoOverlap
  /\ part = "runtime" => Ru!ReplacementHasNoGap
  /\ part = "outputs" => Ou!OutputsAreLimited /\ Ou!FinishedHasSent /\ Ou!ArchivedAfterTurn

\* A schedule catches up once and follows the recurrence saved last; no process
\* overwrites another's saved application (triggers/schedule/internal/repository.ts,
\* provider-applications/internal/store.ts).
StepsFollowWhatIsSaved == Sc!DowntimeCoalesces /\ Sc!EditIsRespected /\ Ru!SavesAreKept

\* A due occurrence is served although the run before it never ends, sources that are not
\* in use come to rest, a finished agent is archived, and an announced end is told by its
\* announcement (triggers/schedule, provider-applications, daemons/lifecycle.ts,
\* workflows/engine.ts).
NothingIsLeft ==
  /\ Sc!DueIsServed /\ Ru!OthersComeToRest
  /\ Ou!FinishedIsArchived /\ No!AnnouncedIsTold

=============================================================================
