------------------------- MODULE ScheduledTriggers -------------------------
(***************************************************************************)
(* The clock that turns a trigger's recurrence into runs: each process     *)
(* ticks on its own (src/src/triggers/schedule/index.ts), one transaction  *)
(* takes the due schedules it can lock and accepts one occurrence of each  *)
(* (internal/repository.ts), and saving a trigger synchronises its         *)
(* schedule under the same row lock (saveOrganizationTrigger of db/pg.ts). *)
(*                                                                         *)
(* An occurrence names its run, as the delivery id schedule:<trigger>:     *)
(* <occurrence> does. Processes share one clock; what a transaction read   *)
(* from it may be old when the transaction commits.                        *)
(***************************************************************************)
EXTENDS Integers, FiniteSets

CONSTANTS Triggers, Tickers, None,
          Recurrences,  \* sets of instants
          MaxTime,      \* the horizon
          MaxSaves,     \* bound on saves of triggers
          MaxTickFaults \* bound on ticks that fail

VARIABLES
  now,       \* the time of day
  enabled,   \* organization_triggers.enabled
  schedule,  \* trigger_schedules: recurrence, next_at, active_run_id
  runs,      \* the status of each occurrence's run
  caught,    \* history: the tick's clock when a run was last accepted
  saver,     \* the open transaction that saves a trigger
  ticker,    \* the tick of each process
  saves, tickFaults

vars == <<now, enabled, schedule, runs, caught, saver, ticker, saves, tickFaults>>

Times == 1..MaxTime

\* Recurrences are made of instants; the bounds are numbers.
ScheduleAssumption ==
  /\ None \notin Times /\ None \notin Recurrences /\ Recurrences \subseteq SUBSET Times
  /\ MaxTime \in Nat /\ MaxSaves \in Nat /\ MaxTickFaults \in Nat

NoSave == [pc |-> "none", at |-> 0, on |-> FALSE, rec |-> None]
Waiting == [pc |-> "idle", at |-> 0, held |-> {}]

\* Mutant: the next instant, whether the recurrence has it or not.
NextInstant(rec, after) == after + 1
\* nextOccurrence: the first instant after the given one, if there is one.
NextOccurrence(rec, after) ==
  IF \E x \in rec : x > after
  THEN CHOOSE x \in rec : x > after /\ \A y \in rec : y > after => x <= y
  ELSE None

Init ==
  /\ now = 0
  /\ enabled = [t \in Triggers |-> FALSE]
  /\ schedule = [t \in Triggers |-> [rec |-> None, next |-> None, active |-> None]]
  /\ runs = [t \in Triggers |-> [x \in Times |-> "none"]]
  /\ caught = [t \in Triggers |-> 0]
  /\ saver = [t \in Triggers |-> NoSave]
  /\ ticker = [w \in Tickers |-> Waiting]
  /\ saves = 0
  /\ tickFaults = 0

Locked == {t \in Triggers : saver[t].pc = "locked"} \cup UNION {ticker[w].held : w \in Tickers}

-----------------------------------------------------------------------------
(* Saving a trigger *)

\* The update of the trigger's row waits for its lock; the time is read later.
LockForSave(t) ==
  /\ saves < MaxSaves /\ t \notin Locked
  /\ \E on \in BOOLEAN, rec \in Recurrences \cup {None} :
       saver' = [saver EXCEPT ![t] = [pc |-> "locked", at |-> now, on |-> on, rec |-> rec]]
  /\ saves' = saves + 1
  /\ UNCHANGED <<now, enabled, schedule, runs, caught, ticker, tickFaults>>

\* Mutants: the first occurrence ever instead of the next one; an edited
\* recurrence keeps the old one's next occurrence; the active run is forgotten.
SynchronizedFromStart(s, rec, at) ==
  IF rec = None THEN [s EXCEPT !.rec = None, !.next = None]
  ELSE [s EXCEPT !.rec = rec,
                 !.next = IF s.rec = rec THEN s.next ELSE NextOccurrence(rec, 0)]
SynchronizedOnce(s, rec, at) ==
  IF rec = None THEN [s EXCEPT !.rec = None, !.next = None]
  ELSE [s EXCEPT !.rec = rec,
                 !.next = IF s.next # None THEN s.next ELSE NextOccurrence(rec, at)]
SynchronizedAnew(s, rec, at) ==
  IF rec = None THEN [rec |-> None, next |-> None, active |-> None]
  ELSE [rec |-> rec, next |-> NextOccurrence(rec, at), active |-> None]

\* synchronize: next_at is kept when the recurrence is, and so is the active run.
Synchronized(s, rec, at) ==
  IF rec = None THEN [s EXCEPT !.rec = None, !.next = None]
  ELSE [s EXCEPT !.rec = rec,
                 !.next = IF s.rec = rec THEN s.next ELSE NextOccurrence(rec, at)]

\* saveOrganizationTrigger commits; a disabled trigger has no recurrence.
CommitSave(t) ==
  LET s == saver[t] IN
  /\ s.pc = "locked"
  /\ enabled' = [enabled EXCEPT ![t] = s.on]
  /\ schedule' = [schedule EXCEPT ![t] = Synchronized(@, IF s.on THEN s.rec ELSE None, s.at)]
  /\ saver' = [saver EXCEPT ![t] = NoSave]
  /\ UNCHANGED <<now, runs, caught, ticker, saves, tickFaults>>

-----------------------------------------------------------------------------
(* The tick of a process *)

\* The timer fires; a tick that still runs is left alone.
StartTick(w) ==
  /\ ticker[w].pc = "idle"
  /\ ticker' = [ticker EXCEPT ![w] = [Waiting EXCEPT !.pc = "begun", !.at = now]]
  /\ UNCHANGED <<now, enabled, schedule, runs, caught, saver, saves, tickFaults>>

Due(at) == {t \in Triggers : enabled[t] /\ schedule[t].next # None /\ schedule[t].next <= at}

\* select ... for update of t, s skip locked
SelectDue(w) ==
  /\ ticker[w].pc = "begun"
  /\ ticker' = [ticker EXCEPT ![w].pc = "locked", ![w].held = Due(ticker[w].at) \ Locked]
  /\ UNCHANGED <<now, enabled, schedule, runs, caught, saver, saves, tickFaults>>

\* Mutants: an occurrence that finds its run still at work waits for it; the
\* time after the occurrence instead of the time of the tick.
AdvancedWhenFree(s, at, busy) ==
  IF busy THEN s ELSE [s EXCEPT !.next = NextOccurrence(s.rec, at), !.active = s.next]
AdvancedByOne(s, at, busy) ==
  [s EXCEPT !.next = NextOccurrence(s.rec, s.next), !.active = IF busy THEN @ ELSE s.next]

\* update trigger_schedules set next_at, active_run_id
Advanced(s, at, busy) ==
  [s EXCEPT !.next = NextOccurrence(s.rec, at), !.active = IF busy THEN @ ELSE s.next]

\* The active run of the schedule has not ended.
Busy(t) == schedule[t].active # None /\ runs[t][schedule[t].active] = "running"

\* For each held schedule: enqueueOccurrence unless its run is running, then the
\* next occurrence; all of them commit together.
CommitTick(w) ==
  LET at == ticker[w].at
      held == ticker[w].held
      accepted == {t \in held : ~Busy(t)}
  IN /\ ticker[w].pc = "locked"
     /\ runs' = [t \in Triggers |->
                   IF t \in accepted THEN [runs[t] EXCEPT ![schedule[t].next] = "running"]
                   ELSE runs[t]]
     /\ caught' = [t \in Triggers |-> IF t \in accepted THEN at ELSE caught[t]]
     /\ schedule' = [t \in Triggers |->
                       IF t \in held THEN Advanced(schedule[t], at, Busy(t)) ELSE schedule[t]]
     /\ ticker' = [ticker EXCEPT ![w] = Waiting]
     /\ UNCHANGED <<now, enabled, saver, saves, tickFaults>>

\* The transaction rolls back, with its process or alone; the error is reported.
FailTick(w) ==
  /\ ticker[w].pc # "idle" /\ tickFaults < MaxTickFaults
  /\ ticker' = [ticker EXCEPT ![w] = Waiting]
  /\ tickFaults' = tickFaults + 1
  /\ UNCHANGED <<now, enabled, schedule, runs, caught, saver, saves>>

-----------------------------------------------------------------------------

\* The engine ends the run of an occurrence (WorkflowEngine).
EndRun(t, x) ==
  /\ runs[t][x] = "running"
  /\ runs' = [runs EXCEPT ![t][x] = "ended"]
  /\ UNCHANGED <<now, enabled, schedule, caught, saver, ticker, saves, tickFaults>>

TimePasses ==
  /\ now < MaxTime
  /\ now' = now + 1
  /\ UNCHANGED <<enabled, schedule, runs, caught, saver, ticker, saves, tickFaults>>

Ticking(w) == StartTick(w) \/ SelectDue(w) \/ CommitTick(w)

Next ==
  \/ TimePasses
  \/ \E w \in Tickers : Ticking(w) \/ FailTick(w)
  \/ \E t \in Triggers : LockForSave(t) \/ CommitSave(t) \/ \E x \in Times : EndRun(t, x)

\* Timers keep firing and transactions end; a run may take for ever.
Fairness ==
  /\ \A w \in Tickers : WF_vars(Ticking(w))
  /\ \A t \in Triggers : WF_vars(CommitSave(t))

Spec == Init /\ [][Next]_vars /\ Fairness

-----------------------------------------------------------------------------
(* Properties *)

\* Every variable has its type.
TypeOK ==
  /\ now \in 0..MaxTime /\ enabled \in [Triggers -> BOOLEAN]
  /\ schedule \in [Triggers -> [rec : Recurrences \cup {None}, next : Times \cup {None},
                               active : Times \cup {None}]]
  /\ runs \in [Triggers -> [Times -> {"none", "running", "ended"}]]
  /\ caught \in [Triggers -> 0..MaxTime]
  /\ saver \in [Triggers -> [pc : {"none", "locked"}, at : 0..MaxTime, on : BOOLEAN,
                            rec : Recurrences \cup {None}]]
  /\ ticker \in [Tickers -> [pc : {"idle", "begun", "locked"}, at : 0..MaxTime,
                             held : SUBSET Triggers]]
  /\ saves \in 0..MaxSaves /\ tickFaults \in 0..MaxTickFaults

\* A schedule never has two of its runs at work, whatever edits, disabling,
\* ticks of several processes and late ends of runs there are.
NoOverlap ==
  \A t \in Triggers : Cardinality({x \in Times : runs[t][x] = "running"}) <= 1

\* Whatever was missed in the meantime, one occurrence is caught up: an occurrence
\* is never accepted that was past when the one before it was accepted. In
\* particular none is accepted twice, which would fail every later tick.
DowntimeCoalesces ==
  [][\A t \in Triggers, x \in Times :
       runs[t][x] # runs'[t][x] /\ runs'[t][x] = "running" =>
         runs[t][x] = "none" /\ x > caught[t]]_vars

\* A run is accepted for an occurrence of the recurrence that is saved at that
\* moment, of a trigger that is enabled: an edit in between is respected.
EditIsRespected ==
  [][\A t \in Triggers, x \in Times :
       runs[t][x] = "none" /\ runs'[t][x] = "running" =>
         enabled[t] /\ schedule[t].rec # None /\ x \in schedule[t].rec]_vars

\* A due occurrence is taken up or given up, even while the previous run of its
\* schedule never ends: next_at always moves on.
DueIsServed ==
  \A t \in Triggers, x \in Times :
    enabled[t] /\ schedule[t].next = x /\ x <= now ~> schedule[t].next # x
=============================================================================
