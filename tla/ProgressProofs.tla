--------------------------- MODULE ProgressProofs ----------------------------
(***************************************************************************)
(* What Progress promises for any value of its constants, proved.          *)
(*                                                                         *)
(* ScheduledTriggers (prefix Sc): no schedule has two runs at work,        *)
(* downtime is caught up once, and an edit is respected. The row lock ties *)
(* these together: what a tick holds nobody edits or takes (ScHeldInv), so *)
(* the occurrence that was due still is when the tick commits; every       *)
(* occurrence after the last catching up is untouched (ScFreshInv), where  *)
(* next_at points (ScNextInv).                                             *)
(*                                                                         *)
(* ProviderRuntime (Ru): a candidate is not the registration in the slot   *)
(* and listens before it is published (RuCandidateInv); versions are saved *)
(* in their order (RuSavedInv).                                            *)
(*                                                                         *)
(* ExecutionOutputs (Ou): what was recorded and what is under way is       *)
(* within the limit (OuCountInv), and the signs of a turn's end come after *)
(* it, heard or on their way (OuTurnInv).                                  *)
(*                                                                         *)
(* RunNotification (No): its invariant is that of RunProofs (Rn), which is *)
(* about the same definitions (SameRunNotification).                       *)
(***************************************************************************)
EXTENDS Progress, FiniteSetTheorems, SequenceTheorems,
        WellFoundedInduction, TLAPS

-----------------------------------------------------------------------------
(* Scheduled triggers *)

\* A run at work is its schedule's active run.
ScActiveInv ==
  \A t \in scTriggers, x \in Sc!Times : scRuns[t][x] = "running" => scSchedule[t].active = x

\* next_at is of the recurrence, and after the last catching up.
ScNextInv ==
  \A t \in scTriggers : scSchedule[t].next # None =>
    /\ scSchedule[t].rec # None /\ scSchedule[t].next \in scSchedule[t].rec
    /\ scSchedule[t].next > scCaught[t]

\* Occurrences after the last catching up have no run.
ScFreshInv ==
  \A t \in scTriggers, x \in Sc!Times : x > scCaught[t] => scRuns[t][x] = "none"

\* Clocks that were read are past; a save's is not before the last catching up.
ScClockInv ==
  /\ \A t \in scTriggers : scCaught[t] <= scNow
  /\ \A w \in scTickers : scTicker[w].at <= scNow
  /\ \A t \in scTriggers : scSaver[t].pc = "locked" => scCaught[t] <= scSaver[t].at

\* A tick holds enabled schedules that are due, and holds them alone.
ScHeldInv ==
  \A w \in scTickers : \A t \in scTicker[w].held :
    /\ scTicker[w].pc = "locked" /\ scSaver[t].pc = "none" /\ scEnabled[t]
    /\ scSchedule[t].next # None /\ scSchedule[t].next <= scTicker[w].at
    /\ \A v \in scTickers \ {w} : t \notin scTicker[v].held

ScIInv == Sc!TypeOK /\ ScActiveInv /\ ScNextInv /\ ScFreshInv /\ ScClockInv /\ ScHeldInv

\* A set of instants that is not empty has a first one: of the intervals up to its
\* members one is minimal.
LEMMA ScFirstInstant ==
  ASSUME scMaxTime \in Nat, NEW S \in SUBSET Sc!Times, S # {}
  PROVE  \E x \in S : \A y \in S : x <= y
<1> DEFINE UpTo(x) == 1..x
           Upto == {UpTo(x) : x \in S}
<1>1. IsFiniteSet(Sc!Times)
  BY FS_Interval DEF Sc!Times
<1>2. IsWellFoundedOn(StrictSubsetOrdering(Sc!Times), SUBSET Sc!Times)
  BY <1>1, FS_StrictSubsetOrderingWellFounded, FS_FiniteSubsetsOfFinite
<1>3. Upto \subseteq SUBSET Sc!Times /\ Upto # {}
  <2>1. \A x \in S : UpTo(x) \subseteq Sc!Times
    BY DEF Sc!Times
  <2>. QED BY <2>1
<1>4. PICK I \in Upto : \A J \in Upto : <<J, I>> \notin StrictSubsetOrdering(Sc!Times)
  <2>. HIDE DEF Upto
  <2>. QED BY <1>2, <1>3, WFMin
<1>5. PICK x \in S : I = UpTo(x)
  BY <1>4
<1>6. ASSUME NEW y \in S, ~ x <= y PROVE FALSE
  <2>1. x \in Nat /\ y \in Nat /\ y < x /\ 1 <= x
    BY <1>6 DEF Sc!Times
  <2>2. UpTo(y) \subseteq UpTo(x) /\ x \in UpTo(x) /\ x \notin UpTo(y)
    BY <2>1
  <2>3. UpTo(y) \in Upto /\ UpTo(x) \in Upto
    OBVIOUS
  <2>4. <<UpTo(y), UpTo(x)>> \in StrictSubsetOrdering(Sc!Times)
    <3>. HIDE DEF UpTo, Upto
    <3>. QED BY <1>3, <2>2, <2>3 DEF StrictSubsetOrdering
  <2>. QED BY <1>4, <1>5, <2>3, <2>4
<1>. QED BY <1>6

\* The next occurrence is one of the recurrence, after the given time, if it is one.
LEMMA ScNextIsLater ==
  ASSUME Sc!ScheduleAssumption, NEW rec \in scRecurrences, NEW at \in Nat,
         Sc!NextOccurrence(rec, at) # None
  PROVE  Sc!NextOccurrence(rec, at) \in rec /\ Sc!NextOccurrence(rec, at) > at
<1>1. PICK Later : Later = {x \in rec : x > at}
  OBVIOUS
<1>2. Later # {} /\ Later \in SUBSET Sc!Times
  BY <1>1 DEF Sc!NextOccurrence, Sc!ScheduleAssumption
<1>3. PICK x \in Later : \A y \in Later : x <= y
  BY <1>2, ScFirstInstant DEF Sc!ScheduleAssumption
<1>4. x \in rec /\ x > at /\ \A y \in rec : y > at => x <= y
  BY <1>1, <1>3
<1>. QED BY <1>4 DEF Sc!NextOccurrence

\* A save's next occurrence: the one that was kept, or one after the save's clock.
LEMMA ScSavedNext ==
  ASSUME Sc!ScheduleAssumption, NEW rec \in scRecurrences \cup {None}, NEW at \in Nat,
         NEW s \in [rec : scRecurrences \cup {None}, next : Sc!Times \cup {None},
                    active : Sc!Times \cup {None}],
         s.next # None => s.next \in s.rec
  PROVE  /\ Sc!Synchronized(s, rec, at) \in [rec : scRecurrences \cup {None},
                                         next : Sc!Times \cup {None}, active : Sc!Times \cup {None}]
         /\ Sc!Synchronized(s, rec, at).active = s.active
         /\ Sc!Synchronized(s, rec, at).rec = rec
         /\ Sc!Synchronized(s, rec, at).next # None =>
              /\ rec # None /\ Sc!Synchronized(s, rec, at).next \in rec
              /\ \/ s.rec = rec /\ Sc!Synchronized(s, rec, at).next = s.next
                 \/ Sc!Synchronized(s, rec, at).next > at
<1>1. CASE rec = None
  BY <1>1 DEF Sc!Synchronized
<1>2. CASE rec # None /\ s.rec = rec
  BY <1>2 DEF Sc!Synchronized
<1>3. CASE rec # None /\ s.rec # rec
  <2>1. PICK n : n = Sc!NextOccurrence(rec, at)
    OBVIOUS
  <2>2. n # None => n \in rec /\ n > at
    BY <1>3, <2>1, ScNextIsLater
  <2>3. n \in Sc!Times \cup {None}
    BY <1>3, <2>2 DEF Sc!ScheduleAssumption
  <2>4. Sc!Synchronized(s, rec, at) = [s EXCEPT !.rec = rec, !.next = n]
    BY <1>3, <2>1 DEF Sc!Synchronized
  <2>. QED BY <1>3, <2>2, <2>3, <2>4
<1>. QED BY <1>1, <1>2, <1>3

\* What a tick makes of a schedule it holds.
LEMMA ScTickedNext ==
  ASSUME Sc!ScheduleAssumption, NEW at \in Nat, NEW busy \in BOOLEAN,
         NEW s \in [rec : scRecurrences \cup {None}, next : Sc!Times \cup {None},
                    active : Sc!Times \cup {None}],
         s.rec # None
  PROVE  /\ Sc!Advanced(s, at, busy) \in [rec : scRecurrences \cup {None},
                                      next : Sc!Times \cup {None}, active : Sc!Times \cup {None}]
         /\ Sc!Advanced(s, at, busy).active = (IF busy THEN s.active ELSE s.next)
         /\ Sc!Advanced(s, at, busy).rec = s.rec
         /\ Sc!Advanced(s, at, busy).next # None =>
              Sc!Advanced(s, at, busy).next \in s.rec /\ Sc!Advanced(s, at, busy).next > at
<1>1. PICK n : n = Sc!NextOccurrence(s.rec, at)
  OBVIOUS
<1>2. n # None => n \in s.rec /\ n > at
  BY <1>1, ScNextIsLater
<1>3. n \in Sc!Times \cup {None}
  BY <1>2 DEF Sc!ScheduleAssumption
<1>4. Sc!Advanced(s, at, busy) = [s EXCEPT !.next = n, !.active = IF busy THEN @ ELSE s.next]
  BY <1>1 DEF Sc!Advanced
<1>. QED BY <1>2, <1>3, <1>4

\* The initial state satisfies the invariant.
LEMMA ScInitHolds ==
  ASSUME Sc!ScheduleAssumption, Sc!Init PROVE ScIInv
BY DEF Sc!Init, ScIInv, Sc!ScheduleAssumption, Sc!TypeOK, ScActiveInv, ScNextInv, ScFreshInv,
   ScClockInv, ScHeldInv,
       Sc!NoSave, Sc!Waiting, Sc!Times

\* A save takes the row that nobody holds.
LEMMA ScLockForSaveKeeps ==
  ASSUME Sc!ScheduleAssumption, ScIInv, NEW t \in scTriggers, Sc!LockForSave(t)
  PROVE  ScIInv'
<1>1. PICK on \in BOOLEAN, rec \in scRecurrences \cup {None} :
        scSaver' = [scSaver EXCEPT ![t] = [pc |-> "locked", at |-> scNow, on |-> on, rec |-> rec]]
  BY DEF Sc!LockForSave
<1>2. scSaver[t].pc = "none" /\ \A w \in scTickers : t \notin scTicker[w].held
  BY DEF Sc!LockForSave, Sc!Locked, ScIInv, Sc!TypeOK
<1>3. Sc!TypeOK'
  <2>1. scSaves' \in 0..scMaxSaves
    BY DEF Sc!LockForSave, ScIInv, Sc!TypeOK, Sc!ScheduleAssumption
  <2>2. scSaver' \in [scTriggers -> [pc : {"none", "locked"}, at : 0..scMaxTime, on : BOOLEAN,
                                 rec : scRecurrences \cup {None}]]
    BY <1>1 DEF ScIInv, Sc!TypeOK
  <2>. QED BY <2>1, <2>2 DEF Sc!LockForSave, ScIInv, Sc!TypeOK
<1>4. ScActiveInv' /\ ScNextInv' /\ ScFreshInv'
  BY DEF Sc!LockForSave, ScIInv, ScActiveInv, ScNextInv, ScFreshInv
<1>5. ScClockInv'
  BY <1>1 DEF Sc!LockForSave, ScIInv, ScClockInv, Sc!TypeOK
<1>6. ScHeldInv'
  BY <1>1, <1>2 DEF Sc!LockForSave, ScIInv, ScHeldInv, Sc!TypeOK
<1>. QED BY <1>3, <1>4, <1>5, <1>6 DEF ScIInv

\* A save commits: its clock is not before the last catching up.
LEMMA ScCommitSaveKeeps ==
  ASSUME Sc!ScheduleAssumption, ScIInv, NEW t \in scTriggers, Sc!CommitSave(t)
  PROVE  ScIInv'
<1>1. PICK rec \in scRecurrences \cup {None} : rec = IF scSaver[t].on THEN scSaver[t].rec ELSE None
  BY DEF ScIInv, Sc!TypeOK
<1>2. PICK s : s = Sc!Synchronized(scSchedule[t], rec, scSaver[t].at)
  OBVIOUS
<1>3. /\ scSaver[t].pc = "locked" /\ scSaver[t].at \in 0..scMaxTime /\ scSaver[t].on \in BOOLEAN
      /\ scSchedule[t] \in [rec : scRecurrences \cup {None}, next : Sc!Times \cup {None},
                          active : Sc!Times \cup {None}]
  BY DEF Sc!CommitSave, ScIInv, Sc!TypeOK
<1>4. scSchedule' = [scSchedule EXCEPT ![t] = s]
  BY <1>1, <1>2 DEF Sc!CommitSave, ScIInv, Sc!TypeOK
<1>5. /\ scSaver' = [scSaver EXCEPT ![t] = Sc!NoSave]
      /\ scEnabled' = [scEnabled EXCEPT ![t] = scSaver[t].on]
  BY DEF Sc!CommitSave
<1>6. /\ s \in [rec : scRecurrences \cup {None}, next : Sc!Times \cup {None},
                active : Sc!Times \cup {None}]
      /\ s.active = scSchedule[t].active /\ s.rec = rec
      /\ s.next # None => /\ rec # None /\ s.next \in rec
                          /\ s.next = scSchedule[t].next \/ s.next > scSaver[t].at
  <2>1. scSchedule[t].next # None => scSchedule[t].next \in scSchedule[t].rec
    BY DEF ScIInv, ScNextInv
  <2>2. scSaver[t].at \in Nat
    BY <1>3 DEF Sc!ScheduleAssumption
  <2>. QED BY <1>2, <1>3, <2>1, <2>2, ScSavedNext
<1>7. s.next # None => s.next > scCaught[t]
  <2>1. SUFFICES ASSUME s.next # None PROVE s.next > scCaught[t]
    OBVIOUS
  <2>2. /\ s.next \in Int /\ scSaver[t].at \in Int /\ scCaught[t] \in Int
        /\ scCaught[t] <= scSaver[t].at
    BY <1>3, <1>6, <2>1 DEF ScIInv, ScClockInv, Sc!TypeOK, Sc!Times
  <2>3. CASE s.next = scSchedule[t].next
    BY <2>1, <2>3 DEF ScIInv, ScNextInv
  <2>4. CASE s.next > scSaver[t].at
    BY <2>2, <2>4
  <2>. QED BY <1>6, <2>1, <2>3, <2>4
<1>8. \A w \in scTickers : t \notin scTicker[w].held
  BY <1>3 DEF ScIInv, ScHeldInv
<1>9. Sc!TypeOK'
  BY <1>3, <1>4, <1>5, <1>6 DEF Sc!CommitSave, ScIInv, Sc!TypeOK, Sc!NoSave, Sc!ScheduleAssumption
<1>10. ScActiveInv' /\ ScFreshInv'
  BY <1>4, <1>6 DEF Sc!CommitSave, ScIInv, ScActiveInv, ScFreshInv, Sc!TypeOK
<1>11. ScNextInv'
  BY <1>4, <1>6, <1>7 DEF Sc!CommitSave, ScIInv, ScNextInv, Sc!TypeOK
<1>12. ScClockInv'
  BY <1>5 DEF Sc!CommitSave, ScIInv, ScClockInv, Sc!TypeOK, Sc!NoSave
<1>13. ScHeldInv'
  BY <1>4, <1>5, <1>8 DEF Sc!CommitSave, ScIInv, ScHeldInv, Sc!TypeOK, Sc!NoSave
<1>. QED BY <1>9, <1>10, <1>11, <1>12, <1>13 DEF ScIInv

\* A tick begins: it reads the clock.
LEMMA ScStartTickKeeps ==
  ASSUME Sc!ScheduleAssumption, ScIInv, NEW w \in scTickers, Sc!StartTick(w)
  PROVE  ScIInv'
<1>1. /\ scTicker'[w].pc = "begun" /\ scTicker'[w].at = scNow /\ scTicker'[w].held = {}
      /\ \A v \in scTickers \ {w} : scTicker'[v] = scTicker[v]
      /\ scTicker' \in [scTickers -> [pc : {"idle", "begun", "locked"}, at : 0..scMaxTime,
                                 held : SUBSET scTriggers]]
  <2>1. /\ scNow \in 0..scMaxTime
        /\ Sc!Waiting \in [pc : {"idle", "begun", "locked"}, at : 0..scMaxTime,
                           held : SUBSET scTriggers]
    BY DEF ScIInv, Sc!TypeOK, Sc!Waiting, Sc!ScheduleAssumption
  <2>2. Sc!Waiting.held = {}
    BY DEF Sc!Waiting
  <2>3. scTicker' = [scTicker EXCEPT ![w] = [Sc!Waiting EXCEPT !.pc = "begun", !.at = scNow]]
    BY DEF Sc!StartTick
  <2>. HIDE DEF Sc!Waiting
  <2>. QED BY <2>1, <2>2, <2>3 DEF ScIInv, Sc!TypeOK
<1>2. Sc!TypeOK'
  BY <1>1 DEF Sc!StartTick, ScIInv, Sc!TypeOK
<1>3. ScActiveInv' /\ ScNextInv' /\ ScFreshInv'
  BY DEF Sc!StartTick, ScIInv, ScActiveInv, ScNextInv, ScFreshInv
<1>4. ScClockInv'
  BY <1>1 DEF Sc!StartTick, ScIInv, ScClockInv, Sc!TypeOK
<1>5. ScHeldInv'
  <2>1. SUFFICES ASSUME NEW v \in scTickers, NEW t \in scTicker'[v].held
        PROVE  /\ scTicker'[v].pc = "locked" /\ scSaver[t].pc = "none" /\ scEnabled[t]
               /\ scSchedule[t].next # None /\ scSchedule[t].next <= scTicker'[v].at
               /\ \A u \in scTickers \ {v} : t \notin scTicker'[u].held
    BY DEF ScHeldInv, Sc!StartTick
  <2>2. v # w /\ scTicker'[v] = scTicker[v] /\ t \in scTicker[v].held
    BY <1>1, <2>1
  <2>3. \A u \in scTickers : scTicker'[u].held \subseteq scTicker[u].held
    BY <1>1
  <2>. QED BY <2>2, <2>3 DEF ScIInv, ScHeldInv
<1>. QED BY <1>2, <1>3, <1>4, <1>5 DEF ScIInv

\* A tick takes the due schedules that nobody holds.
LEMMA ScSelectDueKeeps ==
  ASSUME Sc!ScheduleAssumption, ScIInv, NEW w \in scTickers, Sc!SelectDue(w)
  PROVE  ScIInv'
<1>1. PICK got : got = Sc!Due(scTicker[w].at) \ Sc!Locked
  OBVIOUS
<1>2. /\ got \subseteq scTriggers
      /\ \A t \in got : /\ scSaver[t].pc # "locked" /\ scEnabled[t] /\ scSchedule[t].next # None
                        /\ scSchedule[t].next <= scTicker[w].at
                        /\ \A v \in scTickers : t \notin scTicker[v].held
  BY <1>1 DEF Sc!Due, Sc!Locked
<1>3. /\ scTicker'[w].pc = "locked" /\ scTicker'[w].at = scTicker[w].at /\ scTicker'[w].held = got
      /\ \A v \in scTickers \ {w} : scTicker'[v] = scTicker[v]
  BY <1>1 DEF Sc!SelectDue, ScIInv, Sc!TypeOK
<1>4. Sc!TypeOK'
  <2>1. scTicker' = [scTicker EXCEPT ![w].pc = "locked", ![w].held = got]
    BY <1>1 DEF Sc!SelectDue
  <2>2. scTicker' \in [scTickers -> [pc : {"idle", "begun", "locked"}, at : 0..scMaxTime,
                                held : SUBSET scTriggers]]
    <3>1. PICK r : r = [scTicker[w] EXCEPT !.pc = "locked", !.held = got]
      OBVIOUS
    <3>2. r \in [pc : {"idle", "begun", "locked"}, at : 0..scMaxTime, held : SUBSET scTriggers]
      <4>1. scTicker[w] \in [pc : {"idle", "begun", "locked"}, at : 0..scMaxTime,
                           held : SUBSET scTriggers]
        BY DEF ScIInv, Sc!TypeOK
      <4>2. got \in SUBSET scTriggers
        BY <1>2
      <4>. QED BY <3>1, <4>1, <4>2
    <3>3. scTicker' = [scTicker EXCEPT ![w] = r]
      BY <2>1, <3>1
    <3>. QED BY <3>2, <3>3 DEF ScIInv, Sc!TypeOK
  <2>. QED BY <2>2 DEF Sc!SelectDue, ScIInv, Sc!TypeOK
<1>5. ScActiveInv' /\ ScNextInv' /\ ScFreshInv'
  BY DEF Sc!SelectDue, ScIInv, ScActiveInv, ScNextInv, ScFreshInv
<1>6. ScClockInv'
  BY <1>3 DEF Sc!SelectDue, ScIInv, ScClockInv, Sc!TypeOK
<1>7. ScHeldInv'
  <2>1. \A t \in got : scSaver[t].pc = "none"
    BY <1>2 DEF ScIInv, Sc!TypeOK
  <2>2. SUFFICES ASSUME NEW v \in scTickers, NEW t \in scTicker'[v].held
        PROVE  /\ scTicker'[v].pc = "locked" /\ scSaver[t].pc = "none" /\ scEnabled[t]
               /\ scSchedule[t].next # None /\ scSchedule[t].next <= scTicker'[v].at
               /\ \A u \in scTickers \ {v} : t \notin scTicker'[u].held
    BY DEF ScHeldInv, Sc!SelectDue
  <2>3. CASE v = w
    BY <1>2, <1>3, <2>1, <2>3 DEF ScIInv, Sc!TypeOK
  <2>4. CASE v # w
    <3>1. scTicker'[v] = scTicker[v] /\ t \in scTicker[v].held
      BY <1>3, <2>2, <2>4
    <3>2. /\ scTicker[v].pc = "locked" /\ scSaver[t].pc = "none" /\ scEnabled[t]
          /\ scSchedule[t].next # None /\ scSchedule[t].next <= scTicker[v].at
          /\ \A u \in scTickers \ {v} : t \notin scTicker[u].held
      BY <3>1 DEF ScIInv, ScHeldInv
    <3>3. t \notin got
      BY <1>2, <3>1
    <3>4. \A u \in scTickers \ {v} : t \notin scTicker'[u].held
      BY <1>3, <3>2, <3>3
    <3>. QED BY <3>1, <3>2, <3>4
  <2>. QED BY <2>3, <2>4
<1>. QED BY <1>4, <1>5, <1>6, <1>7 DEF ScIInv

\* What a tick that commits does to a schedule it holds, and to its run.
LEMMA ScTickOfHeld ==
  ASSUME Sc!ScheduleAssumption, ScIInv, NEW w \in scTickers, Sc!CommitTick(w),
         NEW t \in scTicker[w].held
  PROVE  /\ t \in scTriggers /\ scTicker[w].at \in Nat
         /\ scSchedule[t].next \in Sc!Times /\ scSchedule[t].next <= scTicker[w].at
         /\ scSchedule[t].next > scCaught[t] /\ scSchedule[t].rec \in scRecurrences
         /\ scSchedule'[t] \in [rec : scRecurrences \cup {None}, next : Sc!Times \cup {None},
                              active : Sc!Times \cup {None}]
         /\ scSchedule'[t].rec = scSchedule[t].rec
         /\ scSchedule'[t].next # None =>
              scSchedule'[t].next \in scSchedule[t].rec /\ scSchedule'[t].next > scTicker[w].at
         /\ Sc!Busy(t) => /\ scRuns'[t] = scRuns[t] /\ scCaught'[t] = scCaught[t]
                          /\ scSchedule'[t].active = scSchedule[t].active
         /\ ~Sc!Busy(t) => /\ scRuns'[t] = [scRuns[t] EXCEPT ![scSchedule[t].next] = "running"]
                           /\ scCaught'[t] = scTicker[w].at
                           /\ scSchedule'[t].active = scSchedule[t].next
<1>1. t \in scTriggers /\ scTicker[w].at \in 0..scMaxTime
  BY DEF ScIInv, Sc!TypeOK
<1>2. scTicker[w].at \in Nat
  BY <1>1 DEF Sc!ScheduleAssumption
<1>3. /\ scSchedule[t] \in [rec : scRecurrences \cup {None}, next : Sc!Times \cup {None},
                          active : Sc!Times \cup {None}]
      /\ scSchedule[t].next # None /\ scSchedule[t].next <= scTicker[w].at
      /\ scSchedule[t].next > scCaught[t] /\ scSchedule[t].rec # None
  BY <1>1 DEF ScIInv, Sc!TypeOK, ScHeldInv, ScNextInv
<1>4. PICK busy \in BOOLEAN : busy = Sc!Busy(t)
  BY DEF Sc!Busy
<1>5. scSchedule'[t] = Sc!Advanced(scSchedule[t], scTicker[w].at, busy)
  BY <1>1, <1>4 DEF Sc!CommitTick
<1>6. /\ ~Sc!Busy(t) => scRuns'[t] = [scRuns[t] EXCEPT ![scSchedule[t].next] = "running"]
      /\ Sc!Busy(t) => scRuns'[t] = scRuns[t]
  BY <1>1 DEF Sc!CommitTick
<1>7. scCaught'[t] = IF Sc!Busy(t) THEN scCaught[t] ELSE scTicker[w].at
  BY <1>1 DEF Sc!CommitTick
<1>8. /\ scSchedule'[t] \in [rec : scRecurrences \cup {None}, next : Sc!Times \cup {None},
                           active : Sc!Times \cup {None}]
      /\ scSchedule'[t].active = (IF busy THEN scSchedule[t].active ELSE scSchedule[t].next)
      /\ scSchedule'[t].rec = scSchedule[t].rec
      /\ scSchedule'[t].next # None =>
           scSchedule'[t].next \in scSchedule[t].rec /\ scSchedule'[t].next > scTicker[w].at
  BY <1>2, <1>3, <1>5, ScTickedNext
<1>. QED BY <1>1, <1>2, <1>3, <1>4, <1>6, <1>7, <1>8

\* A tick that commits leaves what it does not hold.
LEMMA ScTickOfOthers ==
  ASSUME NEW w \in scTickers, Sc!CommitTick(w), NEW t \in scTriggers, t \notin scTicker[w].held
  PROVE  scSchedule'[t] = scSchedule[t] /\ scRuns'[t] = scRuns[t] /\ scCaught'[t] = scCaught[t]
BY DEF Sc!CommitTick

\* A tick commits, for all the schedules it holds at once.
LEMMA ScCommitTickKeeps ==
  ASSUME Sc!ScheduleAssumption, ScIInv, NEW w \in scTickers, Sc!CommitTick(w)
  PROVE  ScIInv'
<1>1. scTicker' = [scTicker EXCEPT ![w] = [pc |-> "idle", at |-> 0, held |-> {}]]
  BY DEF Sc!CommitTick, Sc!Waiting
<1>2. Sc!TypeOK'
  <2>1. scSchedule' \in [scTriggers -> [rec : scRecurrences \cup {None},
                                       next : Sc!Times \cup {None},
                                       active : Sc!Times \cup {None}]]
    <3>1. \A t \in scTriggers :
            scSchedule'[t] \in [rec : scRecurrences \cup {None}, next : Sc!Times \cup {None},
                                active : Sc!Times \cup {None}]
      <4>. TAKE t \in scTriggers
      <4>1. CASE t \in scTicker[w].held
        BY <4>1, ScTickOfHeld
      <4>2. CASE t \notin scTicker[w].held
        BY <4>2, ScTickOfOthers DEF ScIInv, Sc!TypeOK
      <4>. QED BY <4>1, <4>2
    <3>2. scSchedule' = [t \in scTriggers |-> scSchedule'[t]]
      BY DEF Sc!CommitTick
    <3>. QED BY <3>1, <3>2
  <2>2. scRuns' \in [scTriggers -> [Sc!Times -> {"none", "running", "ended"}]]
    <3>1. \A t \in scTriggers : scRuns'[t] \in [Sc!Times -> {"none", "running", "ended"}]
      <4>. TAKE t \in scTriggers
      <4>1. CASE t \in scTicker[w].held
        <5>1. scRuns[t] \in [Sc!Times -> {"none", "running", "ended"}]
          BY DEF ScIInv, Sc!TypeOK
        <5>2. \/ scRuns'[t] = scRuns[t]
              \/ scRuns'[t] = [scRuns[t] EXCEPT ![scSchedule[t].next] = "running"]
          BY <4>1, ScTickOfHeld
        <5>. QED BY <5>1, <5>2
      <4>2. CASE t \notin scTicker[w].held
        BY <4>2, ScTickOfOthers DEF ScIInv, Sc!TypeOK
      <4>. QED BY <4>1, <4>2
    <3>2. scRuns' = [t \in scTriggers |-> scRuns'[t]]
      BY DEF Sc!CommitTick
    <3>. QED BY <3>1, <3>2
  <2>3. scCaught' \in [scTriggers -> 0..scMaxTime]
    BY DEF Sc!CommitTick, ScIInv, Sc!TypeOK
  <2>. QED BY <1>1, <2>1, <2>2, <2>3 DEF Sc!CommitTick, ScIInv, Sc!TypeOK, Sc!ScheduleAssumption
<1>3. ScActiveInv'
  <2>1. SUFFICES ASSUME NEW t \in scTriggers, NEW x \in Sc!Times, scRuns'[t][x] = "running"
        PROVE  scSchedule'[t].active = x
    BY DEF ScActiveInv
  <2>2. scRuns[t] \in [Sc!Times -> {"none", "running", "ended"}]
    BY DEF ScIInv, Sc!TypeOK
  <2>3. CASE t \in scTicker[w].held /\ Sc!Busy(t)
    <3>1. scRuns'[t] = scRuns[t] /\ scSchedule'[t].active = scSchedule[t].active
      BY <2>3, ScTickOfHeld
    <3>. QED BY <2>1, <3>1 DEF ScIInv, ScActiveInv
  <2>4. CASE t \in scTicker[w].held /\ ~Sc!Busy(t)
    <3>1. scRuns[t][x] # "running"
      <4>1. SUFFICES ASSUME scRuns[t][x] = "running" PROVE FALSE
        OBVIOUS
      <4>2. scSchedule[t].active = x
        BY <4>1 DEF ScIInv, ScActiveInv
      <4>. QED BY <2>4, <4>1, <4>2 DEF Sc!Busy, Sc!ScheduleAssumption
    <3>. QED BY <2>1, <2>2, <2>4, <3>1, ScTickOfHeld
  <2>5. CASE t \notin scTicker[w].held
    BY <2>1, <2>5, ScTickOfOthers DEF ScIInv, ScActiveInv
  <2>. QED BY <2>3, <2>4, <2>5
<1>4. ScNextInv'
  <2>1. SUFFICES ASSUME NEW t \in scTriggers, scSchedule'[t].next # None
        PROVE  /\ scSchedule'[t].rec # None /\ scSchedule'[t].next \in scSchedule'[t].rec
               /\ scSchedule'[t].next > scCaught'[t]
    BY DEF ScNextInv
  <2>2. CASE t \in scTicker[w].held
    <3>1. /\ scSchedule[t].next > scCaught[t] /\ scSchedule[t].next <= scTicker[w].at
          /\ scSchedule[t].next \in Sc!Times /\ scTicker[w].at \in Nat
          /\ scSchedule[t].rec \in scRecurrences /\ scSchedule'[t].rec = scSchedule[t].rec
      BY <2>2, ScTickOfHeld
    <3>2. scSchedule'[t].next > scTicker[w].at /\ scSchedule'[t].next \in scSchedule[t].rec
      BY <2>1, <2>2, ScTickOfHeld
    <3>3. scCaught'[t] = scCaught[t] \/ scCaught'[t] = scTicker[w].at
      BY <2>2, ScTickOfHeld
    <3>4. t \in scTriggers /\ scSchedule'[t].next \in Sc!Times
      BY <2>2, <3>1, <3>2, ScTickOfHeld DEF Sc!ScheduleAssumption
    <3>5. scCaught[t] \in Nat /\ scSchedule'[t].next \in Nat /\ scSchedule[t].next \in Nat
      BY <3>1, <3>4 DEF ScIInv, Sc!TypeOK, Sc!ScheduleAssumption, Sc!Times
    <3>6. scSchedule'[t].next > scCaught'[t]
      BY <3>1, <3>2, <3>3, <3>5
    <3>. QED BY <3>1, <3>2, <3>6 DEF Sc!ScheduleAssumption
  <2>3. CASE t \notin scTicker[w].held
    BY <2>1, <2>3, ScTickOfOthers DEF ScIInv, ScNextInv
  <2>. QED BY <2>2, <2>3
<1>5. ScFreshInv'
  <2>1. SUFFICES ASSUME NEW t \in scTriggers, NEW x \in Sc!Times, x > scCaught'[t]
        PROVE  scRuns'[t][x] = "none"
    BY DEF ScFreshInv
  <2>2. CASE t \in scTicker[w].held /\ ~Sc!Busy(t)
    <3>1. /\ scSchedule[t].next > scCaught[t] /\ scSchedule[t].next <= scTicker[w].at
          /\ scSchedule[t].next \in Nat /\ scTicker[w].at \in Nat
          /\ scCaught'[t] = scTicker[w].at
          /\ scRuns'[t] = [scRuns[t] EXCEPT ![scSchedule[t].next] = "running"]
      BY <2>2, ScTickOfHeld DEF Sc!Times
    <3>2. /\ scCaught[t] \in Nat /\ x \in Nat
          /\ scRuns[t] \in [Sc!Times -> {"none", "running", "ended"}]
      BY DEF ScIInv, Sc!TypeOK, Sc!ScheduleAssumption, Sc!Times
    <3>3. x > scCaught[t] /\ x # scSchedule[t].next
      BY <2>1, <3>1, <3>2
    <3>4. scRuns[t][x] = "none"
      BY <3>3 DEF ScIInv, ScFreshInv
    <3>. QED BY <3>1, <3>2, <3>3, <3>4
  <2>3. CASE t \in scTicker[w].held /\ Sc!Busy(t)
    <3>1. scRuns'[t] = scRuns[t] /\ scCaught'[t] = scCaught[t]
      BY <2>3, ScTickOfHeld
    <3>. QED BY <2>1, <3>1 DEF ScIInv, ScFreshInv
  <2>4. CASE t \notin scTicker[w].held
    BY <2>1, <2>4, ScTickOfOthers DEF ScIInv, ScFreshInv
  <2>. QED BY <2>2, <2>3, <2>4
<1>6. ScClockInv'
  <2>1. \A t \in scTriggers : scCaught'[t] = scCaught[t] \/ scCaught'[t] = scTicker[w].at
    BY ScTickOfHeld, ScTickOfOthers
  <2>2. \A t \in scTriggers : scSaver[t].pc = "locked" => scCaught'[t] = scCaught[t]
    BY ScTickOfOthers DEF ScIInv, ScHeldInv
  <2>. QED BY <1>1, <2>1, <2>2 DEF Sc!CommitTick, ScIInv, ScClockInv, Sc!TypeOK
<1>7. ScHeldInv'
  <2>1. SUFFICES ASSUME NEW v \in scTickers, NEW t \in scTicker'[v].held
        PROVE  /\ scTicker'[v].pc = "locked" /\ scSaver[t].pc = "none" /\ scEnabled[t]
               /\ scSchedule'[t].next # None /\ scSchedule'[t].next <= scTicker'[v].at
               /\ \A u \in scTickers \ {v} : t \notin scTicker'[u].held
    BY DEF ScHeldInv, Sc!CommitTick
  <2>2. v # w /\ scTicker'[v] = scTicker[v] /\ t \notin scTicker[w].held /\ t \in scTriggers
    BY <1>1, <2>1 DEF ScIInv, Sc!TypeOK, ScHeldInv
  <2>3. scSchedule'[t] = scSchedule[t]
    BY <2>2, ScTickOfOthers
  <2>. QED BY <1>1, <2>1, <2>2, <2>3 DEF ScIInv, Sc!TypeOK, ScHeldInv
<1>. QED BY <1>2, <1>3, <1>4, <1>5, <1>6, <1>7 DEF ScIInv

\* A tick that fails leaves everything but itself.
LEMMA ScFailTickKeeps ==
  ASSUME Sc!ScheduleAssumption, ScIInv, NEW w \in scTickers, Sc!FailTick(w)
  PROVE  ScIInv'
<1>1. scTicker' = [scTicker EXCEPT ![w] = [pc |-> "idle", at |-> 0, held |-> {}]]
  BY DEF Sc!FailTick, Sc!Waiting
<1>2. Sc!TypeOK'
  <2>1. scTickFaults' \in 0..scMaxTickFaults
    BY DEF Sc!FailTick, ScIInv, Sc!TypeOK, Sc!ScheduleAssumption
  <2>. QED BY <1>1, <2>1 DEF Sc!FailTick, ScIInv, Sc!TypeOK, Sc!ScheduleAssumption
<1>3. ScActiveInv' /\ ScNextInv' /\ ScFreshInv'
  BY DEF Sc!FailTick, ScIInv, ScActiveInv, ScNextInv, ScFreshInv
<1>4. ScClockInv'
  BY <1>1 DEF Sc!FailTick, ScIInv, ScClockInv, Sc!TypeOK
<1>5. ScHeldInv'
  BY <1>1 DEF Sc!FailTick, ScIInv, ScHeldInv, Sc!TypeOK
<1>. QED BY <1>2, <1>3, <1>4, <1>5 DEF ScIInv

\* The end of a run.
LEMMA ScEndRunKeeps ==
  ASSUME Sc!ScheduleAssumption, ScIInv, NEW t \in scTriggers, NEW x \in Sc!Times, Sc!EndRun(t, x)
  PROVE  ScIInv'
<1>1. scRuns' = [scRuns EXCEPT ![t] = [scRuns[t] EXCEPT ![x] = "ended"]] /\ scRuns[t][x] = "running"
  BY DEF Sc!EndRun
<1>2. Sc!TypeOK'
  BY <1>1 DEF Sc!EndRun, ScIInv, Sc!TypeOK
<1>3. \A u \in scTriggers, y \in Sc!Times :
        scRuns'[u][y] # scRuns[u][y] => u = t /\ y = x /\ scRuns'[u][y] = "ended"
  BY <1>1 DEF ScIInv, Sc!TypeOK
<1>4. ScActiveInv' /\ ScFreshInv'
  BY <1>1, <1>3 DEF Sc!EndRun, ScIInv, ScActiveInv, ScFreshInv
<1>5. ScNextInv' /\ ScClockInv' /\ ScHeldInv'
  BY DEF Sc!EndRun, ScIInv, ScNextInv, ScClockInv, ScHeldInv
<1>. QED BY <1>2, <1>4, <1>5 DEF ScIInv

\* Time passes.
LEMMA ScTimePassesKeeps ==
  ASSUME Sc!ScheduleAssumption, ScIInv, Sc!TimePasses
  PROVE  ScIInv'
<1>1. Sc!TypeOK'
  BY DEF Sc!TimePasses, ScIInv, Sc!TypeOK, Sc!ScheduleAssumption
<1>2. ScClockInv'
  BY DEF Sc!TimePasses, ScIInv, ScClockInv, Sc!TypeOK, Sc!ScheduleAssumption
<1>3. ScActiveInv' /\ ScNextInv' /\ ScFreshInv' /\ ScHeldInv'
  BY DEF Sc!TimePasses, ScIInv, ScActiveInv, ScNextInv, ScFreshInv, ScHeldInv
<1>. QED BY <1>1, <1>2, <1>3 DEF ScIInv

\* Every step keeps the invariant.
LEMMA ScStepKeeps ==
  ASSUME Sc!ScheduleAssumption, ScIInv, [Sc!Next]_(Sc!vars)
  PROVE  ScIInv'
<1>1. ASSUME UNCHANGED Sc!vars PROVE ScIInv'
  BY <1>1 DEF Sc!vars, ScIInv, Sc!TypeOK, ScActiveInv, ScNextInv, ScFreshInv, ScClockInv, ScHeldInv
<1>. QED
  BY <1>1, ScTimePassesKeeps, ScStartTickKeeps, ScSelectDueKeeps, ScCommitTickKeeps,
     ScFailTickKeeps,
     ScLockForSaveKeeps, ScCommitSaveKeeps, ScEndRunKeeps DEF Sc!Next, Sc!Ticking

\* Both names are of the standard module's operator.
LEMMA ScCounts == ASSUME NEW T PROVE Sc!Cardinality(T) = Cardinality(T)
BY DEF Sc!Cardinality, Cardinality

\* All runs at work of a schedule are its active run.
LEMMA ScSafe ==
  ASSUME ScIInv
  PROVE  Sc!NoOverlap
<1>1. SUFFICES ASSUME NEW t \in scTriggers
      PROVE  Cardinality({x \in Sc!Times : scRuns[t][x] = "running"}) <= 1
  BY ScCounts DEF Sc!NoOverlap
<1>2. PICK S : S = {x \in Sc!Times : scRuns[t][x] = "running"}
  OBVIOUS
<1>3. S = {} \/ \E x : S = {x}
  BY <1>2 DEF ScIInv, ScActiveInv
<1>4. Cardinality(S) = 0 \/ Cardinality(S) = 1
  BY <1>3, FS_EmptySet, FS_Singleton
<1>. QED BY <1>2, <1>4

\* Only a tick that commits accepts a run: of a schedule that it holds.
LEMMA ScAcceptedByATick ==
  ASSUME Sc!ScheduleAssumption, ScIInv, [Sc!Next]_(Sc!vars), NEW t \in scTriggers,
         NEW x \in Sc!Times,
         scRuns[t][x] # scRuns'[t][x], scRuns'[t][x] = "running"
  PROVE  scEnabled[t] /\ x = scSchedule[t].next /\ scSchedule[t].next # None
<1>1. ASSUME NEW w \in scTickers, Sc!CommitTick(w)
      PROVE  scEnabled[t] /\ x = scSchedule[t].next /\ scSchedule[t].next # None
  <2>1. t \in scTicker[w].held
    BY <1>1, ScTickOfOthers
  <2>2. scEnabled[t] /\ scSchedule[t].next # None
    BY <2>1 DEF ScIInv, ScHeldInv
  <2>3. scRuns'[t] = scRuns[t] \/ scRuns'[t] = [scRuns[t] EXCEPT ![scSchedule[t].next] = "running"]
    BY <1>1, <2>1, ScTickOfHeld
  <2>4. scRuns[t] \in [Sc!Times -> {"none", "running", "ended"}]
    BY DEF ScIInv, Sc!TypeOK
  <2>. QED BY <2>2, <2>3, <2>4
<1>2. ASSUME NEW u \in scTriggers, NEW y \in Sc!Times, Sc!EndRun(u, y) PROVE FALSE
  BY <1>2 DEF Sc!EndRun, ScIInv, Sc!TypeOK
<1>3. ASSUME scRuns' = scRuns PROVE FALSE
  BY <1>3
<1>. QED
  BY <1>1, <1>2, <1>3
     DEF Sc!Next, Sc!Ticking, Sc!vars, Sc!TimePasses, Sc!StartTick, Sc!SelectDue, Sc!FailTick,
     Sc!LockForSave, Sc!CommitSave

\* Of the occurrences that were past when one was accepted, none is accepted.
LEMMA ScCatchesUpOnce ==
  ASSUME Sc!ScheduleAssumption, ScIInv, [Sc!Next]_(Sc!vars)
  PROVE  [\A t \in scTriggers, x \in Sc!Times :
            scRuns[t][x] # scRuns'[t][x] /\ scRuns'[t][x] = "running" =>
              scRuns[t][x] = "none" /\ x > scCaught[t]]_(Sc!vars)
<1>1. ASSUME NEW t \in scTriggers, NEW x \in Sc!Times,
             scRuns[t][x] # scRuns'[t][x], scRuns'[t][x] = "running"
      PROVE  scRuns[t][x] = "none" /\ x > scCaught[t]
  BY <1>1, ScAcceptedByATick DEF ScIInv, ScNextInv, ScFreshInv
<1>. QED BY <1>1

\* A run is of the recurrence saved last, of a trigger enabled then.
LEMMA ScRespectsEdits ==
  ASSUME Sc!ScheduleAssumption, ScIInv, [Sc!Next]_(Sc!vars)
  PROVE  [\A t \in scTriggers, x \in Sc!Times :
            scRuns[t][x] = "none" /\ scRuns'[t][x] = "running" =>
              scEnabled[t] /\ scSchedule[t].rec # None /\ x \in scSchedule[t].rec]_(Sc!vars)
<1>1. ASSUME NEW t \in scTriggers, NEW x \in Sc!Times,
             scRuns[t][x] = "none", scRuns'[t][x] = "running"
      PROVE  scEnabled[t] /\ scSchedule[t].rec # None /\ x \in scSchedule[t].rec
  BY <1>1, ScAcceptedByATick DEF ScIInv, ScNextInv
<1>. QED BY <1>1

-----------------------------------------------------------------------------
(* Provider runtime *)

RuChange ==
  [pc : {"none", "queued", "prepared", "started", "saved"},
   candidate : ruRegistrations \cup {None}, startup : BOOLEAN]

\* A candidate is not the registration in the slot, and has been started before it is
\* published.
RuCandidateInv ==
  /\ ruChange \in RuChange
  /\ ruChange.pc \in {"prepared", "started", "saved"} =>
       ruChange.candidate \in ruRegistrations /\ ruChange.candidate # ruSlot
  /\ ruChange.pc \in {"started", "saved"} => ruSources[ruChange.candidate] = "on"

\* Versions are saved in their order.
RuSavedInv == \A v \in 1..ruMaxStored : ruSavedBy[v] # "nobody" => v <= ruStored

RuIInv == Ru!TypeOK /\ RuCandidateInv /\ RuSavedInv /\ Ru!ReplacementHasNoGap

\* The initial states satisfy the invariant.
LEMMA RuInitially ==
  ASSUME Ru!RuntimeAssumption, Ru!Init
  PROVE  RuIInv
<1>1. Ru!Startup \in RuChange /\ Ru!Startup.pc = "queued"
  BY DEF Ru!Startup, RuChange
<1>2. Ru!TypeOK
  BY <1>1 DEF Ru!RuntimeAssumption, Ru!Init, Ru!TypeOK
<1>3. RuCandidateInv
  BY <1>1 DEF Ru!Init, RuCandidateInv
<1>4. RuSavedInv
  BY DEF Ru!RuntimeAssumption, Ru!Init, RuSavedInv
<1>5. Ru!ReplacementHasNoGap
  BY DEF Ru!Init, Ru!ReplacementHasNoGap
<1>. QED BY <1>2, <1>3, <1>4, <1>5 DEF RuIInv

\* Stopping changes the sources of one registration, from on.
LEMMA RuStopping ==
  ASSUME Ru!TypeOK, NEW r \in ruRegistrations \cup {None}
  PROVE  /\ Ru!Stopped(r) \in [ruRegistrations -> {"off", "starting", "on", "stopping"}]
         /\ \A x \in ruRegistrations : x # r => Ru!Stopped(r)[x] = ruSources[x]
BY DEF Ru!TypeOK, Ru!Stopped

\* The steps of a change up to its save; what they do to the change.
LEMMA RuChangeSteps ==
  ASSUME Ru!RuntimeAssumption, RuIInv,
         \/ Ru!BeginChange \/ Ru!NothingStored \/ Ru!SourcesStart \/ Ru!SourcesFail
         \/ Ru!Save \/ Ru!SaveFails
         \/ \E r \in ruRegistrations, expected \in 0..ruMaxStored : Ru!Prepare(r, expected)
  PROVE  RuIInv'
<1>. USE DEF RuIInv
<1>1. CASE Ru!BeginChange
  <2>1. ruChange' = [pc |-> "queued", candidate |-> None, startup |-> FALSE]
    BY <1>1 DEF Ru!BeginChange, Ru!Startup
  <2>2. ruChange' \in RuChange
    BY <2>1 DEF RuChange
  <2>. QED
    BY <1>1, <2>1, <2>2
    DEF Ru!BeginChange, Ru!TypeOK, RuCandidateInv, RuSavedInv, Ru!ReplacementHasNoGap
<1>2. CASE Ru!NothingStored \/ Ru!SourcesFail \/ Ru!SaveFails
  <2>1. ruChange' = [pc |-> "none", candidate |-> None, startup |-> FALSE]
    BY <1>2 DEF Ru!NothingStored, Ru!SourcesFail, Ru!SaveFails, Ru!NoChange
  <2>2. ruChange' \in RuChange
    BY <2>1 DEF RuChange
  <2>3. /\ ruSources' \in [ruRegistrations -> {"off", "starting", "on", "stopping"}]
        /\ \A x \in ruRegistrations :
             ruSources'[x] = ruSources[x] \/ (x = ruChange.candidate /\ x # ruSlot)
    <3>1. CASE Ru!NothingStored
      BY <3>1 DEF Ru!NothingStored, Ru!TypeOK
    <3>2. CASE Ru!SourcesFail
      BY <3>2 DEF Ru!SourcesFail, Ru!TypeOK, RuCandidateInv
    <3>3. CASE Ru!SaveFails
      <4>1. ruChange.candidate \in ruRegistrations /\ ruChange.candidate # ruSlot
        BY <3>3 DEF Ru!SaveFails, RuCandidateInv
      <4>2. ruSources' = Ru!Stopped(ruChange.candidate)
        BY <3>3 DEF Ru!SaveFails, Ru!ClosedCandidate
      <4>. QED BY <4>1, <4>2, RuStopping
    <3>. QED BY <1>2, <3>1, <3>2, <3>3
  <2>4. UNCHANGED <<ruStored, ruSlot, ruVersion, ruAccepting, ruSavedBy>>
    BY <1>2 DEF Ru!NothingStored, Ru!SourcesFail, Ru!SaveFails
  <2>. QED
    BY <2>1, <2>2, <2>3, <2>4
    DEF Ru!TypeOK, RuCandidateInv, RuSavedInv, Ru!ReplacementHasNoGap
<1>3. CASE Ru!SourcesStart
  <2>1. /\ ruChange.pc = "prepared" /\ ruChange.candidate \in ruRegistrations
        /\ ruChange.candidate # ruSlot /\ ruChange \in RuChange
    BY <1>3 DEF Ru!SourcesStart, RuCandidateInv
  <2>2. /\ ruChange' = [ruChange EXCEPT !.pc = "started"]
        /\ ruSources' = [ruSources EXCEPT ![ruChange.candidate] = "on"]
        /\ UNCHANGED <<ruStored, ruSlot, ruVersion, ruAccepting, ruSavedBy>>
    BY <1>3 DEF Ru!SourcesStart
  <2>3. /\ ruChange' \in RuChange /\ ruChange'.pc = "started"
        /\ ruChange'.candidate = ruChange.candidate
    BY <2>1, <2>2 DEF RuChange
  <2>4. /\ ruSources' \in [ruRegistrations -> {"off", "starting", "on", "stopping"}]
        /\ ruSources'[ruChange.candidate] = "on"
        /\ \A x \in ruRegistrations : x # ruChange.candidate => ruSources'[x] = ruSources[x]
    BY <2>1, <2>2 DEF Ru!TypeOK
  <2>. QED
    BY <2>1, <2>2, <2>3, <2>4
    DEF Ru!TypeOK, RuCandidateInv, RuSavedInv, Ru!ReplacementHasNoGap
<1>4. CASE Ru!Save
  <2>1. /\ ruChange.pc = "started" /\ ruChange.candidate \in ruRegistrations
        /\ ruChange.candidate # ruSlot /\ ruChange \in RuChange
        /\ ruSources[ruChange.candidate] = "on"
    BY <1>4 DEF Ru!Save, RuCandidateInv
  <2>2. /\ ruChange' = [ruChange EXCEPT !.pc = "saved"]
        /\ UNCHANGED <<ruSources, ruSlot, ruVersion, ruAccepting>>
    BY <1>4 DEF Ru!Save
  <2>3. /\ ruChange' \in RuChange /\ ruChange'.pc = "saved"
        /\ ruChange'.candidate = ruChange.candidate
    BY <2>1, <2>2 DEF RuChange
  <2>4. \/ UNCHANGED <<ruStored, ruSavedBy>>
        \/ /\ ruStored' = ruStored + 1 /\ ruStored' <= ruMaxStored
           /\ ruSavedBy' = [ruSavedBy EXCEPT ![ruStored'] = "own"]
    <3>1. ruVersion[ruChange.candidate] \in 0..(ruMaxStored + 1)
      BY <2>1 DEF Ru!TypeOK
    <3>. QED BY <1>4, <3>1 DEF Ru!Save, Ru!VersionMatches
  <2>5. /\ ruStored' \in 0..ruMaxStored
        /\ ruSavedBy' \in [1..ruMaxStored -> {"nobody", "other", "own"}]
        /\ RuSavedInv'
    BY <2>4 DEF Ru!RuntimeAssumption, Ru!TypeOK, RuSavedInv
  <2>. QED
    BY <2>1, <2>2, <2>3, <2>5 DEF Ru!TypeOK, RuCandidateInv, Ru!ReplacementHasNoGap
<1>5. ASSUME NEW r \in ruRegistrations, NEW expected \in 0..ruMaxStored,
             Ru!Prepare(r, expected)
      PROVE  RuIInv'
  <2>1. /\ r # ruSlot /\ ruChange \in RuChange
        /\ ruChange' = [ruChange EXCEPT !.pc = "prepared", !.candidate = r]
        /\ ruSources' = [ruSources EXCEPT ![r] = "starting"]
        /\ ruAccepting' = [ruAccepting EXCEPT ![r] = FALSE]
        /\ UNCHANGED <<ruStored, ruSlot, ruSavedBy>>
    BY <1>5 DEF Ru!Prepare, Ru!Fresh, RuCandidateInv
  <2>2. ruChange' \in RuChange /\ ruChange'.pc = "prepared" /\ ruChange'.candidate = r
    BY <2>1 DEF RuChange
  <2>3. ruVersion' \in [ruRegistrations -> 0..(ruMaxStored + 1)]
    <3>1. ruStored \in 0..(ruMaxStored + 1) /\ expected + 1 \in 0..(ruMaxStored + 1)
      BY DEF Ru!TypeOK, Ru!RuntimeAssumption
    <3>2. ruVersion' = [ruVersion EXCEPT ![r] = IF ruChange.startup THEN ruStored
                                                ELSE expected + 1]
      BY <1>5 DEF Ru!Prepare
    <3>. QED BY <3>1, <3>2 DEF Ru!TypeOK
  <2>4. Ru!TypeOK'
    BY <2>1, <2>2, <2>3 DEF Ru!TypeOK
  <2>5. RuCandidateInv' /\ RuSavedInv'
    BY <2>1, <2>2 DEF RuCandidateInv, RuSavedInv
  <2>6. Ru!ReplacementHasNoGap'
    BY <2>1 DEF Ru!ReplacementHasNoGap, Ru!TypeOK
  <2>. QED BY <2>4, <2>5, <2>6
<1>. QED BY <1>1, <1>2, <1>3, <1>4, <1>5

\* Every step keeps the invariant.
LEMMA RuInductive ==
  ASSUME Ru!RuntimeAssumption, RuIInv, [Ru!Next]_(Ru!vars)
  PROVE  RuIInv'
<1>. USE DEF RuIInv
<1>1. CASE Ru!Publish
  <2>1. /\ ruChange.pc = "saved" /\ ruChange.candidate \in ruRegistrations
        /\ ruChange.candidate # ruSlot /\ ruSources[ruChange.candidate] = "on"
    BY <1>1 DEF Ru!Publish, RuCandidateInv
  <2>2. /\ ruSlot' = ruChange.candidate
        /\ ruAccepting' = [x \in ruRegistrations |-> x = ruChange.candidate]
        /\ ruSources' = Ru!Stopped(ruSlot)
        /\ UNCHANGED <<ruStored, ruVersion, ruSavedBy>>
        /\ ruChange' = [pc |-> "none", candidate |-> None, startup |-> FALSE]
    BY <1>1 DEF Ru!Publish, Ru!RetiredPrevious, Ru!NoChange
  <2>3. /\ ruSources' \in [ruRegistrations -> {"off", "starting", "on", "stopping"}]
        /\ ruSources'[ruChange.candidate] = "on"
    BY <2>1, <2>2, RuStopping DEF Ru!TypeOK
  <2>4. ruChange' \in RuChange /\ ruChange'.pc = "none"
    BY <2>2 DEF RuChange
  <2>. QED
    BY <2>1, <2>2, <2>3, <2>4
    DEF Ru!TypeOK, RuCandidateInv, RuSavedInv, Ru!ReplacementHasNoGap
<1>2. ASSUME NEW r \in ruRegistrations, Ru!SourcesStopped(r) PROVE RuIInv'
  BY <1>2
  DEF Ru!SourcesStopped, Ru!TypeOK, RuCandidateInv, RuSavedInv, Ru!ReplacementHasNoGap
<1>3. CASE Ru!SavedElsewhere
  <2>1. /\ ruStored' = ruStored + 1 /\ ruStored' <= ruMaxStored
        /\ ruSavedBy' = [ruSavedBy EXCEPT ![ruStored'] = "other"]
    BY <1>3 DEF Ru!SavedElsewhere, Ru!TypeOK, Ru!RuntimeAssumption
  <2>2. /\ ruStored' \in 0..ruMaxStored
        /\ ruSavedBy' \in [1..ruMaxStored -> {"nobody", "other", "own"}]
        /\ RuSavedInv'
    BY <2>1 DEF Ru!RuntimeAssumption, Ru!TypeOK, RuSavedInv
  <2>. QED
    BY <1>3, <2>2
    DEF Ru!SavedElsewhere, Ru!TypeOK, RuCandidateInv, Ru!ReplacementHasNoGap
<1>4. CASE Ru!CrashAndRestart
  <2>1. ruChange' \in RuChange /\ ruChange'.pc = "queued"
    BY <1>4 DEF Ru!CrashAndRestart, Ru!Startup, RuChange
  <2>2. Ru!TypeOK'
    BY <1>4, <2>1 DEF Ru!CrashAndRestart, Ru!TypeOK, Ru!RuntimeAssumption
  <2>. QED
    BY <1>4, <2>1, <2>2
    DEF Ru!CrashAndRestart, RuCandidateInv, RuSavedInv, Ru!ReplacementHasNoGap
<1>5. CASE UNCHANGED Ru!vars
  BY <1>5 DEF Ru!vars, Ru!TypeOK, RuCandidateInv, RuSavedInv, Ru!ReplacementHasNoGap
<1>. QED
  BY <1>1, <1>2, <1>3, <1>4, <1>5, RuChangeSteps DEF Ru!Next, Ru!Proceeding

\* A version is written once: by a change that expected it to be the next one, or by
\* another process.
LEMMA RuSavesOnce ==
  ASSUME Ru!RuntimeAssumption, RuIInv, [Ru!Next]_(Ru!vars)
  PROVE  [\A v \in 1..ruMaxStored :
            ruSavedBy[v] # "nobody" => ruSavedBy'[v] = ruSavedBy[v]]_(Ru!vars)
<1>1. SUFFICES ASSUME NEW v \in 1..ruMaxStored, ruSavedBy[v] # "nobody"
      PROVE  ruSavedBy'[v] = ruSavedBy[v]
  OBVIOUS
<1>2. v <= ruStored /\ ruStored \in Nat
  BY <1>1 DEF RuIInv, RuSavedInv, Ru!TypeOK, Ru!RuntimeAssumption
<1>3. CASE Ru!Save
  <2>1. ruVersion[ruChange.candidate] \in Nat
    BY <1>3 DEF Ru!Save, RuIInv, RuCandidateInv, Ru!TypeOK, Ru!RuntimeAssumption
  <2>. QED
    BY <1>2, <1>3, <2>1 DEF Ru!Save, Ru!VersionMatches, RuIInv, Ru!TypeOK
<1>4. CASE Ru!SavedElsewhere
  BY <1>2, <1>4 DEF Ru!SavedElsewhere, RuIInv, Ru!TypeOK
<1>5. CASE UNCHANGED ruSavedBy
  BY <1>5
<1>. QED
  BY <1>3, <1>4, <1>5
  DEF Ru!Next, Ru!Proceeding, Ru!vars, Ru!BeginChange, Ru!Prepare, Ru!NothingStored,
      Ru!SourcesStart, Ru!SourcesFail, Ru!SaveFails, Ru!Publish, Ru!SourcesStopped,
      Ru!CrashAndRestart

-----------------------------------------------------------------------------
(* Execution outputs *)

OuSucceeded == {c \in ouCalls : ouAttempt[c] = "succeeded"}

\* Where a call is says what became of its attempt; what was recorded was sent.
OuAttemptInv ==
  \A c \in ouCalls :
    /\ ouCall[c] = "idle" => ouAttempt[c] = "none" /\ c \notin ouSent
    /\ ouCall[c] \in {"sending", "sent", "failing"} => ouAttempt[c] = "pending"
    /\ ouCall[c] = "done" => ouAttempt[c] \in {"succeeded", "failed"}
    /\ ouCall[c] = "sent" \/ ouAttempt[c] = "succeeded" => c \in ouSent

\* What was recorded and what is under way is within the limit.
OuCountInv ==
  /\ ouEmissions = Cardinality(OuSucceeded)
  /\ ouEmissions + Cardinality(Ou!UnderWay) <= ouMaxOutputs

\* What is required is sent before the end is asked for.
OuFinishInv == (ouFinish = "checked" \/ ouStatus = "succeeded") => ouEmissions > 0

\* A turn is heard of, or will be, when it is over; the archive waits for that.
OuTurnInv ==
  /\ ouSigns.terminal \/ (\E i \in 1..Len(ouEvents) : ouEvents[i] = "turn") =>
       ouTurn.over \/ ouTurn.n > 1
  /\ ouStatus = "running" => ouAction = "none"
  /\ ouStatus = "succeeded" /\ ouAction \in {"ready", "archived"} => ouSigns.terminal

OuIInv == Ou!TypeOK /\ OuAttemptInv /\ OuCountInv /\ OuFinishInv /\ OuTurnInv

\* Both names are of the standard module's operator.
LEMMA OuCounts == ASSUME NEW T PROVE Ou!Cardinality(T) = Cardinality(T)
BY DEF Ou!Cardinality, Cardinality

\* Sets of calls are finite.
LEMMA OuFinite ==
  ASSUME Ou!OutputsAssumption, NEW T \in SUBSET ouCalls
  PROVE  IsFiniteSet(T) /\ Cardinality(T) \in Nat /\ Cardinality(T) <= Cardinality(ouCalls)
<1>1. IsFiniteSet(ouCalls)
  BY DEF Ou!OutputsAssumption, Ou!IsFiniteSet, IsFiniteSet
<1>. QED BY <1>1, FS_Subset, FS_CardinalityType

\* The initial state satisfies the invariant.
LEMMA OuInitially ==
  ASSUME Ou!OutputsAssumption, Ou!Init
  PROVE  OuIInv
<1>1. OuSucceeded = {} /\ Ou!UnderWay = {}
  BY DEF Ou!Init, OuSucceeded, Ou!UnderWay
<1>2. Cardinality({}) = 0
  BY FS_EmptySet
<1>3. Ou!TypeOK
  <2>1. 0 \in 0..Ou!Cardinality(ouCalls)
    BY OuCounts, OuFinite
  <2>. QED BY <2>1 DEF Ou!OutputsAssumption, Ou!Init, Ou!TypeOK
<1>4. OuAttemptInv
  BY DEF Ou!Init, OuAttemptInv
<1>5. OuCountInv
  BY <1>1, <1>2 DEF Ou!OutputsAssumption, Ou!Init, OuCountInv
<1>6. OuFinishInv /\ OuTurnInv
  BY DEF Ou!Init, OuFinishInv, OuTurnInv
<1>. QED BY <1>3, <1>4, <1>5, <1>6 DEF OuIInv

\* What a step that leaves the outputs alone leaves alone.
LEMMA OuOutputsStay ==
  ASSUME OuIInv, UNCHANGED Ou!outputVars
  PROVE  OuAttemptInv' /\ OuCountInv'
BY DEF OuIInv, Ou!outputVars, OuAttemptInv, OuCountInv, OuSucceeded, Ou!UnderWay

\* A call begins: one more is under way.
LEMMA OuBeginKeeps ==
  ASSUME Ou!OutputsAssumption, OuIInv, NEW c \in ouCalls, Ou!Begin(c)
  PROVE  OuIInv'
<1>. USE DEF OuIInv
<1>1. /\ ouCall[c] = "idle" /\ ouEmissions + Cardinality(Ou!UnderWay) < ouMaxOutputs
      /\ ouAttempt' = [ouAttempt EXCEPT ![c] = "pending"]
      /\ ouCall' = [ouCall EXCEPT ![c] = "sending"]
      /\ UNCHANGED <<ouStatus, ouOverdue, ouSent, ouEmissions, ouFinish, ouSigns, ouAction,
                     ouTurn, ouEvents>>
  BY OuCounts DEF Ou!Begin, Ou!handshake
<1>2. Ou!TypeOK'
  BY <1>1 DEF Ou!TypeOK
<1>3. OuAttemptInv'
  BY <1>1 DEF Ou!TypeOK, OuAttemptInv
<1>4. OuCountInv'
  <2>1. OuSucceeded' = OuSucceeded
    BY <1>1 DEF Ou!TypeOK, OuAttemptInv, OuSucceeded
  <2>2. Ou!UnderWay' \subseteq Ou!UnderWay \cup {c}
    BY <1>1 DEF Ou!TypeOK, Ou!UnderWay
  <2>3. PICK S \in SUBSET ouCalls, T \in SUBSET ouCalls : S = Ou!UnderWay /\ T = Ou!UnderWay'
    BY DEF Ou!UnderWay
  <2>4. Cardinality(S \cup {c}) <= Cardinality(S) + 1
    BY OuFinite, FS_AddElement
  <2>5. Cardinality(T) <= Cardinality(S \cup {c})
    BY <2>2, <2>3, OuFinite, FS_Subset
  <2>6. Cardinality(T) <= Cardinality(S) + 1
    BY <2>4, <2>5, OuFinite
  <2>7. Cardinality(S) \in Nat /\ Cardinality(T) \in Nat /\ ouEmissions \in Int
    BY OuFinite, OuCounts DEF Ou!TypeOK
  <2>. QED BY <1>1, <2>1, <2>3, <2>6, <2>7 DEF OuCountInv, Ou!OutputsAssumption
<1>5. OuFinishInv' /\ OuTurnInv'
  BY <1>1 DEF OuFinishInv, OuTurnInv
<1>. QED BY <1>2, <1>3, <1>4, <1>5

\* A call reaches the provider, or fails.
LEMMA OuDeliverKeeps ==
  ASSUME Ou!OutputsAssumption, OuIInv, NEW c \in ouCalls, NEW taken \in BOOLEAN,
         NEW failed \in BOOLEAN, Ou!Deliver(c, taken, failed)
  PROVE  OuIInv'
<1>. USE DEF OuIInv
<1>1. /\ ouCall[c] = "sending"
      /\ ouSent' = IF taken THEN ouSent \cup {c} ELSE ouSent
      /\ ouCall' = [ouCall EXCEPT ![c] = IF failed THEN "failing" ELSE "sent"]
      /\ taken \/ failed
      /\ UNCHANGED <<ouStatus, ouAttempt, ouOverdue, ouEmissions, ouFinish, ouSigns, ouAction,
                     ouTurn, ouEvents>>
  BY DEF Ou!Deliver, Ou!handshake
<1>2. Ou!TypeOK'
  BY <1>1 DEF Ou!TypeOK
<1>3. OuAttemptInv'
  BY <1>1 DEF Ou!TypeOK, OuAttemptInv
<1>4. OuCountInv'
  BY <1>1 DEF OuCountInv, OuSucceeded, Ou!UnderWay
<1>5. OuFinishInv' /\ OuTurnInv'
  BY <1>1 DEF OuFinishInv, OuTurnInv
<1>. QED BY <1>2, <1>3, <1>4, <1>5

\* A lease passes: one fewer is under way.
LEMMA OuLeasePassesKeeps ==
  ASSUME Ou!OutputsAssumption, OuIInv, NEW c \in ouCalls, Ou!LeasePasses(c)
  PROVE  OuIInv'
<1>. USE DEF OuIInv
<1>1. /\ ouOverdue' = [ouOverdue EXCEPT ![c] = TRUE]
      /\ UNCHANGED <<ouStatus, ouAttempt, ouSent, ouEmissions, ouCall, ouFinish, ouSigns,
                     ouAction, ouTurn, ouEvents>>
  BY DEF Ou!LeasePasses, Ou!handshake
<1>2. Ou!TypeOK' /\ OuAttemptInv'
  BY <1>1 DEF Ou!TypeOK, OuAttemptInv
<1>3. OuCountInv'
  <2>1. OuSucceeded' = OuSucceeded /\ Ou!UnderWay' \subseteq Ou!UnderWay
    BY <1>1 DEF Ou!TypeOK, OuSucceeded, Ou!UnderWay
  <2>2. PICK S \in SUBSET ouCalls, T \in SUBSET ouCalls : S = Ou!UnderWay /\ T = Ou!UnderWay'
    BY DEF Ou!UnderWay
  <2>3. Cardinality(T) <= Cardinality(S) /\ Cardinality(T) \in Nat /\ Cardinality(S) \in Nat
    BY <2>1, <2>2, OuFinite, FS_Subset
  <2>4. ouEmissions \in Int
    BY OuFinite, OuCounts DEF Ou!TypeOK
  <2>. QED BY <1>1, <2>1, <2>2, <2>3, <2>4 DEF OuCountInv, Ou!OutputsAssumption
<1>4. OuFinishInv' /\ OuTurnInv'
  BY <1>1 DEF OuFinishInv, OuTurnInv
<1>. QED BY <1>2, <1>3, <1>4

\* An attempt is recorded: as succeeded only while it was still under way.
LEMMA OuRecordKeeps ==
  ASSUME Ou!OutputsAssumption, OuIInv, NEW c \in ouCalls, Ou!Record(c)
  PROVE  OuIInv'
<1>. USE DEF OuIInv
<1>1. /\ ouCall[c] \in {"sent", "failing"} /\ ouAttempt[c] = "pending"
      /\ ouCall' = [ouCall EXCEPT ![c] = "done"]
      /\ UNCHANGED <<ouStatus, ouOverdue, ouSent, ouFinish, ouSigns, ouAction, ouTurn,
                     ouEvents>>
  BY DEF Ou!Record, Ou!handshake, OuAttemptInv
<1>2. PICK S \in SUBSET ouCalls, T \in SUBSET ouCalls, U \in SUBSET ouCalls, V \in SUBSET ouCalls :
        /\ S = Ou!UnderWay /\ T = Ou!UnderWay' /\ U = OuSucceeded /\ V = OuSucceeded'
  BY DEF Ou!UnderWay, OuSucceeded
<1>3. /\ Cardinality(S) \in Nat /\ Cardinality(T) \in Nat /\ Cardinality(U) \in Nat
      /\ IsFiniteSet(S) /\ IsFiniteSet(U) /\ ouEmissions = Cardinality(U)
      /\ ouEmissions + Cardinality(S) <= ouMaxOutputs
  BY <1>2, OuFinite DEF OuCountInv
<1>4. CASE ouCall[c] = "sent" /\ Ou!InTime(c)
  <2>1. ouAttempt' = [ouAttempt EXCEPT ![c] = "succeeded"] /\ ouEmissions' = ouEmissions + 1
    BY <1>4 DEF Ou!Record
  <2>2. c \in S /\ T = S \ {c} /\ c \notin U /\ V = U \cup {c}
    BY <1>1, <1>2, <1>4, <2>1 DEF Ou!InTime, Ou!UnderWay, OuSucceeded, Ou!TypeOK
  <2>3. Cardinality(T) = Cardinality(S) - 1 /\ Cardinality(V) = Cardinality(U) + 1
    BY <1>3, <2>2, FS_AddElement, FS_RemoveElement
  <2>4. OuCountInv'
    BY <1>2, <1>3, <2>1, <2>3 DEF OuCountInv, Ou!OutputsAssumption
  <2>5. OuAttemptInv'
    BY <1>1, <1>4, <2>1 DEF OuAttemptInv, Ou!TypeOK
  <2>6. Ou!TypeOK'
    <3>1. ouEmissions' \in 0..Ou!Cardinality(ouCalls)
      BY <1>2, <1>3, <2>1, <2>3, OuFinite, OuCounts
    <3>. QED BY <1>1, <2>1, <3>1 DEF Ou!TypeOK
  <2>7. OuFinishInv' /\ OuTurnInv'
    BY <1>1, <1>3, <2>1 DEF OuFinishInv, OuTurnInv
  <2>. QED BY <2>4, <2>5, <2>6, <2>7
<1>5. CASE ~(ouCall[c] = "sent" /\ Ou!InTime(c))
  <2>1. ouAttempt' = [ouAttempt EXCEPT ![c] = "failed"] /\ ouEmissions' = ouEmissions
    BY <1>5 DEF Ou!Record
  <2>2. T \subseteq S /\ V = U
    BY <1>1, <1>2, <2>1 DEF Ou!UnderWay, OuSucceeded, Ou!TypeOK
  <2>3. Cardinality(T) <= Cardinality(S)
    BY <1>3, <2>2, FS_Subset
  <2>4. OuCountInv'
    BY <1>2, <1>3, <2>1, <2>2, <2>3 DEF OuCountInv, Ou!OutputsAssumption
  <2>5. OuAttemptInv'
    BY <1>1, <2>1 DEF OuAttemptInv, Ou!TypeOK
  <2>6. Ou!TypeOK'
    BY <1>1, <2>1 DEF Ou!TypeOK
  <2>7. OuFinishInv' /\ OuTurnInv'
    BY <1>1, <2>1 DEF OuFinishInv, OuTurnInv
  <2>. QED BY <2>4, <2>5, <2>6, <2>7
<1>. QED BY <1>4, <1>5

OuEvents == {"running", "failed", "completed", "turn", "idle"}

\* What is heard of the call that finishes the execution is no turn.
LEMMA OuOtherEvent ==
  ASSUME OuIInv, NEW e \in OuEvents, ouEvents' = Append(ouEvents, e), e # "turn"
  PROVE  /\ ouEvents' \in Seq(OuEvents)
         /\ (\E i \in 1..Len(ouEvents') : ouEvents'[i] = "turn") =>
              (\E i \in 1..Len(ouEvents) : ouEvents[i] = "turn")
BY DEF OuIInv, Ou!TypeOK, OuEvents

\* The call that finishes the execution.
LEMMA OuFinishKeeps ==
  ASSUME Ou!OutputsAssumption, OuIInv,
         \/ Ou!BeginFinish \/ Ou!Complete \/ Ou!Acknowledge \/ Ou!LoseFinish
         \/ Ou!FinishAgain
  PROVE  OuIInv'
<1>. USE DEF OuIInv
<1>1. UNCHANGED Ou!outputVars /\ UNCHANGED ouTurn
  BY DEF Ou!BeginFinish, Ou!Complete, Ou!Acknowledge, Ou!LoseFinish, Ou!FinishAgain,
         Ou!handshake
<1>2. ouEmissions \in Int
  BY OuFinite, OuCounts DEF Ou!TypeOK
<1>3. \/ UNCHANGED ouEvents
      \/ \E e \in OuEvents \ {"turn"} : ouEvents' = Append(ouEvents, e)
  BY DEF Ou!BeginFinish, Ou!Complete, Ou!Acknowledge, Ou!LoseFinish, Ou!FinishAgain, OuEvents
<1>4. /\ ouEvents' \in Seq(OuEvents)
      /\ (\E i \in 1..Len(ouEvents') : ouEvents'[i] = "turn") =>
           (\E i \in 1..Len(ouEvents) : ouEvents[i] = "turn")
  <2>1. CASE UNCHANGED ouEvents
    BY <2>1 DEF Ou!TypeOK, OuEvents
  <2>2. ASSUME NEW e \in OuEvents \ {"turn"}, ouEvents' = Append(ouEvents, e)
        PROVE  /\ ouEvents' \in Seq(OuEvents)
               /\ (\E i \in 1..Len(ouEvents') : ouEvents'[i] = "turn") =>
                    (\E i \in 1..Len(ouEvents) : ouEvents[i] = "turn")
    BY <2>2, OuOtherEvent
  <2>. QED BY <1>3, <2>1, <2>2
<1>5. /\ ouSigns' \in [terminal : BOOLEAN, idle : BOOLEAN,
                      finish : {"none", "running", "failed", "completed"}]
      /\ ouSigns'.terminal = ouSigns.terminal
  BY DEF Ou!BeginFinish, Ou!Complete, Ou!Acknowledge, Ou!LoseFinish, Ou!FinishAgain, Ou!TypeOK
<1>6. /\ ouStatus' \in {"running", "succeeded", "failed"}
      /\ ouFinish' \in {"none", "checked", "completed", "done", "again"}
      /\ ouAction' \in {"none", "archive", "ready", "archived"}
  BY DEF Ou!BeginFinish, Ou!Complete, Ou!Acknowledge, Ou!LoseFinish, Ou!FinishAgain, Ou!TypeOK
<1>7. Ou!TypeOK'
  BY <1>1, <1>4, <1>5, <1>6 DEF Ou!TypeOK, Ou!outputVars, OuEvents
<1>8. OuAttemptInv' /\ OuCountInv'
  BY <1>1, OuOutputsStay
<1>9. OuFinishInv'
  BY <1>1, <1>2
  DEF Ou!BeginFinish, Ou!Complete, Ou!Acknowledge, Ou!LoseFinish, Ou!FinishAgain,
      OuFinishInv, Ou!NothingMissing, Ou!outputVars, Ou!Live
<1>10. OuTurnInv'
  <2>1. /\ ouStatus' = "running" => ouAction' = "none"
        /\ ouStatus' = "succeeded" /\ ouAction' \in {"ready", "archived"} => ouSigns.terminal
    BY DEF Ou!BeginFinish, Ou!Complete, Ou!Acknowledge, Ou!LoseFinish, Ou!FinishAgain,
           Ou!Live, OuTurnInv
  <2>. QED BY <1>1, <1>4, <1>5, <2>1 DEF OuTurnInv
<1>. QED BY <1>7, <1>8, <1>9, <1>10

\* An event is heard.
LEMMA OuHearKeeps ==
  ASSUME Ou!OutputsAssumption, OuIInv, Ou!Hear
  PROVE  OuIInv'
<1>. USE DEF OuIInv
<1>1. /\ ouEvents # <<>> /\ ouSigns' = Ou!Signs(Head(ouEvents)) /\ ouEvents' = Tail(ouEvents)
      /\ ouAction' = IF ouAction = "archive" /\ Ou!AllSigns(ouSigns') THEN "ready" ELSE ouAction
      /\ UNCHANGED <<ouStatus, ouFinish, ouTurn>> /\ UNCHANGED Ou!outputVars
  BY DEF Ou!Hear
<1>2. ouEvents \in Seq(OuEvents) /\ Len(ouEvents) > 0 /\ Head(ouEvents) = ouEvents[1]
  BY <1>1 DEF Ou!TypeOK, OuEvents
<1>3. /\ Head(ouEvents) \in OuEvents /\ ouEvents' \in Seq(OuEvents)
      /\ (\E i \in 1..Len(ouEvents') : ouEvents'[i] = "turn") =>
           (\E i \in 1..Len(ouEvents) : ouEvents[i] = "turn")
  BY <1>1, <1>2
<1>4. /\ ouSigns' \in [terminal : BOOLEAN, idle : BOOLEAN,
                      finish : {"none", "running", "failed", "completed"}]
      /\ ouSigns'.terminal <=> (ouSigns.terminal \/ Head(ouEvents) = "turn")
  BY <1>1, <1>3 DEF Ou!Signs, Ou!FinishAfter, Ou!TypeOK, OuEvents
<1>5. Ou!TypeOK'
  BY <1>1, <1>3, <1>4 DEF Ou!TypeOK, Ou!outputVars, OuEvents
<1>6. OuAttemptInv' /\ OuCountInv'
  BY <1>1, OuOutputsStay
<1>7. OuFinishInv'
  BY <1>1 DEF OuFinishInv, Ou!outputVars
<1>8. OuTurnInv'
  <2>1. Head(ouEvents) = "turn" => \E i \in 1..Len(ouEvents) : ouEvents[i] = "turn"
    BY <1>2
  <2>2. /\ ouStatus' = "running" => ouAction' = "none"
        /\ ouStatus' = "succeeded" /\ ouAction' \in {"ready", "archived"} => ouSigns'.terminal
    BY <1>1, <1>4 DEF OuTurnInv, Ou!AllSigns
  <2>. QED BY <1>1, <1>3, <1>4, <2>1, <2>2 DEF OuTurnInv
<1>. QED BY <1>5, <1>6, <1>7, <1>8

\* An agent's turn ends, the next one begins, the execution expires, an event is lost,
\* the agent is archived.
LEMMA OuTurnKeeps ==
  ASSUME Ou!OutputsAssumption, OuIInv,
         \/ Ou!EndTurn \/ Ou!NextTurn \/ Ou!Expire \/ Ou!LoseEvent \/ Ou!Archive
  PROVE  OuIInv'
<1>. USE DEF OuIInv
<1>1. UNCHANGED Ou!outputVars /\ UNCHANGED <<ouFinish, ouSigns>>
  BY DEF Ou!EndTurn, Ou!NextTurn, Ou!Expire, Ou!LoseEvent, Ou!Archive
<1>2. OuAttemptInv' /\ OuCountInv'
  BY <1>1, OuOutputsStay
<1>3. OuFinishInv'
  BY <1>1 DEF Ou!EndTurn, Ou!NextTurn, Ou!Expire, Ou!LoseEvent, Ou!Archive, OuFinishInv,
              Ou!outputVars
<1>4. ouEvents \in Seq(OuEvents) /\ ouTurn \in [n : 1..ouMaxTurns, over : BOOLEAN]
  BY DEF Ou!TypeOK, OuEvents
<1>5. CASE Ou!EndTurn
  <2>1. /\ ouTurn' = [ouTurn EXCEPT !.over = TRUE]
        /\ ouEvents' = ouEvents \o <<"turn", "idle">> /\ UNCHANGED <<ouStatus, ouAction>>
    BY <1>5 DEF Ou!EndTurn
  <2>2. ouTurn' \in [n : 1..ouMaxTurns, over : BOOLEAN] /\ ouTurn'.over
    BY <1>4, <2>1
  <2>3. ouEvents' \in Seq(OuEvents)
    <3>1. <<"turn", "idle">> \in Seq(OuEvents)
      BY DEF OuEvents
    <3>. QED BY <1>4, <2>1, <3>1, ConcatProperties
  <2>4. Ou!TypeOK'
    BY <1>1, <2>1, <2>2, <2>3 DEF Ou!TypeOK, Ou!outputVars, OuEvents
  <2>5. OuTurnInv'
    BY <1>1, <2>1, <2>2 DEF OuTurnInv
  <2>. QED BY <1>2, <1>3, <2>4, <2>5
<1>6. CASE Ou!NextTurn
  <2>1. /\ ouTurn.n < ouMaxTurns /\ ouTurn' = [n |-> ouTurn.n + 1, over |-> FALSE]
        /\ UNCHANGED <<ouEvents, ouStatus, ouAction>>
    BY <1>6 DEF Ou!NextTurn
  <2>2. ouTurn' \in [n : 1..ouMaxTurns, over : BOOLEAN] /\ ouTurn'.n > 1
    BY <1>4, <2>1 DEF Ou!OutputsAssumption
  <2>3. Ou!TypeOK'
    BY <1>1, <2>1, <2>2 DEF Ou!TypeOK, Ou!outputVars
  <2>4. OuTurnInv'
    BY <1>1, <2>1, <2>2 DEF OuTurnInv
  <2>. QED BY <1>2, <1>3, <2>3, <2>4
<1>7. CASE Ou!Expire
  <2>1. ouStatus' = "failed" /\ ouAction' = "ready" /\ UNCHANGED <<ouTurn, ouEvents>>
    BY <1>7 DEF Ou!Expire
  <2>2. Ou!TypeOK'
    BY <1>1, <2>1 DEF Ou!TypeOK, Ou!outputVars
  <2>3. OuTurnInv'
    BY <1>1, <2>1 DEF OuTurnInv
  <2>. QED BY <1>2, <1>3, <2>2, <2>3
<1>8. CASE Ou!LoseEvent
  <2>1. ouEvents # <<>> /\ ouEvents' = Tail(ouEvents) /\ UNCHANGED <<ouTurn, ouStatus, ouAction>>
    BY <1>8 DEF Ou!LoseEvent
  <2>2. /\ ouEvents' \in Seq(OuEvents)
        /\ (\E i \in 1..Len(ouEvents') : ouEvents'[i] = "turn") =>
             (\E i \in 1..Len(ouEvents) : ouEvents[i] = "turn")
    BY <1>4, <2>1
  <2>3. Ou!TypeOK'
    BY <1>1, <2>1, <2>2 DEF Ou!TypeOK, Ou!outputVars, OuEvents
  <2>4. OuTurnInv'
    BY <1>1, <2>1, <2>2 DEF OuTurnInv
  <2>. QED BY <1>2, <1>3, <2>3, <2>4
<1>9. CASE Ou!Archive
  <2>1. /\ ouAction = "ready" /\ ouAction' = "archived"
        /\ UNCHANGED <<ouTurn, ouStatus, ouEvents>>
    BY <1>9 DEF Ou!Archive
  <2>2. Ou!TypeOK'
    BY <1>1, <2>1 DEF Ou!TypeOK, Ou!outputVars
  <2>3. OuTurnInv'
    BY <1>1, <2>1 DEF OuTurnInv
  <2>. QED BY <1>2, <1>3, <2>2, <2>3
<1>. QED BY <1>5, <1>6, <1>7, <1>8, <1>9

\* Every step keeps the invariant.
LEMMA OuInductive ==
  ASSUME Ou!OutputsAssumption, OuIInv, [Ou!Next]_(Ou!vars)
  PROVE  OuIInv'
<1>1. CASE UNCHANGED Ou!vars
  BY <1>1
  DEF OuIInv, Ou!vars, Ou!TypeOK, OuAttemptInv, OuCountInv, OuSucceeded, Ou!UnderWay,
      OuFinishInv, OuTurnInv
<1>. QED
  BY <1>1, OuBeginKeeps, OuDeliverKeeps, OuLeasePassesKeeps, OuRecordKeeps, OuFinishKeeps,
     OuHearKeeps, OuTurnKeeps DEF Ou!Next, Ou!Progressing

\* Outputs are limited, a finished execution has sent what is required, and its agent is
\* archived after its turn.
LEMMA OuSafe ==
  ASSUME Ou!OutputsAssumption, OuIInv
  PROVE  Ou!OutputsAreLimited /\ Ou!FinishedHasSent /\ Ou!ArchivedAfterTurn
<1>. USE DEF OuIInv
<1>1. PICK S \in SUBSET ouCalls, U \in SUBSET ouCalls : S = Ou!UnderWay /\ U = OuSucceeded
  BY DEF Ou!UnderWay, OuSucceeded
<1>2. /\ IsFiniteSet(S) /\ IsFiniteSet(U) /\ Cardinality(S) \in Nat /\ Cardinality(U) \in Nat
      /\ ouEmissions = Cardinality(U) /\ ouEmissions + Cardinality(S) <= ouMaxOutputs
  BY <1>1, OuFinite DEF OuCountInv
<1>3. Ou!OutputsAreLimited
  <2>1. PICK T : T = ouSent \ {c \in ouCalls : \/ ouOverdue[c] \/ ouAttempt[c] = "failed"
                                               \/ ouCall[c] = "failing"}
    OBVIOUS
  <2>2. T \subseteq S \cup U
    BY <1>1, <2>1 DEF Ou!UnderWay, OuSucceeded, Ou!TypeOK, OuAttemptInv
  <2>3. Cardinality(T) <= Cardinality(S \cup U) /\ IsFiniteSet(T)
    BY <1>2, <2>2, FS_Subset, FS_Union
  <2>4. Cardinality(S \cup U) <= Cardinality(S) + Cardinality(U)
    <3>1. Cardinality(S \cap U) \in Nat
      BY <1>2, FS_Intersection, FS_CardinalityType
    <3>2. Cardinality(S \cup U) = Cardinality(S) + Cardinality(U) - Cardinality(S \cap U)
      BY <1>2, FS_Union
    <3>. QED BY <1>2, <3>1, <3>2
  <2>5. Cardinality(T) \in Nat /\ Cardinality(S \cup U) \in Nat
    BY <1>2, <2>3, FS_Union, FS_CardinalityType
  <2>6. Cardinality(T) <= ouMaxOutputs /\ ouEmissions <= ouMaxOutputs
    BY <1>2, <2>3, <2>4, <2>5 DEF Ou!OutputsAssumption
  <2>. QED BY <2>1, <2>6, OuCounts DEF Ou!OutputsAreLimited
<1>4. Ou!FinishedHasSent
  <2>1. SUFFICES ASSUME ouStatus = "succeeded" PROVE U # {}
    BY <1>1 DEF Ou!FinishedHasSent, OuSucceeded, OuAttemptInv
  <2>. QED BY <1>2, <2>1, FS_EmptySet DEF OuFinishInv
<1>5. Ou!ArchivedAfterTurn
  BY DEF Ou!ArchivedAfterTurn, OuTurnInv
<1>. QED BY <1>3, <1>4, <1>5

-----------------------------------------------------------------------------
(* Run notification *)

\* The proofs about RunNotification, of the variables that it has here
Rn == INSTANCE RunProofs WITH
    Runs <- noRuns, Hubs <- noHubs, MaxFaults <- noMaxFaults,
    status <- noStatus, delivered <- noDelivered, lease <- noLease,
    reaction <- noReaction, markers <- noMarkers, credit <- noCredit,
    task <- noTask, pass <- noPass, faults <- noFaults

\* They are about the same state, initial states, steps and types.
LEMMA SameRunNotification ==
  /\ (No!NotificationAssumption <=> Rn!NotificationAssumption)
  /\ (No!Init <=> Rn!Init)
  /\ (No!Next <=> Rn!Next)
  /\ (UNCHANGED No!vars <=> UNCHANGED Rn!vars)
  /\ (No!TypeOK <=> Rn!TypeOK)
<1>1. No!NotificationAssumption <=> Rn!NotificationAssumption
  BY DEF No!NotificationAssumption, Rn!NotificationAssumption
<1>2. No!Init <=> Rn!Init
  BY DEF No!Init, No!NoTask, No!Asleep, Rn!Init, Rn!NoTask, Rn!Asleep
<1>3. No!Next <=> Rn!Next
  BY DEF No!Next, No!Ended, No!Accept, No!Start, No!End, No!EngineEnds, No!Tick, No!LeaseLapses,
      No!Stop, No!Restart, No!Passing, No!Reacting, No!NoTask, No!Busy, No!Kicked, No!Fault,
      No!Asleep, No!Announce, No!ClaimTerminal, No!CallTerminal, No!MarkDelivered,
      No!RepeatPass, No!FinallyPass, No!ReadRun, No!CallReaction, No!WriteReaction,
      No!ClaimableTerminal, No!Removed, No!LookAgain, No!Reacted, Rn!Next, Rn!Ended, Rn!Accept,
      Rn!Start, Rn!End, Rn!EngineEnds, Rn!Tick, Rn!LeaseLapses, Rn!Stop, Rn!Restart, Rn!Passing,
      Rn!Reacting, Rn!NoTask, Rn!Busy, Rn!Kicked, Rn!Fault, Rn!Asleep, Rn!Announce,
      Rn!ClaimTerminal, Rn!CallTerminal, Rn!MarkDelivered, Rn!RepeatPass, Rn!FinallyPass,
      Rn!ReadRun, Rn!CallReaction, Rn!WriteReaction, Rn!ClaimableTerminal, Rn!Removed,
      Rn!LookAgain, Rn!Reacted
<1>4. UNCHANGED No!vars <=> UNCHANGED Rn!vars
  BY DEF No!vars, Rn!vars
<1>5. No!TypeOK <=> Rn!TypeOK
  BY DEF No!TypeOK, No!Ended, No!Phase, No!Marker, Rn!TypeOK, Rn!Ended, Rn!Phase, Rn!Marker
<1>. QED BY <1>1, <1>2, <1>3, <1>4, <1>5

-----------------------------------------------------------------------------
(* The parts side by side *)

\* No part disturbs another: each keeps its invariant, whether it runs or not.
IInv == ScIInv /\ RuIInv /\ OuIInv /\ Rn!IInv

\* A step is one of the chosen part, and none of the others.
LEMMA PartSteps ==
  ASSUME [Next]_vars
  PROVE  /\ [Sc!Next]_(Sc!vars) /\ [Ru!Next]_(Ru!vars)
         /\ [Ou!Next]_(Ou!vars) /\ [No!Next]_(No!vars)
<1>1. [Sc!Next]_(Sc!vars)
  BY DEF Next, vars, OthersRu, OthersOu, OthersNo, Sc!vars
<1>2. [Ru!Next]_(Ru!vars)
  BY DEF Next, vars, OthersSc, OthersOu, OthersNo, Ru!vars
<1>3. [Ou!Next]_(Ou!vars)
  BY DEF Next, vars, OthersSc, OthersRu, OthersNo, Ou!vars
<1>4. [No!Next]_(No!vars)
  BY DEF Next, vars, OthersSc, OthersRu, OthersOu, No!vars
<1>. QED BY <1>1, <1>2, <1>3, <1>4

\* The invariant holds of every behaviour.
LEMMA Invariance == Spec => []IInv
<1>1. Init => IInv
  BY ProgressAssumption, ScInitHolds, RuInitially, OuInitially, SameRunNotification,
     Rn!Initially DEF Init, IInv
<1>2. IInv /\ [Next]_vars => IInv'
  BY ProgressAssumption, PartSteps, ScStepKeeps, RuInductive, OuInductive, SameRunNotification,
     Rn!Inductive DEF IInv
<1>. QED BY <1>1, <1>2, PTL DEF Spec

\* Every variable of every part has its type.
THEOREM TypeCorrect == Spec => []TypeOK
<1>1. IInv => TypeOK
  BY SameRunNotification DEF IInv, ScIInv, RuIInv, OuIInv, Rn!IInv, TypeOK
<1>. QED BY <1>1, Invariance, PTL

\* However many processes tick, a schedule has one run at work; whatever fails while an
\* application is replaced, the one in the slot listens and no other accepts; however an
\* agent's calls overlap, what it finished it has sent, within its limit, and it is
\* archived after its turn (triggers/schedule, provider-applications, execution-capabilities).
THEOREM NothingEverOverlaps == Spec => []NothingOverlaps
<1>1. IInv => NothingOverlaps
  BY ProgressAssumption, ScSafe, OuSafe DEF IInv, RuIInv, NothingOverlaps
<1>. QED BY <1>1, Invariance, PTL

\* However long every process was away and whatever is edited meanwhile, one occurrence is
\* caught up, of the recurrence saved last; and no process overwrites what another has saved
\* (triggers/schedule/internal/repository.ts, provider-applications/internal/store.ts).
THEOREM StepsFollowTheSaved == Spec => StepsFollowWhatIsSaved
<1>1. IInv /\ [Next]_vars =>
        [\A t \in scTriggers, x \in Sc!Times :
           scRuns[t][x] # scRuns'[t][x] /\ scRuns'[t][x] = "running" =>
             scRuns[t][x] = "none" /\ x > scCaught[t]]_(Sc!vars)
  BY ProgressAssumption, PartSteps, ScCatchesUpOnce DEF IInv
<1>2. IInv /\ [Next]_vars =>
        [\A t \in scTriggers, x \in Sc!Times :
           scRuns[t][x] = "none" /\ scRuns'[t][x] = "running" =>
             scEnabled[t] /\ scSchedule[t].rec # None /\ x \in scSchedule[t].rec]_(Sc!vars)
  BY ProgressAssumption, PartSteps, ScRespectsEdits DEF IInv
<1>3. IInv /\ [Next]_vars =>
        [\A v \in 1..ruMaxStored :
           ruSavedBy[v] # "nobody" => ruSavedBy'[v] = ruSavedBy[v]]_(Ru!vars)
  BY ProgressAssumption, PartSteps, RuSavesOnce DEF IInv
<1>. QED
  BY <1>1, <1>2, <1>3, Invariance, PTL
  DEF Spec, StepsFollowWhatIsSaved, Sc!DowntimeCoalesces, Sc!EditIsRespected, Ru!SavesAreKept

=============================================================================
