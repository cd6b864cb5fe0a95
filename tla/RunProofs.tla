------------------------------ MODULE RunProofs ------------------------------
(***************************************************************************)
(* What holds of the notification of the ends of runs, for every value of  *)
(* the constants: the type invariant, that nothing is recorded as          *)
(* delivered which the provider does not show (ShownInv: a pass that       *)
(* records has seen it shown), and that nobody is told twice under one     *)
(* lease (CreditInv: the leases pay for every call under way).             *)
(***************************************************************************)
EXTENDS RunNotification, FiniteSetTheorems, TLAPS

\* A pass works on a run that has ended; before it records the delivery, the
\* provider shows the outcome.
PassOk(h) ==
  /\ pass[h].pc \in {"call", "mark"} => pass[h].at \in Runs /\ status[pass[h].at] \in Ended
  /\ pass[h].pc = "mark" => "outcome" \in markers[pass[h].at]

ShownInv == DeliveredIsShown /\ \A h \in Hubs : PassOk(h)

\* The processes that are about to tell the provider of a run ...
Callers(r) == {h \in Hubs : pass[h].pc = "call" /\ pass[h].at = r}

\* ... and the one more that the lease lets in.
Claims(r) == IF delivered[r] \/ lease[r] = "leased" THEN 0 ELSE 1

\* What was told, is being told and may be claimed is paid by the leases.
CreditInv ==
  \A r \in Runs : /\ IsFiniteSet(Callers(r))
                  /\ credit[r] >= Cardinality(Callers(r)) + Claims(r)

IInv == TypeOK /\ ShownInv /\ CreditInv

-----------------------------------------------------------------------------
(* Types *)

TaskType == [pc : {"none", "read", "call", "write", "done"}, hub : Hubs \cup {NoHub}, seen : Phase]
PassType == [pc : {"off", "claim", "call", "mark", "empty", "finally"}, at : Runs \cup {NoRun},
             seen : Phase, requested : BOOLEAN, owed : BOOLEAN, stopped : BOOLEAN]

\* The rows and what the provider shows
RowType ==
  /\ status \in [Runs -> {"none", "running"} \cup Ended]
  /\ delivered \in [Runs -> BOOLEAN]
  /\ lease \in [Runs -> {"none", "leased", "lapsed"}]
  /\ reaction \in [Runs -> Phase]
  /\ markers \in [Runs -> SUBSET Marker]
  /\ credit \in [Runs -> Int]
  /\ faults \in 0..MaxFaults

Tasks == {"accepted", "started"}
TypeInv ==
  RowType /\ task \in [Tasks -> [Runs -> TaskType]] /\ pass \in [Hubs -> PassType]

\* TypeInv is TypeOK, in the groups the proofs cite.
LEMMA TypeInvIsTypeOK == TypeOK <=> TypeInv
<1>1. TypeOK => RowType
  BY DEF TypeOK, RowType
<1>2. TypeOK <=> RowType /\ TypeOK
  BY <1>1
<1>3. RowType => (TypeOK <=> /\ task \in [Tasks -> [Runs -> TaskType]]
                            /\ pass \in [Hubs -> PassType])
  BY DEF RowType, TypeOK, TaskType, PassType, Tasks
<1>. QED BY <1>2, <1>3 DEF TypeInv

\* The values the actions write have the types of their variables.
LEMMA Written ==
  /\ Asleep \in PassType /\ NoTask \in TaskType
  /\ \A p \in PassType : Kicked(p) \in PassType
BY DEF Asleep, NoTask, Kicked, PassType, TaskType, Phase

\* A pass that looks for work again keeps its type.
LEMMA LooksAgain ==
  ASSUME NEW h \in Hubs, TypeInv, LookAgain(h)
  PROVE  pass' \in [Hubs -> PassType]
<1>1. [pass[h] EXCEPT !.pc = IF pass[h].stopped THEN "empty" ELSE "claim",
                      !.at = NoRun, !.seen = "null"] \in PassType
  BY DEF TypeInv, PassType, Phase
<1>. QED BY <1>1 DEF TypeInv, LookAgain

\* Every action keeps the types.
LEMMA TypeStep ==
  ASSUME NotificationAssumption, TypeInv, [Next]_vars
  PROVE  TypeInv'
<1>. USE DEF NotificationAssumption
<1>1. ASSUME NEW h \in Hubs, Tick(h) PROVE TypeInv'
  <2>1. pass' \in [Hubs -> PassType]
    BY <1>1, Written DEF Tick, TypeInv, PassType
  <2>. QED BY <1>1, <2>1 DEF Tick, TypeInv, RowType, Ended
<1>2. ASSUME NEW h \in Hubs, Announce(h) PROVE TypeInv'
  <2>1. pass' \in [Hubs -> PassType]
    <3>1. [pass[h] EXCEPT !.owed = FALSE] \in PassType
      BY DEF TypeInv, PassType
    <3>. QED BY <1>2, <3>1, Written DEF Announce, TypeInv
  <2>. QED BY <1>2, <2>1 DEF Announce, TypeInv, RowType, Ended
<1>3. ASSUME NEW h \in Hubs, ClaimTerminal(h) PROVE TypeInv'
  <2>1. pass' \in [Hubs -> PassType]
    <3>1. CASE \E r \in ClaimableTerminal :
                 pass' = [pass EXCEPT ![h].pc = "call", ![h].at = r, ![h].seen = reaction[r]]
      <4>1. PICK r \in Runs :
              pass' = [pass EXCEPT ![h].pc = "call", ![h].at = r, ![h].seen = reaction[r]]
        BY <3>1 DEF ClaimableTerminal
      <4>2. pass[h] \in PassType /\ reaction[r] \in Phase
        BY DEF TypeInv, RowType
      <4>3. [pass[h] EXCEPT !.pc = "call", !.at = r, !.seen = reaction[r]] \in PassType
        BY <4>2 DEF PassType
      <4>. QED BY <4>1, <4>3 DEF TypeInv
    <3>2. CASE \E pc \in {"empty", "finally"} : pass' = [pass EXCEPT ![h].pc = pc]
      BY <3>2 DEF TypeInv, PassType
    <3>. QED BY <1>3, <3>1, <3>2 DEF ClaimTerminal
  <2>2. lease' \in [Runs -> {"none", "leased", "lapsed"}] /\ faults' \in 0..MaxFaults
    <3>1. UNCHANGED lease \/ \E r \in Runs : lease' = [lease EXCEPT ![r] = "leased"]
      BY <1>3 DEF ClaimTerminal, ClaimableTerminal
    <3>2. UNCHANGED faults \/ Fault
      BY <1>3 DEF ClaimTerminal
    <3>. QED BY <3>1, <3>2 DEF TypeInv, RowType, Fault
  <2>. QED BY <1>3, <2>1, <2>2 DEF ClaimTerminal, TypeInv, RowType
<1>4. ASSUME NEW h \in Hubs, CallTerminal(h) PROVE TypeInv'
  <2>1. pass' \in [Hubs -> PassType]
    <3>1. [pass[h] EXCEPT !.pc = "mark"] \in PassType
      BY DEF TypeInv, PassType
    <3>. QED BY <1>4, <3>1, LooksAgain DEF CallTerminal, TypeInv
  <2>. QED BY <1>4, <2>1 DEF CallTerminal, TypeInv, RowType, Ended, Fault, Marker
<1>5. ASSUME NEW h \in Hubs, MarkDelivered(h) PROVE TypeInv'
  <2>1. pass' \in [Hubs -> PassType]
    BY <1>5, LooksAgain DEF MarkDelivered
  <2>2. /\ reaction' \in [Runs -> Phase] /\ delivered' \in [Runs -> BOOLEAN]
        /\ lease' \in [Runs -> {"none", "leased", "lapsed"}]
    <3>1. \/ UNCHANGED <<reaction, delivered, lease>>
          \/ \E r : /\ reaction' = [reaction EXCEPT ![r] = "null"]
                   /\ delivered' = [delivered EXCEPT ![r] = TRUE]
                   /\ lease' = [lease EXCEPT ![r] = "none"]
      BY <1>5 DEF MarkDelivered
    <3>. QED BY <3>1 DEF TypeInv, RowType, Phase
  <2>3. UNCHANGED <<status, markers, credit, task, faults>>
    BY <1>5 DEF MarkDelivered
  <2>. QED BY <2>1, <2>2, <2>3 DEF TypeInv, RowType, Ended
<1>6. ASSUME NEW h \in Hubs, RepeatPass(h) PROVE TypeInv'
  <2>1. pass' \in [Hubs -> PassType]
    <3>1. PICK p \in PassType : p = pass[h]
      BY DEF TypeInv
    <3>2. [p EXCEPT !.requested = FALSE, !.pc = "claim"] \in PassType
      BY DEF PassType
    <3>3. [p EXCEPT !.pc = "finally"] \in PassType
      BY DEF PassType
    <3>. QED BY <1>6, <3>1, <3>2, <3>3 DEF RepeatPass, TypeInv
  <2>2. UNCHANGED <<status, delivered, lease, reaction, markers, credit, task, faults>>
    BY <1>6 DEF RepeatPass
  <2>. QED BY <2>1, <2>2 DEF TypeInv, RowType, Ended
<1>7. ASSUME NEW h \in Hubs, FinallyPass(h) PROVE TypeInv'
  <2>1. pass' \in [Hubs -> PassType]
    <3>1. PICK p : p = [pass[h] EXCEPT !.pc = "off"]
      OBVIOUS
    <3>2. p \in PassType
      BY <3>1 DEF TypeInv, PassType
    <3>3. pass' = [pass EXCEPT ![h] = IF p.requested THEN Kicked(p) ELSE p]
      BY <1>7, <3>1 DEF FinallyPass
    <3>. QED BY <3>2, <3>3, Written DEF TypeInv
  <2>. QED BY <1>7, <2>1 DEF FinallyPass, TypeInv, RowType, Ended
<1>8. ASSUME NEW h \in Hubs, Stop(h) PROVE TypeInv'
  <2>1. pass' \in [Hubs -> PassType]
    <3>1. [pass[h] EXCEPT !.stopped = TRUE] \in PassType
      BY DEF TypeInv, PassType
    <3>. QED BY <1>8, <3>1 DEF Stop, TypeInv
  <2>. QED BY <1>8, <2>1 DEF Stop, TypeInv, RowType, Ended, Fault
<1>9. ASSUME NEW h \in Hubs, Restart(h) PROVE TypeInv'
  <2>1. pass' \in [Hubs -> PassType]
    BY <1>9, Written DEF Restart, TypeInv
  <2>2. task' \in [Tasks -> [Runs -> TaskType]]
    BY <1>9, Written DEF Restart, TypeInv, TaskType, NoTask, Phase
  <2>3. faults' \in 0..MaxFaults
    <3>1. UNCHANGED faults \/ Fault
      BY <1>9 DEF Restart
    <3>. QED BY <3>1 DEF TypeInv, RowType, Fault
  <2>. QED BY <1>9, <2>1, <2>2, <2>3 DEF Restart, TypeInv, RowType
<1>10. ASSUME NEW h \in Hubs, NEW r \in Runs, NEW outcome \in Ended, EngineEnds(h, r, outcome)
       PROVE TypeInv'
  <2>1. pass' \in [Hubs -> PassType]
    BY <1>10 DEF EngineEnds, TypeInv, PassType
  <2>. QED BY <1>10, <2>1 DEF EngineEnds, TypeInv, RowType, Ended
<1>11. ASSUME NEW r \in Runs, ReadRun(r) PROVE TypeInv'
  <2>1. task' \in [Tasks -> [Runs -> TaskType]]
    <3>1. reaction[r] \in Phase /\ task["started"][r] \in TaskType
      BY DEF TypeInv, RowType, Tasks
    <3>2. [task["started"][r] EXCEPT !.pc = "call", !.seen = reaction[r]] \in TaskType
      BY <3>1 DEF TaskType
    <3>. QED BY <1>11, <3>2 DEF ReadRun, TypeInv, Tasks
  <2>. QED BY <1>11, <2>1 DEF ReadRun, TypeInv, RowType, Ended, Phase
<1>12. ASSUME NEW r \in Runs, NEW k \in Tasks, CallReaction(k, r) PROVE TypeInv'
  <2>1. task' \in [Tasks -> [Runs -> TaskType]]
    <3>1. task[k][r] \in TaskType
      BY DEF TypeInv
    <3>2. /\ [task[k][r] EXCEPT !.pc = "write"] \in TaskType
          /\ [NoTask EXCEPT !.pc = "done"] \in TaskType
      BY <3>1, Written DEF TaskType
    <3>3. \/ task' = [task EXCEPT ![k][r] = [@ EXCEPT !.pc = "write"]]
          \/ task' = [task EXCEPT ![k][r] = [NoTask EXCEPT !.pc = "done"]]
      BY <1>12 DEF CallReaction
    <3>4. task[k] \in [Runs -> TaskType]
      BY DEF TypeInv
    <3>5. \A v \in TaskType : [task EXCEPT ![k][r] = v] \in [Tasks -> [Runs -> TaskType]]
      BY <3>4 DEF TypeInv
    <3>. QED BY <3>2, <3>3, <3>5
  <2>2. /\ markers' \in [Runs -> SUBSET Marker] /\ faults' \in 0..MaxFaults
        /\ UNCHANGED <<status, delivered, lease, reaction, credit, pass>>
    BY <1>12 DEF CallReaction, TypeInv, RowType, Fault, Reacted, Marker
  <2>. QED BY <2>1, <2>2 DEF TypeInv, RowType
<1>13. ASSUME NEW r \in Runs, NEW k \in Tasks, WriteReaction(k, r) PROVE TypeInv'
  <2>1. task' \in [Tasks -> [Runs -> TaskType]]
    BY <1>13, Written DEF WriteReaction, TypeInv, RowType, TaskType, NoTask, Phase, Tasks
  <2>. QED BY <1>13, <2>1 DEF WriteReaction, TypeInv, RowType, Ended, Phase, Tasks
<1>14. ASSUME NEW h \in Hubs, NEW r \in Runs, Accept(h, r) PROVE TypeInv'
  <2>1. task' \in [Tasks -> [Runs -> TaskType]]
    BY <1>14, Written DEF Accept, TypeInv, RowType, TaskType, NoTask, Phase, Tasks
  <2>. QED BY <1>14, <2>1 DEF Accept, TypeInv, RowType, Ended
<1>15. ASSUME NEW h \in Hubs, NEW r \in Runs, Start(h, r) PROVE TypeInv'
  <2>1. task' \in [Tasks -> [Runs -> TaskType]]
    BY <1>15, Written DEF Start, TypeInv, RowType, TaskType, NoTask, Phase, Tasks
  <2>. QED BY <1>15, <2>1 DEF Start, TypeInv, RowType, Ended
<1>16. ASSUME NEW r \in Runs, LeaseLapses(r) PROVE TypeInv'
  <2>. QED BY <1>16 DEF LeaseLapses, TypeInv, RowType, Ended
<1>17. ASSUME NEW r \in Runs, NEW outcome \in Ended, End(r, outcome) PROVE TypeInv'
  <2>. QED BY <1>17 DEF End, TypeInv, RowType, Ended
<1>18. CASE UNCHANGED vars
  BY <1>18 DEF vars, TypeInv, RowType
<1>. QED
  BY <1>1, <1>2, <1>3, <1>4, <1>5, <1>6, <1>7, <1>8, <1>9, <1>10, <1>11, <1>12, <1>13, <1>14,
     <1>15, <1>16, <1>17, <1>18 DEF Next, Passing, Reacting, Tasks

-----------------------------------------------------------------------------
(* What is delivered was shown *)

\* A step that moves one pass, ends no other run's outcome and takes no outcome
\* away keeps what was shown, if the pass it moves is right.
LEMMA ShownKept ==
  ASSUME TypeInv, ShownInv, UNCHANGED delivered,
         \A r \in Runs : /\ status[r] \in Ended => status'[r] \in Ended
                         /\ "outcome" \in markers[r] => "outcome" \in markers'[r],
         \A h \in Hubs :
           \/ PassOk(h)'
           \/ /\ pass'[h].pc \in {"call", "mark"} => pass[h].pc = pass'[h].pc
              /\ pass'[h].at = pass[h].at
  PROVE  ShownInv'
BY DEF ShownInv, DeliveredIsShown, PassOk

\* Every step keeps ShownInv: only an acknowledged task marks an end delivered.
LEMMA ShownStep ==
  ASSUME TypeInv, TypeInv', ShownInv, [Next]_vars
  PROVE  ShownInv'
<1>1. ASSUME NEW h \in Hubs, Tick(h) PROVE ShownInv'
  BY <1>1, ShownKept DEF Tick, Kicked, TypeInv, PassType
<1>2. ASSUME NEW h \in Hubs, Announce(h) PROVE ShownInv'
  BY <1>2, ShownKept DEF Announce, Kicked, TypeInv, PassType
<1>3. ASSUME NEW h \in Hubs, ClaimTerminal(h) PROVE ShownInv'
  <2>1. UNCHANGED <<status, delivered, markers>>
    BY <1>3 DEF ClaimTerminal
  <2>2. \A g \in Hubs \ {h} : pass'[g] = pass[g]
    BY <1>3 DEF ClaimTerminal, TypeInv
  <2>3. \/ pass'[h].pc \in {"empty", "finally"}
        \/ pass'[h].pc = "call" /\ pass'[h].at \in ClaimableTerminal
    <3>1. CASE \E r \in ClaimableTerminal :
                 pass' = [pass EXCEPT ![h].pc = "call", ![h].at = r, ![h].seen = reaction[r]]
      BY <3>1 DEF TypeInv, PassType
    <3>2. CASE \E pc \in {"empty", "finally"} : pass' = [pass EXCEPT ![h].pc = pc]
      BY <3>2 DEF TypeInv, PassType
    <3>. QED BY <1>3, <3>1, <3>2 DEF ClaimTerminal
  <2>4. PassOk(h)'
    BY <2>1, <2>3 DEF PassOk, ClaimableTerminal
  <2>. QED BY <2>1, <2>2, <2>4, ShownKept
<1>4. ASSUME NEW h \in Hubs, CallTerminal(h) PROVE ShownInv'
  <2>. PICK r \in Runs : r = pass[h].at /\ status[r] \in Ended
    BY <1>4 DEF CallTerminal, ShownInv, PassOk
  <2>1. UNCHANGED <<status, delivered>>
    BY <1>4 DEF CallTerminal
  <2>2. \A q \in Runs : "outcome" \in markers[q] => "outcome" \in markers'[q]
    BY <1>4 DEF CallTerminal, TypeInv, RowType
  <2>3. \A g \in Hubs \ {h} : pass'[g] = pass[g]
    BY <1>4 DEF CallTerminal, LookAgain, TypeInv
  <2>4. \/ pass'[h].pc \in {"empty", "claim"}
        \/ pass'[h].pc = "mark" /\ pass'[h].at = r /\ "outcome" \in markers'[r]
    BY <1>4 DEF CallTerminal, LookAgain, TypeInv, RowType, PassType
  <2>5. PassOk(h)'
    BY <2>1, <2>4 DEF PassOk
  <2>. QED BY <2>1, <2>2, <2>3, <2>5, ShownKept
<1>5. ASSUME NEW h \in Hubs, MarkDelivered(h) PROVE ShownInv'
  BY <1>5 DEF MarkDelivered, LookAgain, TypeInv, RowType, PassType, PassOk, ShownInv,
            DeliveredIsShown
<1>6. ASSUME NEW h \in Hubs, RepeatPass(h) PROVE ShownInv'
  BY <1>6, ShownKept DEF RepeatPass, TypeInv, PassType
<1>7. ASSUME NEW h \in Hubs, FinallyPass(h) PROVE ShownInv'
  BY <1>7, ShownKept DEF FinallyPass, Kicked, TypeInv, PassType
<1>8. ASSUME NEW h \in Hubs, Stop(h) PROVE ShownInv'
  BY <1>8, ShownKept DEF Stop, TypeInv, PassType
<1>9. ASSUME NEW h \in Hubs, Restart(h) PROVE ShownInv'
  BY <1>9, ShownKept DEF Restart, TypeInv, PassType, PassOk, Asleep
<1>10. ASSUME NEW r \in Runs, ReadRun(r) PROVE ShownInv'
  BY <1>10, ShownKept DEF ReadRun
<1>11. ASSUME NEW r \in Runs, NEW k \in Tasks, CallReaction(k, r) PROVE ShownInv'
  BY <1>11, ShownKept DEF CallReaction, Reacted, TypeInv, RowType
<1>12. ASSUME NEW r \in Runs, NEW k \in Tasks, WriteReaction(k, r) PROVE ShownInv'
  BY <1>12, ShownKept DEF WriteReaction
<1>13. ASSUME NEW r \in Runs, LeaseLapses(r) PROVE ShownInv'
  BY <1>13, ShownKept DEF LeaseLapses
<1>14. ASSUME NEW h \in Hubs, NEW r \in Runs, Accept(h, r) PROVE ShownInv'
  BY <1>14, ShownKept DEF Accept, TypeInv, RowType, Ended
<1>15. ASSUME NEW h \in Hubs, NEW r \in Runs, Start(h, r) PROVE ShownInv'
  BY <1>15, ShownKept DEF Start
<1>16. ASSUME NEW r \in Runs, NEW outcome \in Ended, End(r, outcome) PROVE ShownInv'
  BY <1>16, ShownKept DEF End, TypeInv, RowType
<1>17. ASSUME NEW h \in Hubs, NEW r \in Runs, NEW outcome \in Ended, EngineEnds(h, r, outcome)
       PROVE ShownInv'
  BY <1>17, ShownKept DEF EngineEnds, TypeInv, RowType, PassType
<1>18. CASE UNCHANGED vars
  BY <1>18, ShownKept DEF vars
<1>. QED
  BY <1>1, <1>2, <1>3, <1>4, <1>5, <1>6, <1>7, <1>8, <1>9, <1>10, <1>11, <1>12, <1>13, <1>14,
     <1>15, <1>16, <1>17, <1>18 DEF Next, Passing, Reacting, Tasks

-----------------------------------------------------------------------------
(* Every call is paid by a lease *)

\* A step after which no run has more callers, a larger claim or less credit
\* keeps the balance.
LEMMA CreditKept ==
  ASSUME TypeInv, TypeInv', CreditInv, UNCHANGED credit,
         \A r \in Runs : Claims(r)' <= Claims(r),
         \A h \in Hubs : pass'[h].pc = "call" => pass[h].pc = "call" /\ pass'[h].at = pass[h].at
  PROVE  CreditInv'
<1>. SUFFICES ASSUME NEW r \in Runs
              PROVE  IsFiniteSet(Callers(r)') /\ credit'[r] >= Cardinality(Callers(r)') + Claims(r)'
  BY DEF CreditInv
<1>1. Callers(r)' \subseteq Callers(r)
  BY DEF Callers
<1>2. IsFiniteSet(Callers(r)) /\ credit[r] >= Cardinality(Callers(r)) + Claims(r)
  BY DEF CreditInv
<1>3. IsFiniteSet(Callers(r)') /\ Cardinality(Callers(r)') <= Cardinality(Callers(r))
  BY <1>1, <1>2, FS_Subset
<1>4. Cardinality(Callers(r)') \in Nat /\ Cardinality(Callers(r)) \in Nat
  BY <1>2, <1>3, FS_CardinalityType
<1>5. Claims(r) \in Int /\ Claims(r)' \in Int /\ credit[r] \in Int
  BY DEF Claims, TypeInv, RowType
<1>. QED BY <1>2, <1>3, <1>4, <1>5

\* Every step keeps CreditInv: a claim is only repeated for a lease that lapsed.
LEMMA CreditStep ==
  ASSUME TypeInv, TypeInv', ShownInv, CreditInv, [Next]_vars
  PROVE  CreditInv'
<1>1. ASSUME NEW h \in Hubs, Tick(h) PROVE CreditInv'
  BY <1>1, CreditKept DEF Tick, Kicked, TypeInv, PassType, Claims
<1>2. ASSUME NEW h \in Hubs, Announce(h) PROVE CreditInv'
  BY <1>2, CreditKept DEF Announce, Kicked, TypeInv, PassType, Claims
<1>5. ASSUME NEW h \in Hubs, MarkDelivered(h) PROVE CreditInv'
  BY <1>5, CreditKept DEF MarkDelivered, LookAgain, TypeInv, RowType, PassType, PassOk, ShownInv,
                        Claims
<1>6. ASSUME NEW h \in Hubs, RepeatPass(h) PROVE CreditInv'
  BY <1>6, CreditKept DEF RepeatPass, TypeInv, PassType, Claims
<1>7. ASSUME NEW h \in Hubs, FinallyPass(h) PROVE CreditInv'
  BY <1>7, CreditKept DEF FinallyPass, Kicked, TypeInv, PassType, Claims
<1>8. ASSUME NEW h \in Hubs, Stop(h) PROVE CreditInv'
  BY <1>8, CreditKept DEF Stop, TypeInv, PassType, Claims
<1>9. ASSUME NEW h \in Hubs, Restart(h) PROVE CreditInv'
  <2>1. /\ UNCHANGED <<credit, delivered, lease>>
        /\ \A g \in Hubs : pass'[g].pc = "call" => pass'[g] = pass[g]
    BY <1>9 DEF Restart, TypeInv, Asleep
  <2>. QED BY <2>1, CreditKept DEF Claims
<1>10. ASSUME NEW r \in Runs, ReadRun(r) PROVE CreditInv'
  BY <1>10, CreditKept DEF ReadRun, Claims
<1>11. ASSUME NEW r \in Runs, NEW k \in Tasks, CallReaction(k, r) PROVE CreditInv'
  BY <1>11, CreditKept DEF CallReaction, Claims
<1>12. ASSUME NEW r \in Runs, NEW k \in Tasks, WriteReaction(k, r) PROVE CreditInv'
  BY <1>12, CreditKept DEF WriteReaction, Claims
<1>14. ASSUME NEW h \in Hubs, NEW r \in Runs, Accept(h, r) PROVE CreditInv'
  BY <1>14, CreditKept DEF Accept, Claims
<1>15. ASSUME NEW h \in Hubs, NEW r \in Runs, Start(h, r) PROVE CreditInv'
  BY <1>15, CreditKept DEF Start, Claims
<1>16. ASSUME NEW r \in Runs, NEW outcome \in Ended, End(r, outcome) PROVE CreditInv'
  BY <1>16, CreditKept DEF End, Claims
<1>17. ASSUME NEW h \in Hubs, NEW r \in Runs, NEW outcome \in Ended, EngineEnds(h, r, outcome)
       PROVE CreditInv'
  BY <1>17, CreditKept DEF EngineEnds, TypeInv, PassType, Claims
<1>18. CASE UNCHANGED vars
  BY <1>18, CreditKept DEF vars, Claims
<1>3. ASSUME NEW h \in Hubs, ClaimTerminal(h) PROVE CreditInv'
  <2>1. CASE \E r \in ClaimableTerminal :
               /\ lease' = [lease EXCEPT ![r] = "leased"]
               /\ pass' = [pass EXCEPT ![h].pc = "call", ![h].at = r, ![h].seen = reaction[r]]
    <3>1. PICK r \in ClaimableTerminal :
            /\ lease' = [lease EXCEPT ![r] = "leased"]
            /\ pass' = [pass EXCEPT ![h].pc = "call", ![h].at = r, ![h].seen = reaction[r]]
      BY <2>1
    <3>2. UNCHANGED <<delivered, credit>> /\ r \in Runs /\ ~delivered[r] /\ lease[r] # "leased"
      BY <1>3 DEF ClaimTerminal, ClaimableTerminal
    <3>3. pass[h].pc = "claim" /\ pass'[h].pc = "call" /\ pass'[h].at = r
      BY <1>3, <3>1 DEF ClaimTerminal, TypeInv, PassType
    <3>4. Callers(r)' = Callers(r) \cup {h} /\ h \notin Callers(r)
      BY <3>1, <3>3 DEF Callers, TypeInv, PassType
    <3>5. Claims(r) = 1 /\ Claims(r)' = 0
      BY <3>1, <3>2 DEF Claims, TypeInv, RowType
    <3>6. /\ IsFiniteSet(Callers(r)')
          /\ credit'[r] >= Cardinality(Callers(r)') + Claims(r)'
      <4>1. IsFiniteSet(Callers(r)) /\ credit[r] >= Cardinality(Callers(r)) + 1
        BY <3>2, <3>5 DEF CreditInv
      <4>2. IsFiniteSet(Callers(r)') /\ Cardinality(Callers(r)') = Cardinality(Callers(r)) + 1
        BY <3>4, <4>1, FS_AddElement
      <4>. QED BY <3>2, <3>5, <4>1, <4>2, FS_CardinalityType DEF TypeInv, RowType
    <3>7. ASSUME NEW q \in Runs, q # r
          PROVE  Callers(q)' = Callers(q) /\ Claims(q)' = Claims(q) /\ credit'[q] = credit[q]
      <4>1. Callers(q)' = Callers(q)
        BY <3>1, <3>3, <3>7 DEF Callers, TypeInv, PassType
      <4>. QED BY <3>1, <3>2, <3>7, <4>1 DEF Claims, TypeInv, RowType
    <3>. QED BY <3>6, <3>7 DEF CreditInv
  <2>2. CASE UNCHANGED lease /\ \E pc \in {"empty", "finally"} : pass' = [pass EXCEPT ![h].pc = pc]
    <3>0. \A g \in Hubs : pass'[g].pc = "call" => pass'[g] = pass[g]
      BY <2>2 DEF TypeInv, PassType
    <3>1. /\ UNCHANGED <<credit, delivered, lease>>
          /\ \A g \in Hubs : pass'[g].pc = "call" => pass'[g] = pass[g]
      BY <1>3, <2>2, <3>0 DEF ClaimTerminal
    <3>. QED BY <3>1, CreditKept DEF Claims
  <2>. QED BY <1>3, <2>1, <2>2 DEF ClaimTerminal
<1>4. ASSUME NEW h \in Hubs, CallTerminal(h) PROVE CreditInv'
  <2>. PICK r \in Runs : r = pass[h].at
    BY <1>4 DEF CallTerminal, ShownInv, PassOk
  <2>1. /\ UNCHANGED <<delivered, lease>> /\ pass[h].pc = "call"
        /\ pass'[h].pc # "call" /\ \A g \in Hubs \ {h} : pass'[g] = pass[g]
    BY <1>4 DEF CallTerminal, LookAgain, TypeInv, PassType
  <2>2. \A q \in Runs : Claims(q)' = Claims(q)
    BY <2>1 DEF Claims
  <2>3. credit' \in {credit, [credit EXCEPT ![r] = @ - 1]}
    BY <1>4 DEF CallTerminal
  <2>4. h \in Callers(r) /\ Callers(r)' = Callers(r) \ {h}
    BY <2>1 DEF Callers
  <2>5. IsFiniteSet(Callers(r)') /\ credit'[r] >= Cardinality(Callers(r)') + Claims(r)'
    <3>1. IsFiniteSet(Callers(r)) /\ credit[r] >= Cardinality(Callers(r)) + Claims(r)
      BY <2>1 DEF CreditInv
    <3>2. IsFiniteSet(Callers(r)') /\ Cardinality(Callers(r)') = Cardinality(Callers(r)) - 1
      BY <2>4, <3>1, FS_RemoveElement
    <3>3. Cardinality(Callers(r)) \in Nat /\ Claims(r)' = Claims(r) /\ Claims(r) \in Int
      BY <2>1, <2>2, <3>1, FS_CardinalityType DEF Claims
    <3>4. credit[r] \in Int /\ credit'[r] >= credit[r] - 1
      BY <2>1, <2>3 DEF TypeInv, RowType
    <3>5. credit'[r] \in Int
      BY <2>1 DEF TypeInv, RowType
    <3>. QED BY <3>1, <3>2, <3>3, <3>4, <3>5
  <2>6. ASSUME NEW q \in Runs, q # r
        PROVE  Callers(q)' = Callers(q) /\ Claims(q)' = Claims(q) /\ credit'[q] = credit[q]
    <3>1. Callers(q)' = Callers(q)
      BY <2>1, <2>6 DEF Callers
    <3>2. credit'[q] = credit[q]
      BY <2>3, <2>6 DEF TypeInv, RowType
    <3>. QED BY <2>2, <3>1, <3>2
  <2>. QED BY <2>5, <2>6 DEF CreditInv
<1>13. ASSUME NEW r \in Runs, LeaseLapses(r) PROVE CreditInv'
  <2>1. \A q \in Runs : Callers(q)' = Callers(q)
    BY <1>13 DEF LeaseLapses, Callers
  <2>2. ASSUME NEW q \in Runs
        PROVE  IsFiniteSet(Callers(q)') /\ credit'[q] >= Cardinality(Callers(q)') + Claims(q)'
    <3>1. IsFiniteSet(Callers(q)) /\ credit[q] >= Cardinality(Callers(q)) + Claims(q)
      BY DEF CreditInv
    <3>2. Cardinality(Callers(q)) \in Nat
      BY <3>1, FS_CardinalityType
    <3>3. credit'[q] - credit[q] >= Claims(q)' - Claims(q)
      BY <1>13 DEF LeaseLapses, Claims, TypeInv, RowType
    <3>4. credit[q] \in Int /\ credit'[q] \in Int /\ Claims(q) \in Int /\ Claims(q)' \in Int
      BY DEF Claims, TypeInv, RowType
    <3>. QED BY <2>1, <3>1, <3>2, <3>3, <3>4
  <2>. QED BY <2>2 DEF CreditInv
<1>. QED
  BY <1>1, <1>2, <1>3, <1>4, <1>5, <1>6, <1>7, <1>8, <1>9, <1>10, <1>11, <1>12, <1>13, <1>14,
     <1>15, <1>16, <1>17, <1>18 DEF Next, Passing, Reacting, Tasks

-----------------------------------------------------------------------------
(* The invariant *)

\* Before a run ends nothing is claimed, called or shown.
LEMMA Initially ==
  ASSUME NotificationAssumption, Init
  PROVE  IInv
<1>1. TypeInv
  <2>1. pass \in [Hubs -> PassType] /\ task \in [Tasks -> [Runs -> TaskType]]
    BY Written DEF Init, Tasks
  <2>. QED BY <2>1 DEF NotificationAssumption, Init, TypeInv, RowType, Phase, Marker
<1>2. ShownInv
  BY DEF Init, ShownInv, DeliveredIsShown, PassOk, Asleep
<1>3. CreditInv
  <2>1. \A r \in Runs : Callers(r) = {} /\ Claims(r) = 1 /\ credit[r] = 1
    BY DEF Init, Callers, Claims, Asleep
  <2>. QED BY <2>1, FS_EmptySet DEF CreditInv
<1>. QED BY <1>1, <1>2, <1>3, TypeInvIsTypeOK DEF IInv

\* IInv is inductive.
LEMMA Inductive ==
  ASSUME NotificationAssumption, IInv, [Next]_vars
  PROVE  IInv'
<1>1. TypeInv /\ ShownInv /\ CreditInv
  BY TypeInvIsTypeOK DEF IInv
<1>2. TypeInv'
  BY <1>1, TypeStep
<1>3. ShownInv' /\ CreditInv'
  BY <1>1, <1>2, ShownStep, CreditStep
<1>4. TypeOK'
  BY <1>2 DEF TypeOK, TypeInv, RowType, TaskType, PassType, Tasks
<1>. QED BY <1>3, <1>4 DEF IInv

\* The inductive invariant holds in every reachable state.
LEMMA Invariance ==
  ASSUME NotificationAssumption
  PROVE  Spec => []IInv
<1>1. Init => IInv
  BY Initially
<1>2. IInv /\ [Next]_vars => IInv'
  BY Inductive
<1>. QED BY <1>1, <1>2, PTL DEF Spec

\* Every variable has its type.
THEOREM TypeCorrect ==
  ASSUME NotificationAssumption
  PROVE  Spec => []TypeOK
<1>1. IInv => TypeOK
  BY DEF IInv
<1>. QED BY <1>1, Invariance, PTL

\* Whatever fails or crashes between a call of the provider and its record
\* (notifyWorkflowRunTerminal, markWorkflowRunTerminalNotificationDelivered), a
\* delivery is recorded only of an outcome the provider shows.
THEOREM DeliveryShown ==
  ASSUME NotificationAssumption
  PROVE  Spec => []DeliveredIsShown
<1>1. IInv => DeliveredIsShown
  BY DEF IInv, ShownInv
<1>. QED BY <1>1, Invariance, PTL

\* However many processes deliver, the provider is told again only after a lease
\* ran out (claimPendingWorkflowRunTerminalNotification): every call that is
\* under way, and the claim that is still open, is paid by a lease.
THEOREM ToldOnce ==
  ASSUME NotificationAssumption
  PROVE  Spec => []ToldOncePerLease
<1>1. ASSUME IInv PROVE ToldOncePerLease
  <2>. SUFFICES ASSUME NEW r \in Runs PROVE credit[r] >= 0
    BY DEF ToldOncePerLease
  <2>1. IsFiniteSet(Callers(r)) /\ credit[r] >= Cardinality(Callers(r)) + Claims(r)
    BY <1>1 DEF IInv, CreditInv
  <2>2. Cardinality(Callers(r)) \in Nat /\ Claims(r) \in {0, 1} /\ credit[r] \in Int
    BY <1>1, <2>1, FS_CardinalityType DEF Claims, IInv, TypeOK
  <2>. QED BY <2>1, <2>2
<1>. QED BY <1>1, Invariance, PTL

=============================================================================
