--------------------------- MODULE ExecutionsProofs ---------------------------
(***************************************************************************)
(* What holds, for every value of the constants, of what the executions of *)
(* runs are given.                                                         *)
(*                                                                         *)
(* ExecutionAuthority (prefix au): what was committed stays good, launches *)
(* that overlap are given the same environment, and no token lacks its     *)
(* lease. As long as the execution is active no process has been told of   *)
(* its end (AuEndInv), so the record changes once only (AuSameInv), and    *)
(* nobody asks for the release of a lease before its deadline that is      *)
(* committed, or that its launch may still commit (AuGoodInv).             *)
(*                                                                         *)
(* Sprites (prefix sp): a second machine is alive only where a restart set *)
(* one alive again (SpOneInv); what a restart has found was inserted.      *)
(***************************************************************************)
EXTENDS Executions, FiniteSetTheorems, TLAPS

-----------------------------------------------------------------------------
(* Credentials: the invariant *)

\* Processes know of the end of an execution that has ended only.
AuEndInv == \A p \in auProcs : auEnding[p] # "none" \/ auFlag[p] => ~auActive

\* A lease that nobody is about to release.
AuUnasked(m) == \A p \in auProcs : auRelease[p][m] = "none"

\* A launch that has not registered its token has no lease; nothing waits for one.
AuNewInv ==
  \A m \in auLaunches : auLaunch[m] \in {"idle", "asserted", "minted", "resuming"} =>
    /\ auLease[m] = "none" /\ m \notin auDue /\ auRecord # m /\ AuUnasked(m)
    /\ \A p \in auProcs : m \notin auTimers[p]
    /\ auToken[m] = IF auLaunch[m] = "minted" THEN "valid" ELSE "none"

\* What is committed, or may still be, is good until its deadline.
AuGoodInv ==
  \A m \in auLaunches :
    (auLaunch[m] \in {"registered", "ready"} \/ auRecord = m) /\ auActive /\ m \notin auDue =>
      auLease[m] = "live" /\ auToken[m] = "valid" /\ AuUnasked(m)

\* While the execution is active, everyone is given what the record names.
AuSameInv ==
  auActive => \A m \in auLaunches :
    /\ auLaunch[m] \in {"resuming", "committed"} => auRecord # None /\ auFound[m] = auRecord
    /\ auReturned[m] # None => auReturned[m] = auRecord

AuIInv ==
  /\ Au!TypeOK /\ AuEndInv /\ AuNewInv /\ AuGoodInv /\ AuSameInv
  /\ Au!OneEnvironment /\ Au!TokensAreLeased

-----------------------------------------------------------------------------
(* Credentials: steps *)

USE DEF Au!Goes

\* A release that is asked for has the type of one, and is of these leases only.
LEMMA AuAsking ==
  ASSUME Au!TypeOK, NEW p \in auProcs, NEW ms, Au!Requested(p, ms)
  PROVE  /\ auRelease' \in [auProcs -> [auLaunches -> {"none", "asked", "calling"}]]
         /\ \A q \in auProcs, m \in auLaunches :
              auRelease'[q][m] # auRelease[q][m] => q = p /\ m \in ms
BY DEF Au!Requested, Au!TypeOK

\* Every step keeps the types.
LEMMA AuTypeStep ==
  ASSUME Au!AuthorityAssumption, Au!TypeOK, [Au!Next]_(Au!vars)
  PROVE  Au!TypeOK'
<1>0. \A m \in auLaunches : auHome[m] \in auProcs
  BY DEF Au!AuthorityAssumption
<1>1. ASSUME NEW m \in auLaunches, Au!Begin(m) PROVE Au!TypeOK'
  BY <1>0, <1>1 DEF Au!Begin, Au!TypeOK, Au!Where
<1>2. ASSUME NEW m \in auLaunches, Au!ReadRecord(m) PROVE Au!TypeOK'
  <2>1. auLaunch' \in [auLaunches -> Au!Where]
    <3>1. PICK at \in {"failing", "minted", "resuming"} : auLaunch' = [auLaunch EXCEPT ![m] = at]
      BY <1>2 DEF Au!ReadRecord
    <3>. QED BY <3>1 DEF Au!TypeOK, Au!Where
  <2>2. /\ auFound' \in [auLaunches -> auLaunches \cup {None}]
        /\ auToken' \in [auLaunches -> {"none", "valid", "revoked"}]
    <3>1. UNCHANGED auFound \/ (auRecord # None /\ auFound' = [auFound EXCEPT ![m] = auRecord])
      BY <1>2 DEF Au!ReadRecord
    <3>2. UNCHANGED auToken \/ auToken' = [auToken EXCEPT ![m] = "valid"]
      BY <1>2 DEF Au!ReadRecord
    <3>3. auFound' \in [auLaunches -> auLaunches \cup {None}]
      BY <3>1 DEF Au!TypeOK
    <3>4. auToken' \in [auLaunches -> {"none", "valid", "revoked"}]
      BY <3>2 DEF Au!TypeOK
    <3>. QED BY <3>3, <3>4
  <2>3. auTimers' \in [auProcs -> SUBSET auLaunches]
    BY <1>0, <1>2 DEF Au!ReadRecord, Au!TypeOK
  <2>. QED BY <1>2, <2>1, <2>2, <2>3 DEF Au!ReadRecord, Au!TypeOK
<1>3. ASSUME NEW m \in auLaunches, Au!Register(m) PROVE Au!TypeOK'
  <2>1. /\ auLaunch' \in [auLaunches -> Au!Where]
        /\ auLease' \in [auLaunches -> {"none", "live", "revoking"}]
    BY <1>3 DEF Au!Register, Au!TypeOK, Au!Where
  <2>2. auTimers' \in [auProcs -> SUBSET auLaunches]
    BY <1>0, <1>3 DEF Au!Register, Au!TypeOK
  <2>3. auRelease' \in [auProcs -> [auLaunches -> {"none", "asked", "calling"}]]
    BY <1>0, <1>3, AuAsking DEF Au!Register, Au!TypeOK
  <2>. QED BY <1>3, <2>1, <2>2, <2>3 DEF Au!Register, Au!TypeOK
<1>4. ASSUME NEW m \in auLaunches, Au!RegisterFails(m) PROVE Au!TypeOK'
  <2>1. auLaunch' \in [auLaunches -> Au!Where] /\ auFaults' \in 0 .. auMaxFaults
    BY <1>4 DEF Au!RegisterFails, Au!TypeOK, Au!Where, Au!Fault, Au!AuthorityAssumption
  <2>2. auToken' \in [auLaunches -> {"none", "valid", "revoked"}] /\ auAstray' \subseteq auLaunches
    BY <1>4 DEF Au!RegisterFails, Au!TypeOK
  <2>. QED BY <1>4, <2>1, <2>2 DEF Au!RegisterFails, Au!TypeOK
<1>5. ASSUME NEW m \in auLaunches, Au!Recheck(m) PROVE Au!TypeOK'
  BY <1>5 DEF Au!Recheck, Au!TypeOK, Au!Where
<1>6. ASSUME NEW m \in auLaunches, Au!Commit(m) PROVE Au!TypeOK'
  <2>1. auRelease' \in [auProcs -> [auLaunches -> {"none", "asked", "calling"}]]
    BY <1>0, <1>6, AuAsking DEF Au!Commit, Au!TypeOK
  <2>2. /\ auLaunch' \in [auLaunches -> Au!Where]
        /\ auFound' \in [auLaunches -> auLaunches \cup {None}]
    BY <1>6 DEF Au!Commit, Au!TypeOK, Au!Where, Au!Stored
  <2>. QED BY <1>6, <2>1, <2>2 DEF Au!Commit, Au!TypeOK
<1>7. ASSUME NEW m \in auLaunches, Au!CommitFails(m) PROVE Au!TypeOK'
  BY <1>7 DEF Au!CommitFails, Au!TypeOK, Au!Where, Au!Fault, Au!AuthorityAssumption
<1>8. ASSUME NEW m \in auLaunches, Au!Return(m) PROVE Au!TypeOK'
  <2>1. \E at \in {"done", "failing"} : auLaunch' = [auLaunch EXCEPT ![m] = at]
    BY <1>8 DEF Au!Return
  <2>2. auReturned' \in [auLaunches -> auLaunches \cup {None}]
    BY <1>8 DEF Au!Return, Au!TypeOK
  <2>3. auLaunch' \in [auLaunches -> Au!Where]
    BY <2>1 DEF Au!TypeOK, Au!Where
  <2>. QED BY <1>8, <2>2, <2>3 DEF Au!Return, Au!TypeOK
<1>9. ASSUME NEW m \in auLaunches, Au!CatchError(m) PROVE Au!TypeOK'
  <2>1. auRelease' \in [auProcs -> [auLaunches -> {"none", "asked", "calling"}]]
    BY <1>0, <1>9, AuAsking DEF Au!CatchError, Au!TypeOK
  <2>. QED BY <1>0, <1>9, <2>1 DEF Au!CatchError, Au!TypeOK, Au!Where
<1>10. ASSUME NEW m \in auLaunches, Au!Expire(m) PROVE Au!TypeOK'
  BY <1>10 DEF Au!Expire, Au!TypeOK, Au!Fault, Au!AuthorityAssumption
<1>11. ASSUME NEW p \in auHosts, Au!End(p) PROVE Au!TypeOK'
  BY <1>11 DEF Au!End, Au!TypeOK, Au!AuthorityAssumption
<1>12. ASSUME NEW p \in auProcs, Au!RemoveRecord(p) PROVE Au!TypeOK'
  BY <1>12 DEF Au!RemoveRecord, Au!TypeOK
<1>13. ASSUME NEW p \in auProcs, Au!ReleaseLeases(p) PROVE Au!TypeOK'
  <2>1. auRelease' \in [auProcs -> [auLaunches -> {"none", "asked", "calling"}]]
    BY <1>13, AuAsking DEF Au!ReleaseLeases
  <2>. QED BY <1>13, <2>1 DEF Au!ReleaseLeases, Au!TypeOK
<1>14. ASSUME NEW p \in auProcs, Au!Exit(p) \/ Au!Crash(p) PROVE Au!TypeOK'
  <2>1. Au!Gone(p) /\ auFaults' \in 0 .. auMaxFaults
    BY <1>14 DEF Au!Exit, Au!Crash, Au!Fault, Au!TypeOK, Au!AuthorityAssumption
  <2>2. auLaunch' \in [auLaunches -> Au!Where] /\ auAstray' \subseteq auLaunches
    BY <2>1 DEF Au!Gone, Au!TypeOK, Au!Where, Au!Pending
  <2>3. auRelease' \in [auProcs -> [auLaunches -> {"none", "asked", "calling"}]]
    BY <2>1 DEF Au!Gone, Au!TypeOK
  <2>. QED BY <2>1, <2>2, <2>3 DEF Au!Gone, Au!TypeOK
<1>15. ASSUME NEW p \in auProcs, Au!Start(p) PROVE Au!TypeOK'
  <2>1. auRelease' \in [auProcs -> [auLaunches -> {"none", "asked", "calling"}]]
    BY <1>15 DEF Au!Start, Au!Recovers, Au!TypeOK
  <2>2. auTimers' \in [auProcs -> SUBSET auLaunches]
    BY <1>15 DEF Au!Start, Au!TypeOK
  <2>. QED BY <1>15, <2>1, <2>2 DEF Au!Start, Au!Recovers, Au!TypeOK
<1>16. ASSUME NEW p \in auProcs, Au!Stop(p) PROVE Au!TypeOK'
  BY <1>16 DEF Au!Stop, Au!TypeOK, Au!Fault, Au!AuthorityAssumption
<1>17. ASSUME NEW p \in auProcs, NEW m \in auLaunches, Au!Revoke(p, m) PROVE Au!TypeOK'
  <2>1. CASE Au!Fire(p, m)
    BY <2>1 DEF Au!Fire, Au!TypeOK
  <2>2. CASE Au!TakeLock(p, m)
    <3>1. /\ \E x \in {"none", "calling"} : auRelease' = [auRelease EXCEPT ![p][m] = x]
          /\ auLease' = auLease \/ auLease' = [auLease EXCEPT ![m] = "revoking"]
      BY <2>2 DEF Au!TakeLock
    <3>2. auRelease' \in [auProcs -> [auLaunches -> {"none", "asked", "calling"}]]
      BY <3>1 DEF Au!TypeOK
    <3>. QED BY <2>2, <3>1, <3>2 DEF Au!TakeLock, Au!TypeOK
  <2>3. CASE Au!Revoked(p, m)
    BY <2>3 DEF Au!Revoked, Au!TypeOK
  <2>. QED BY <1>17, <2>1, <2>2, <2>3 DEF Au!Revoke
<1>18. ASSUME NEW p \in auProcs, NEW m \in auLaunches, Au!RevocationFails(p, m) PROVE Au!TypeOK'
  BY <1>18 DEF Au!RevocationFails, Au!TypeOK, Au!Fault, Au!AuthorityAssumption, Au!Kept
<1>19. CASE UNCHANGED Au!vars
  BY <1>19 DEF Au!vars, Au!TypeOK
<1>. QED
  BY <1>1, <1>2, <1>3, <1>4, <1>5, <1>6, <1>7, <1>8, <1>9, <1>10, <1>11, <1>12, <1>13, <1>14,
     <1>15, <1>16, <1>17, <1>18, <1>19 DEF Au!Next, Au!Materialize, Au!Work

\* A process learns of the end after it.
LEMMA AuEndStep ==
  ASSUME Au!AuthorityAssumption, Au!TypeOK, AuEndInv, [Au!Next]_(Au!vars)
  PROVE  AuEndInv'
<1>1. ASSUME NEW m \in auLaunches, Au!Begin(m) \/ Au!CatchError(m) PROVE AuEndInv'
  <2>1. CASE Au!Begin(m)
    BY <2>1 DEF Au!Begin, AuEndInv, Au!TypeOK, Au!AuthorityAssumption
  <2>2. CASE Au!CatchError(m)
    BY <2>2 DEF Au!CatchError, AuEndInv, Au!TypeOK, Au!AuthorityAssumption
  <2>. QED BY <1>1, <2>1, <2>2
<1>2. ASSUME NEW p \in auProcs, Au!RemoveRecord(p) \/ Au!ReleaseLeases(p) \/ Au!Start(p) PROVE AuEndInv'
  BY <1>2 DEF Au!RemoveRecord, Au!ReleaseLeases, Au!Start, Au!Recovers, AuEndInv, Au!TypeOK
<1>3. ASSUME NEW p \in auProcs, Au!Exit(p) \/ Au!Crash(p) PROVE AuEndInv'
  BY <1>3 DEF Au!Exit, Au!Crash, Au!Gone, AuEndInv, Au!TypeOK
<1>4. CASE \E p \in auHosts : Au!End(p)
  BY <1>4 DEF Au!End, AuEndInv
<1>5. CASE UNCHANGED <<auEnding, auFlag, auActive>>
  BY <1>5 DEF AuEndInv
<1>6. ASSUME NEW m \in auLaunches,
             \/ Au!ReadRecord(m) \/ Au!Register(m) \/ Au!RegisterFails(m) \/ Au!Recheck(m) \/ Au!Commit(m)
             \/ Au!CommitFails(m) \/ Au!Return(m) \/ Au!Expire(m)
             \/ \E p \in auProcs : Au!Revoke(p, m) \/ Au!RevocationFails(p, m)
      PROVE  UNCHANGED <<auEnding, auFlag, auActive>>
  BY <1>6 DEF Au!ReadRecord, Au!Register, Au!RegisterFails, Au!Recheck, Au!Commit,
     Au!CommitFails, Au!Return, Au!Expire,
              Au!Revoke, Au!Fire, Au!TakeLock, Au!Revoked, Au!RevocationFails
<1>7. ASSUME NEW p \in auProcs, Au!Stop(p) PROVE UNCHANGED <<auEnding, auFlag, auActive>>
  BY <1>7 DEF Au!Stop
<1>8. UNCHANGED Au!vars => UNCHANGED <<auEnding, auFlag, auActive>>
  BY DEF Au!vars
<1>. QED BY <1>1, <1>2, <1>3, <1>4, <1>5, <1>6, <1>7, <1>8 DEF Au!Next, Au!Materialize, Au!Work

\* A release that is asked for leaves other leases alone.
LEMMA AuAskedOf ==
  ASSUME Au!TypeOK, NEW p \in auProcs, NEW ms, Au!Requested(p, ms)
  PROVE  \A m \in auLaunches \ ms : AuUnasked(m) => AuUnasked(m)'
BY DEF Au!Requested, Au!TypeOK, AuUnasked

\* Only a lease that was asked for is taken for its release.
LEMMA AuTaking ==
  ASSUME Au!TypeOK, NEW p \in auProcs, NEW m \in auLaunches, Au!TakeLock(p, m)
  PROVE  /\ UNCHANGED <<auActive, auEnding, auFlag, auLaunch, auFound, auReturned, auRecord,
                        auToken, auDue, auTimers, auAstray>>
         /\ ~AuUnasked(m)
         /\ \A l \in auLaunches \ {m} : auLease'[l] = auLease[l] /\ (AuUnasked(l) => AuUnasked(l)')
         /\ auLease'[m] = "none" <=> auLease[m] = "none"
<1>1. /\ UNCHANGED <<auActive, auEnding, auFlag, auLaunch, auFound, auReturned, auRecord,
                     auToken, auDue, auTimers, auAstray>>
      /\ ~AuUnasked(m)
  BY DEF Au!TakeLock, AuUnasked
<1>2. \A l \in auLaunches \ {m} : \A q \in auProcs : auRelease'[q][l] = auRelease[q][l]
  <2>1. PICK x : auRelease' = [auRelease EXCEPT ![p][m] = x]
    BY DEF Au!TakeLock
  <2>. QED BY <2>1 DEF Au!TypeOK
<1>3. auLease' = auLease \/ (auLease[m] # "none" /\ auLease' = [auLease EXCEPT ![m] = "revoking"])
  BY DEF Au!TakeLock
<1>. QED BY <1>1, <1>2, <1>3 DEF AuUnasked, Au!TypeOK

\* A process that starts asks for leases of an active execution that are past their
\* deadline or being revoked, and waits for those that are there.
LEMMA AuStarting ==
  ASSUME Au!TypeOK, NEW p \in auProcs, Au!Start(p)
  PROVE  /\ UNCHANGED <<auActive, auFlag, auLaunch, auFound, auReturned, auRecord, auLease,
                        auToken, auDue, auAstray>>
         /\ \A m \in auLaunches :
              /\ AuUnasked(m) => AuUnasked(m)' \/ (auActive /\ (auLease[m] = "revoking" \/ (auLease[m] = "live" /\ m \in auDue)))
              /\ \A q \in auProcs : m \in auTimers'[q] => m \in auTimers[q] \/ auLease[m] = "live"
<1>1. UNCHANGED <<auActive, auFlag, auLaunch, auFound, auReturned, auRecord, auLease, auToken,
                  auDue, auAstray>>
  BY DEF Au!Start
<1>2. ASSUME NEW m \in auLaunches, AuUnasked(m), ~AuUnasked(m)'
      PROVE  auActive /\ (auLease[m] = "revoking" \/ (auLease[m] = "live" /\ m \in auDue))
  <2>1. auActive
    BY <1>2 DEF Au!Start, Au!Recovers, AuUnasked
  <2>2. auRelease' = [auRelease EXCEPT ![p] = [l \in auLaunches |->
          IF auLease[l] = "revoking" \/ (auLease[l] = "live" /\ l \in auDue) THEN "asked" ELSE "none"]]
    BY <2>1 DEF Au!Start, Au!Recovers
  <2>. QED BY <1>2, <2>1, <2>2 DEF AuUnasked, Au!TypeOK
<1>3. ASSUME NEW m \in auLaunches, NEW q \in auProcs, m \in auTimers'[q]
      PROVE  m \in auTimers[q] \/ auLease[m] = "live"
  BY <1>3 DEF Au!Start, Au!TypeOK
<1>. QED BY <1>1, <1>2, <1>3

\* Every step keeps NewInv.
LEMMA AuNewStep ==
  ASSUME Au!AuthorityAssumption, Au!TypeOK, Au!TypeOK', AuEndInv, AuNewInv, [Au!Next]_(Au!vars)
  PROVE  AuNewInv'
<1>1. ASSUME NEW m \in auLaunches, Au!Begin(m) PROVE AuNewInv'
  BY <1>1 DEF Au!Begin, Au!TypeOK, Au!AuthorityAssumption, AuNewInv, AuUnasked
<1>2. ASSUME NEW m \in auLaunches, Au!ReadRecord(m) PROVE AuNewInv'
  <2>1. /\ auLaunch[m] = "asserted" /\ UNCHANGED <<auRecord, auLease, auDue, auRelease>>
        /\ \A q \in auProcs, l \in auLaunches : l \in auTimers'[q] => l \in auTimers[q] \/ auLease[l] # "none"
    <3>1. auLaunch[m] = "asserted" /\ UNCHANGED <<auRecord, auLease, auDue, auRelease>>
      BY <1>2 DEF Au!ReadRecord
    <3>. PICK h : h = auHome[m] /\ h \in auProcs
      BY DEF Au!AuthorityAssumption
    <3>. PICK held : held = {l \in auLaunches : auLease[l] # "none"}
      OBVIOUS
    <3>2. auTimers' = auTimers \/ auTimers' = [auTimers EXCEPT ![h] = auTimers[h] \cup held]
      BY <1>2 DEF Au!ReadRecord
    <3>3. \A q \in auProcs : auTimers'[q] = auTimers[q] \/ auTimers'[q] = auTimers[q] \cup held
      BY <3>2 DEF Au!TypeOK
    <3>. QED BY <3>1, <3>3
  <2>2. \/ auToken' = auToken /\ auLaunch' = [auLaunch EXCEPT ![m] = "failing"]
        \/ auToken' = auToken /\ auLaunch' = [auLaunch EXCEPT ![m] = "resuming"]
        \/ auToken' = [auToken EXCEPT ![m] = "valid"] /\ auLaunch' = [auLaunch EXCEPT ![m] = "minted"]
    BY <1>2 DEF Au!ReadRecord
  <2>3. \A l \in auLaunches : AuUnasked(l) => AuUnasked(l)'
    BY <2>1 DEF AuUnasked
  <2>4. CASE /\ auToken' = auToken
             /\ \/ auLaunch' = [auLaunch EXCEPT ![m] = "failing"]
                \/ auLaunch' = [auLaunch EXCEPT ![m] = "resuming"]
    BY <2>1, <2>3, <2>4 DEF AuNewInv, Au!TypeOK
  <2>5. CASE /\ auToken' = [auToken EXCEPT ![m] = "valid"]
             /\ auLaunch' = [auLaunch EXCEPT ![m] = "minted"]
    BY <2>1, <2>3, <2>5 DEF AuNewInv, Au!TypeOK
  <2>. QED BY <2>2, <2>4, <2>5
<1>3. ASSUME NEW m \in auLaunches, Au!Register(m) PROVE AuNewInv'
  <2>. PICK p : p = auHome[m] /\ p \in auProcs
    BY DEF Au!AuthorityAssumption
  <2>1. /\ auLaunch[m] = "minted" /\ UNCHANGED <<auRecord, auToken, auDue>>
        /\ auLease' = [auLease EXCEPT ![m] = "live"]
        /\ auTimers' = auTimers \/ auTimers' = [auTimers EXCEPT ![p] = auTimers[p] \cup {m}]
        /\ auLaunch' = [auLaunch EXCEPT ![m] = "failing"] \/ auLaunch' = [auLaunch EXCEPT ![m] = "registered"]
    <3>1. /\ auLaunch[m] = "minted" /\ UNCHANGED <<auRecord, auToken, auDue>>
          /\ auLease' = [auLease EXCEPT ![m] = "live"]
          /\ auLaunch' = [auLaunch EXCEPT ![m] = "failing"] \/ auLaunch' = [auLaunch EXCEPT ![m] = "registered"]
      BY <1>3 DEF Au!Register
    <3>2. auTimers' = auTimers \/ auTimers' = [auTimers EXCEPT ![p] = auTimers[p] \cup {m}]
      BY <1>3 DEF Au!Register
    <3>. QED BY <3>1, <3>2
  <2>2. \A l \in auLaunches \ {m} : AuUnasked(l) => AuUnasked(l)'
    BY <1>3, AuAskedOf DEF Au!Register, AuUnasked, Au!AuthorityAssumption
  <2>3. /\ auLaunch'[m] \notin {"idle", "asserted", "minted", "resuming"}
        /\ \A l \in auLaunches \ {m} : auLaunch'[l] = auLaunch[l] /\ auLease'[l] = auLease[l]
    <3>1. DOMAIN auLaunch = auLaunches /\ DOMAIN auLease = auLaunches
      BY DEF Au!TypeOK
    <3>. QED BY <2>1, <3>1
  <2>4. \A q \in auProcs, l \in auLaunches \ {m} : l \in auTimers'[q] => l \in auTimers[q]
    <3>1. auTimers \in [auProcs -> SUBSET auLaunches]
      BY DEF Au!TypeOK
    <3>2. \A q \in auProcs : auTimers'[q] \in {auTimers[q], auTimers[q] \cup {m}}
      BY <2>1, <3>1
    <3>. QED BY <3>2
  <2>. QED BY <2>1, <2>2, <2>3, <2>4 DEF AuNewInv
<1>4. ASSUME NEW m \in auLaunches, Au!RegisterFails(m) PROVE AuNewInv'
  BY <1>4 DEF Au!RegisterFails, Au!TypeOK, Au!AuthorityAssumption, AuNewInv, AuUnasked
<1>5. ASSUME NEW m \in auLaunches, Au!Recheck(m) PROVE AuNewInv'
  BY <1>5 DEF Au!Recheck, Au!Live, Au!TypeOK, Au!AuthorityAssumption, AuNewInv, AuUnasked
<1>6. ASSUME NEW m \in auLaunches, Au!Commit(m) PROVE AuNewInv'
  <2>1. /\ auLaunch[m] = "ready" /\ UNCHANGED <<auActive, auLease, auToken, auDue, auTimers>>
        /\ auLaunch' = [auLaunch EXCEPT ![m] = "committed"]
        /\ auRecord' = IF auRecord = None THEN m ELSE auRecord
        /\ auRelease' = auRelease \/ (auRecord' # m /\ Au!Requested(auHome[m], {m}))
    BY <1>6 DEF Au!Commit
  <2>2. \A l \in auLaunches : AuUnasked(l) => AuUnasked(l)' \/ (l = m /\ auRecord' # m)
    BY <2>1, AuAskedOf DEF AuUnasked, Au!AuthorityAssumption
  <2>. QED BY <2>1, <2>2 DEF AuNewInv, Au!TypeOK
<1>7. ASSUME NEW m \in auLaunches, Au!CommitFails(m) PROVE AuNewInv'
  BY <1>7 DEF Au!CommitFails, Au!TypeOK, Au!AuthorityAssumption, AuNewInv, AuUnasked
<1>8. ASSUME NEW m \in auLaunches, Au!Return(m) PROVE AuNewInv'
  BY <1>8 DEF Au!Return, Au!Live, Au!TypeOK, Au!AuthorityAssumption, AuNewInv, AuUnasked
<1>9. ASSUME NEW m \in auLaunches, Au!CatchError(m) PROVE AuNewInv'
  <2>1. /\ auLaunch[m] = "failing" /\ UNCHANGED <<auActive, auRecord, auLease, auToken, auDue,
                                                  auTimers>>
        /\ auLaunch' = [auLaunch EXCEPT ![m] = "done"]
        /\ auRelease' = auRelease \/ Au!Requested(auHome[m], {l \in Au!Uncommitted(m) : auLease[l] # "none"})
    BY <1>9 DEF Au!CatchError
  <2>2. \A l \in auLaunches \ {m} : AuUnasked(l) => AuUnasked(l)'
    BY <2>1, AuAskedOf DEF AuUnasked, Au!Uncommitted, Au!AuthorityAssumption
  <2>. QED BY <2>1, <2>2 DEF AuNewInv, Au!TypeOK
<1>10. ASSUME NEW m \in auLaunches, Au!Expire(m) PROVE AuNewInv'
  BY <1>10 DEF Au!Expire, Au!TypeOK, Au!AuthorityAssumption, AuNewInv, AuUnasked
<1>11. ASSUME NEW p \in auHosts, Au!End(p) PROVE AuNewInv'
  BY <1>11 DEF Au!End, Au!TypeOK, Au!AuthorityAssumption, AuNewInv, AuUnasked
<1>12. ASSUME NEW p \in auProcs, Au!RemoveRecord(p) PROVE AuNewInv'
  BY <1>12 DEF Au!RemoveRecord, Au!TypeOK, Au!AuthorityAssumption, AuNewInv, AuUnasked
<1>13. ASSUME NEW p \in auProcs, Au!ReleaseLeases(p) PROVE AuNewInv'
  <2>1. /\ Au!Requested(p, {m \in auLaunches : auLease[m] # "none"})
        /\ UNCHANGED <<auLaunch, auRecord, auLease, auToken, auDue, auTimers>>
    BY <1>13 DEF Au!ReleaseLeases
  <2>2. \A m \in auLaunches : auLease[m] = "none" /\ AuUnasked(m) => AuUnasked(m)'
    BY <2>1, AuAskedOf
  <2>. QED BY <2>1, <2>2 DEF AuNewInv
<1>14. ASSUME NEW p \in auProcs, Au!Gone(p) PROVE AuNewInv'
  BY <1>14
     DEF Au!Gone, Au!Pending, Au!Running, Au!TypeOK, Au!AuthorityAssumption, AuNewInv, AuUnasked
<1>15. ASSUME NEW p \in auProcs, Au!Start(p) PROVE AuNewInv'
  BY <1>15, AuStarting DEF AuNewInv, AuUnasked, Au!Start
<1>16. ASSUME NEW p \in auProcs, Au!Stop(p) PROVE AuNewInv'
  BY <1>16 DEF Au!Stop, Au!TypeOK, Au!AuthorityAssumption, AuNewInv, AuUnasked
<1>17. ASSUME NEW p \in auProcs, NEW m \in auLaunches, Au!Fire(p, m) PROVE AuNewInv'
  BY <1>17 DEF Au!Fire, Au!TypeOK, Au!AuthorityAssumption, AuNewInv, AuUnasked
<1>18. ASSUME NEW p \in auProcs, NEW m \in auLaunches, Au!TakeLock(p, m) PROVE AuNewInv'
  BY <1>18, AuTaking DEF AuNewInv
<1>19. ASSUME NEW p \in auProcs, NEW m \in auLaunches, Au!Revoked(p, m) PROVE AuNewInv'
  BY <1>19 DEF Au!Revoked, Au!TypeOK, Au!AuthorityAssumption, AuNewInv, AuUnasked
<1>20. ASSUME NEW p \in auProcs, NEW m \in auLaunches, Au!RevocationFails(p, m) PROVE AuNewInv'
  BY <1>20 DEF Au!RevocationFails, Au!Kept, Au!TypeOK, Au!AuthorityAssumption, AuNewInv, AuUnasked
<1>21. CASE UNCHANGED Au!vars
  BY <1>21 DEF Au!vars, AuNewInv, AuUnasked
<1>. QED
  BY <1>1, <1>2, <1>3, <1>4, <1>5, <1>6, <1>7, <1>8, <1>9, <1>10, <1>11, <1>12, <1>13, <1>14,
     <1>15, <1>16, <1>17, <1>18, <1>19, <1>20, <1>21
  DEF Au!Next, Au!Materialize, Au!Work, Au!Revoke, Au!Exit, Au!Crash

\* Every step keeps GoodInv: what may be committed is not released before its deadline.
LEMMA AuGoodStep ==
  ASSUME Au!AuthorityAssumption, Au!TypeOK, Au!TypeOK', AuEndInv, AuNewInv, AuGoodInv,
         [Au!Next]_(Au!vars)
  PROVE  AuGoodInv'
<1>1. ASSUME NEW m \in auLaunches, Au!Begin(m) PROVE AuGoodInv'
  BY <1>1 DEF Au!Begin, Au!TypeOK, Au!AuthorityAssumption, AuGoodInv, AuNewInv, AuEndInv, AuUnasked
<1>2. ASSUME NEW m \in auLaunches, Au!ReadRecord(m) PROVE AuGoodInv'
  BY <1>2 DEF Au!ReadRecord, Au!Live, Au!TypeOK, Au!AuthorityAssumption, AuGoodInv, AuNewInv,
     AuEndInv, AuUnasked
<1>3. ASSUME NEW m \in auLaunches, Au!Register(m) PROVE AuGoodInv'
  <2>. PICK p : p = auHome[m] /\ p \in auProcs
    BY DEF Au!AuthorityAssumption
  <2>1. /\ auLaunch[m] = "minted" /\ UNCHANGED <<auActive, auRecord, auToken, auDue>>
        /\ auLease' = [auLease EXCEPT ![m] = "live"]
        /\ \/ auLaunch' = [auLaunch EXCEPT ![m] = "failing"]
           \/ auLaunch' = [auLaunch EXCEPT ![m] = "registered"] /\ (AuUnasked(m) => AuUnasked(m)')
    BY <1>3 DEF Au!Register, AuUnasked
  <2>2. \A l \in auLaunches \ {m} : AuUnasked(l) => AuUnasked(l)'
    BY <1>3, AuAskedOf DEF Au!Register, AuUnasked, Au!AuthorityAssumption
  <2>3. auLease[m] = "none" /\ auToken[m] = "valid" /\ auRecord # m /\ AuUnasked(m)
    BY <2>1 DEF AuNewInv
  <2>. QED BY <2>1, <2>2, <2>3 DEF AuGoodInv, Au!TypeOK
<1>4. ASSUME NEW m \in auLaunches, Au!RegisterFails(m) PROVE AuGoodInv'
  BY <1>4 DEF Au!RegisterFails, Au!TypeOK, Au!AuthorityAssumption, AuGoodInv, AuNewInv, AuEndInv,
     AuUnasked
<1>5. ASSUME NEW m \in auLaunches, Au!Recheck(m) PROVE AuGoodInv'
  BY <1>5 DEF Au!Recheck, Au!Live, Au!TypeOK, Au!AuthorityAssumption, AuGoodInv, AuNewInv,
     AuEndInv, AuUnasked
<1>6. ASSUME NEW m \in auLaunches, Au!Commit(m) PROVE AuGoodInv'
  <2>1. /\ auLaunch[m] = "ready" /\ UNCHANGED <<auActive, auLease, auToken, auDue, auTimers>>
        /\ auLaunch' = [auLaunch EXCEPT ![m] = "committed"]
        /\ auRecord' = IF auRecord = None THEN m ELSE auRecord
        /\ auRelease' = auRelease \/ (auRecord' # m /\ Au!Requested(auHome[m], {m}))
    BY <1>6 DEF Au!Commit
  <2>2. \A l \in auLaunches : AuUnasked(l) => AuUnasked(l)' \/ (l = m /\ auRecord' # m)
    BY <2>1, AuAskedOf DEF AuUnasked, Au!AuthorityAssumption
  <2>. QED BY <2>1, <2>2 DEF AuGoodInv, Au!TypeOK
<1>7. ASSUME NEW m \in auLaunches, Au!CommitFails(m) PROVE AuGoodInv'
  BY <1>7 DEF Au!CommitFails, Au!TypeOK, Au!AuthorityAssumption, AuGoodInv, AuNewInv, AuEndInv,
     AuUnasked
<1>8. ASSUME NEW m \in auLaunches, Au!Return(m) PROVE AuGoodInv'
  BY <1>8 DEF Au!Return, Au!Live, Au!TypeOK, Au!AuthorityAssumption, AuGoodInv, AuNewInv,
     AuEndInv, AuUnasked
<1>9. ASSUME NEW m \in auLaunches, Au!CatchError(m) PROVE AuGoodInv'
  <2>1. /\ auLaunch[m] = "failing" /\ UNCHANGED <<auActive, auRecord, auLease, auToken, auDue,
                                                  auTimers>>
        /\ auLaunch' = [auLaunch EXCEPT ![m] = "done"]
        /\ auRelease' = auRelease \/ Au!Requested(auHome[m], {l \in Au!Uncommitted(m) : auLease[l] # "none"})
    BY <1>9 DEF Au!CatchError
  <2>2. \A l \in auLaunches : AuUnasked(l) => AuUnasked(l)' \/ (l = m /\ auRecord # m)
    BY <2>1, AuAskedOf DEF AuUnasked, Au!Uncommitted, Au!AuthorityAssumption
  <2>. QED BY <2>1, <2>2 DEF AuGoodInv, Au!TypeOK
<1>10. ASSUME NEW m \in auLaunches, Au!Expire(m) PROVE AuGoodInv'
  BY <1>10
     DEF Au!Expire, Au!TypeOK, Au!AuthorityAssumption, AuGoodInv, AuNewInv, AuEndInv, AuUnasked
<1>11. ASSUME NEW p \in auHosts, Au!End(p) PROVE AuGoodInv'
  BY <1>11 DEF Au!End, Au!TypeOK, Au!AuthorityAssumption, AuGoodInv, AuNewInv, AuEndInv, AuUnasked
<1>12. ASSUME NEW p \in auProcs, Au!RemoveRecord(p) PROVE AuGoodInv'
  BY <1>12 DEF Au!RemoveRecord, Au!TypeOK, Au!AuthorityAssumption, AuGoodInv, AuNewInv, AuEndInv,
     AuUnasked
<1>13. ASSUME NEW p \in auProcs, Au!ReleaseLeases(p) PROVE AuGoodInv'
  BY <1>13, AuAsking, AuAskedOf
     DEF Au!ReleaseLeases, Au!TypeOK, Au!AuthorityAssumption, AuGoodInv, AuNewInv, AuEndInv,
         AuUnasked
<1>14. ASSUME NEW p \in auProcs, Au!Gone(p) PROVE AuGoodInv'
  BY <1>14
     DEF Au!Gone, Au!Pending, Au!Running, Au!TypeOK, Au!AuthorityAssumption, AuGoodInv, AuNewInv,
         AuEndInv, AuUnasked
<1>15. ASSUME NEW p \in auProcs, Au!Start(p) PROVE AuGoodInv'
  BY <1>15, AuStarting DEF AuGoodInv, AuNewInv, AuEndInv, AuUnasked
<1>16. ASSUME NEW p \in auProcs, Au!Stop(p) PROVE AuGoodInv'
  BY <1>16 DEF Au!Stop, Au!TypeOK, Au!AuthorityAssumption, AuGoodInv, AuNewInv, AuEndInv, AuUnasked
<1>17. ASSUME NEW p \in auProcs, NEW m \in auLaunches, Au!Fire(p, m) PROVE AuGoodInv'
  BY <1>17 DEF Au!Fire, Au!TypeOK, Au!AuthorityAssumption, AuGoodInv, AuNewInv, AuEndInv, AuUnasked
<1>18. ASSUME NEW p \in auProcs, NEW m \in auLaunches, Au!TakeLock(p, m) PROVE AuGoodInv'
  BY <1>18, AuTaking DEF AuGoodInv, AuNewInv, AuEndInv
<1>19. ASSUME NEW p \in auProcs, NEW m \in auLaunches, Au!Revoked(p, m) PROVE AuGoodInv'
  BY <1>19
     DEF Au!Revoked, Au!TypeOK, Au!AuthorityAssumption, AuGoodInv, AuNewInv, AuEndInv, AuUnasked
<1>20. ASSUME NEW p \in auProcs, NEW m \in auLaunches, Au!RevocationFails(p, m) PROVE AuGoodInv'
  BY <1>20
     DEF Au!RevocationFails, Au!Kept, Au!TypeOK, Au!AuthorityAssumption, AuGoodInv, AuNewInv,
         AuEndInv, AuUnasked
<1>21. CASE UNCHANGED Au!vars
  BY <1>21 DEF Au!vars, AuGoodInv, AuNewInv, AuEndInv, AuUnasked
<1>. QED
  BY <1>1, <1>2, <1>3, <1>4, <1>5, <1>6, <1>7, <1>8, <1>9, <1>10, <1>11, <1>12, <1>13, <1>14,
     <1>15, <1>16, <1>17, <1>18, <1>19, <1>20, <1>21
  DEF Au!Next, Au!Materialize, Au!Work, Au!Revoke, Au!Exit, Au!Crash

\* Every step keeps SameInv: the record of an active execution is made once.
LEMMA AuSameStep ==
  ASSUME Au!AuthorityAssumption, Au!TypeOK, Au!TypeOK', AuEndInv, AuNewInv, AuSameInv,
         [Au!Next]_(Au!vars)
  PROVE  AuSameInv'
<1>1. ASSUME NEW m \in auLaunches, Au!Begin(m) PROVE AuSameInv'
  BY <1>1 DEF Au!Begin, Au!TypeOK, Au!AuthorityAssumption, AuSameInv, AuEndInv
<1>2. ASSUME NEW m \in auLaunches, Au!ReadRecord(m) PROVE AuSameInv'
  BY <1>2 DEF Au!ReadRecord, Au!Live, Au!TypeOK, Au!AuthorityAssumption, AuSameInv, AuEndInv
<1>3. ASSUME NEW m \in auLaunches, Au!Register(m) PROVE AuSameInv'
  BY <1>3, AuAsking, AuAskedOf
     DEF Au!Register, Au!Live, Au!TypeOK, Au!AuthorityAssumption, AuSameInv, AuEndInv
<1>4. ASSUME NEW m \in auLaunches, Au!RegisterFails(m) PROVE AuSameInv'
  BY <1>4 DEF Au!RegisterFails, Au!TypeOK, Au!AuthorityAssumption, AuSameInv, AuEndInv
<1>5. ASSUME NEW m \in auLaunches, Au!Recheck(m) PROVE AuSameInv'
  BY <1>5 DEF Au!Recheck, Au!Live, Au!TypeOK, Au!AuthorityAssumption, AuSameInv, AuEndInv
<1>6. ASSUME NEW m \in auLaunches, Au!Commit(m) PROVE AuSameInv'
  BY <1>6, AuAsking, AuAskedOf
     DEF Au!Commit, Au!Stored, Au!TypeOK, Au!AuthorityAssumption, AuSameInv, AuEndInv
<1>7. ASSUME NEW m \in auLaunches, Au!CommitFails(m) PROVE AuSameInv'
  BY <1>7 DEF Au!CommitFails, Au!TypeOK, Au!AuthorityAssumption, AuSameInv, AuEndInv
<1>8. ASSUME NEW m \in auLaunches, Au!Return(m) PROVE AuSameInv'
  <2>1. auLaunch[m] \in {"resuming", "committed"} /\ UNCHANGED <<auActive, auFound, auRecord>>
    BY <1>8 DEF Au!Return
  <2>2. PICK at \in {"done", "failing"} : auLaunch' = [auLaunch EXCEPT ![m] = at]
    BY <1>8 DEF Au!Return
  <2>3. UNCHANGED auReturned \/ auReturned' = [auReturned EXCEPT ![m] = auFound[m]]
    BY <1>8 DEF Au!Return
  <2>. QED BY <2>1, <2>2, <2>3 DEF Au!TypeOK, AuSameInv
<1>9. ASSUME NEW m \in auLaunches, Au!CatchError(m) PROVE AuSameInv'
  BY <1>9, AuAsking, AuAskedOf
     DEF Au!CatchError, Au!Uncommitted, Au!TypeOK, Au!AuthorityAssumption, AuSameInv, AuEndInv
<1>10. ASSUME NEW m \in auLaunches, Au!Expire(m) PROVE AuSameInv'
  BY <1>10 DEF Au!Expire, Au!TypeOK, Au!AuthorityAssumption, AuSameInv, AuEndInv
<1>11. ASSUME NEW p \in auHosts, Au!End(p) PROVE AuSameInv'
  BY <1>11 DEF Au!End, Au!TypeOK, Au!AuthorityAssumption, AuSameInv, AuEndInv
<1>12. ASSUME NEW p \in auProcs, Au!RemoveRecord(p) PROVE AuSameInv'
  BY <1>12 DEF Au!RemoveRecord, Au!TypeOK, Au!AuthorityAssumption, AuSameInv, AuEndInv
<1>13. ASSUME NEW p \in auProcs, Au!ReleaseLeases(p) PROVE AuSameInv'
  BY <1>13, AuAsking, AuAskedOf
     DEF Au!ReleaseLeases, Au!TypeOK, Au!AuthorityAssumption, AuSameInv, AuEndInv
<1>14. ASSUME NEW p \in auProcs, Au!Gone(p) PROVE AuSameInv'
  BY <1>14
     DEF Au!Gone, Au!Pending, Au!Running, Au!TypeOK, Au!AuthorityAssumption, AuSameInv, AuEndInv
<1>15. ASSUME NEW p \in auProcs, Au!Start(p) PROVE AuSameInv'
  BY <1>15, AuStarting DEF AuSameInv, AuEndInv
<1>16. ASSUME NEW p \in auProcs, Au!Stop(p) PROVE AuSameInv'
  BY <1>16 DEF Au!Stop, Au!TypeOK, Au!AuthorityAssumption, AuSameInv, AuEndInv
<1>17. ASSUME NEW p \in auProcs, NEW m \in auLaunches, Au!Fire(p, m) PROVE AuSameInv'
  BY <1>17 DEF Au!Fire, Au!TypeOK, Au!AuthorityAssumption, AuSameInv, AuEndInv
<1>18. ASSUME NEW p \in auProcs, NEW m \in auLaunches, Au!TakeLock(p, m) PROVE AuSameInv'
  BY <1>18, AuTaking DEF AuSameInv, AuEndInv
<1>19. ASSUME NEW p \in auProcs, NEW m \in auLaunches, Au!Revoked(p, m) PROVE AuSameInv'
  BY <1>19 DEF Au!Revoked, Au!TypeOK, Au!AuthorityAssumption, AuSameInv, AuEndInv
<1>20. ASSUME NEW p \in auProcs, NEW m \in auLaunches, Au!RevocationFails(p, m) PROVE AuSameInv'
  BY <1>20 DEF Au!RevocationFails, Au!Kept, Au!TypeOK, Au!AuthorityAssumption, AuSameInv, AuEndInv
<1>21. CASE UNCHANGED Au!vars
  BY <1>21 DEF Au!vars, AuSameInv, AuEndInv
<1>. QED
  BY <1>1, <1>2, <1>3, <1>4, <1>5, <1>6, <1>7, <1>8, <1>9, <1>10, <1>11, <1>12, <1>13, <1>14,
     <1>15, <1>16, <1>17, <1>18, <1>19, <1>20, <1>21
  DEF Au!Next, Au!Materialize, Au!Work, Au!Revoke, Au!Exit, Au!Crash

\* Every step keeps OneEnvironment.
LEMMA AuOneStep ==
  ASSUME Au!AuthorityAssumption, Au!TypeOK, Au!TypeOK', AuSameInv, Au!OneEnvironment,
         [Au!Next]_(Au!vars)
  PROVE  Au!OneEnvironment'
<1>1. ASSUME NEW m \in auLaunches, Au!Begin(m) PROVE Au!OneEnvironment'
  BY <1>1 DEF Au!Begin, Au!TypeOK, Au!AuthorityAssumption, Au!OneEnvironment, AuSameInv
<1>2. ASSUME NEW m \in auLaunches, Au!ReadRecord(m) PROVE Au!OneEnvironment'
  BY <1>2
     DEF Au!ReadRecord, Au!Live, Au!TypeOK, Au!AuthorityAssumption, Au!OneEnvironment, AuSameInv
<1>3. ASSUME NEW m \in auLaunches, Au!Register(m) PROVE Au!OneEnvironment'
  BY <1>3, AuAsking, AuAskedOf
     DEF Au!Register, Au!Live, Au!TypeOK, Au!AuthorityAssumption, Au!OneEnvironment, AuSameInv
<1>4. ASSUME NEW m \in auLaunches, Au!RegisterFails(m) PROVE Au!OneEnvironment'
  BY <1>4 DEF Au!RegisterFails, Au!TypeOK, Au!AuthorityAssumption, Au!OneEnvironment, AuSameInv
<1>5. ASSUME NEW m \in auLaunches, Au!Recheck(m) PROVE Au!OneEnvironment'
  BY <1>5 DEF Au!Recheck, Au!Live, Au!TypeOK, Au!AuthorityAssumption, Au!OneEnvironment, AuSameInv
<1>6. ASSUME NEW m \in auLaunches, Au!Commit(m) PROVE Au!OneEnvironment'
  BY <1>6, AuAsking, AuAskedOf
     DEF Au!Commit, Au!Stored, Au!TypeOK, Au!AuthorityAssumption, Au!OneEnvironment, AuSameInv
<1>7. ASSUME NEW m \in auLaunches, Au!CommitFails(m) PROVE Au!OneEnvironment'
  BY <1>7 DEF Au!CommitFails, Au!TypeOK, Au!AuthorityAssumption, Au!OneEnvironment, AuSameInv
<1>8. ASSUME NEW m \in auLaunches, Au!Return(m) PROVE Au!OneEnvironment'
  <2>1. CASE auReturned' = auReturned
    BY <2>1 DEF Au!OneEnvironment
  <2>2. CASE auReturned' # auReturned
    <3>1. /\ auReturned' = [auReturned EXCEPT ![m] = auFound[m]]
          /\ auActive /\ auLaunch[m] \in {"resuming", "committed"}
      BY <1>8, <2>2 DEF Au!Return, Au!Live
    <3>2. \A l \in auLaunches : auReturned'[l] # None => auReturned'[l] = auRecord
      BY <3>1 DEF AuSameInv, Au!TypeOK
    <3>. QED BY <3>2 DEF Au!OneEnvironment
  <2>. QED BY <2>1, <2>2
<1>9. ASSUME NEW m \in auLaunches, Au!CatchError(m) PROVE Au!OneEnvironment'
  BY <1>9, AuAsking, AuAskedOf
     DEF Au!CatchError, Au!Uncommitted, Au!TypeOK, Au!AuthorityAssumption, Au!OneEnvironment,
         AuSameInv
<1>10. ASSUME NEW m \in auLaunches, Au!Expire(m) PROVE Au!OneEnvironment'
  BY <1>10 DEF Au!Expire, Au!TypeOK, Au!AuthorityAssumption, Au!OneEnvironment, AuSameInv
<1>11. ASSUME NEW p \in auHosts, Au!End(p) PROVE Au!OneEnvironment'
  BY <1>11 DEF Au!End, Au!TypeOK, Au!AuthorityAssumption, Au!OneEnvironment, AuSameInv
<1>12. ASSUME NEW p \in auProcs, Au!RemoveRecord(p) PROVE Au!OneEnvironment'
  BY <1>12 DEF Au!RemoveRecord, Au!TypeOK, Au!AuthorityAssumption, Au!OneEnvironment, AuSameInv
<1>13. ASSUME NEW p \in auProcs, Au!ReleaseLeases(p) PROVE Au!OneEnvironment'
  BY <1>13, AuAsking, AuAskedOf
     DEF Au!ReleaseLeases, Au!TypeOK, Au!AuthorityAssumption, Au!OneEnvironment, AuSameInv
<1>14. ASSUME NEW p \in auProcs, Au!Gone(p) PROVE Au!OneEnvironment'
  BY <1>14 DEF Au!Gone, Au!Pending, Au!Running, Au!TypeOK, Au!AuthorityAssumption,
     Au!OneEnvironment, AuSameInv
<1>15. ASSUME NEW p \in auProcs, Au!Start(p) PROVE Au!OneEnvironment'
  BY <1>15, AuStarting DEF Au!OneEnvironment, AuSameInv
<1>16. ASSUME NEW p \in auProcs, Au!Stop(p) PROVE Au!OneEnvironment'
  BY <1>16 DEF Au!Stop, Au!TypeOK, Au!AuthorityAssumption, Au!OneEnvironment, AuSameInv
<1>17. ASSUME NEW p \in auProcs, NEW m \in auLaunches, Au!Fire(p, m) PROVE Au!OneEnvironment'
  BY <1>17 DEF Au!Fire, Au!TypeOK, Au!AuthorityAssumption, Au!OneEnvironment, AuSameInv
<1>18. ASSUME NEW p \in auProcs, NEW m \in auLaunches, Au!TakeLock(p, m) PROVE Au!OneEnvironment'
  BY <1>18, AuTaking DEF Au!OneEnvironment, AuSameInv
<1>19. ASSUME NEW p \in auProcs, NEW m \in auLaunches, Au!Revoked(p, m) PROVE Au!OneEnvironment'
  BY <1>19 DEF Au!Revoked, Au!TypeOK, Au!AuthorityAssumption, Au!OneEnvironment, AuSameInv
<1>20. ASSUME NEW p \in auProcs, NEW m \in auLaunches, Au!RevocationFails(p, m) PROVE Au!OneEnvironment'
  BY <1>20 DEF Au!RevocationFails, Au!Kept, Au!TypeOK, Au!AuthorityAssumption, Au!OneEnvironment,
     AuSameInv
<1>21. CASE UNCHANGED Au!vars
  BY <1>21 DEF Au!vars, Au!OneEnvironment, AuSameInv
<1>. QED
  BY <1>1, <1>2, <1>3, <1>4, <1>5, <1>6, <1>7, <1>8, <1>9, <1>10, <1>11, <1>12, <1>13, <1>14,
     <1>15, <1>16, <1>17, <1>18, <1>19, <1>20, <1>21
  DEF Au!Next, Au!Materialize, Au!Work, Au!Revoke, Au!Exit, Au!Crash

\* Every step keeps TokensAreLeased.
LEMMA AuLeasedStep ==
  ASSUME Au!AuthorityAssumption, Au!TypeOK, Au!TypeOK', AuNewInv, Au!TokensAreLeased,
         [Au!Next]_(Au!vars)
  PROVE  Au!TokensAreLeased'
<1>1. ASSUME NEW m \in auLaunches, Au!Begin(m) PROVE Au!TokensAreLeased'
  BY <1>1 DEF Au!Begin, Au!TypeOK, Au!AuthorityAssumption, Au!TokensAreLeased
<1>2. ASSUME NEW m \in auLaunches, Au!ReadRecord(m) PROVE Au!TokensAreLeased'
  BY <1>2 DEF Au!ReadRecord, Au!Live, Au!TypeOK, Au!AuthorityAssumption, Au!TokensAreLeased
<1>3. ASSUME NEW m \in auLaunches, Au!Register(m) PROVE Au!TokensAreLeased'
  BY <1>3, AuAsking, AuAskedOf
     DEF Au!Register, Au!Live, Au!TypeOK, Au!AuthorityAssumption, Au!TokensAreLeased
<1>4. ASSUME NEW m \in auLaunches, Au!RegisterFails(m) PROVE Au!TokensAreLeased'
  BY <1>4 DEF Au!RegisterFails, Au!TypeOK, Au!AuthorityAssumption, Au!TokensAreLeased
<1>5. ASSUME NEW m \in auLaunches, Au!Recheck(m) PROVE Au!TokensAreLeased'
  BY <1>5 DEF Au!Recheck, Au!Live, Au!TypeOK, Au!AuthorityAssumption, Au!TokensAreLeased
<1>6. ASSUME NEW m \in auLaunches, Au!Commit(m) PROVE Au!TokensAreLeased'
  BY <1>6, AuAsking, AuAskedOf
     DEF Au!Commit, Au!Stored, Au!TypeOK, Au!AuthorityAssumption, Au!TokensAreLeased
<1>7. ASSUME NEW m \in auLaunches, Au!CommitFails(m) PROVE Au!TokensAreLeased'
  BY <1>7 DEF Au!CommitFails, Au!TypeOK, Au!AuthorityAssumption, Au!TokensAreLeased
<1>8. ASSUME NEW m \in auLaunches, Au!Return(m) PROVE Au!TokensAreLeased'
  BY <1>8 DEF Au!Return, Au!Live, Au!TypeOK, Au!AuthorityAssumption, Au!TokensAreLeased
<1>9. ASSUME NEW m \in auLaunches, Au!CatchError(m) PROVE Au!TokensAreLeased'
  BY <1>9, AuAsking, AuAskedOf
     DEF Au!CatchError, Au!Uncommitted, Au!TypeOK, Au!AuthorityAssumption, Au!TokensAreLeased
<1>10. ASSUME NEW m \in auLaunches, Au!Expire(m) PROVE Au!TokensAreLeased'
  BY <1>10 DEF Au!Expire, Au!TypeOK, Au!AuthorityAssumption, Au!TokensAreLeased
<1>11. ASSUME NEW p \in auHosts, Au!End(p) PROVE Au!TokensAreLeased'
  BY <1>11 DEF Au!End, Au!TypeOK, Au!AuthorityAssumption, Au!TokensAreLeased
<1>12. ASSUME NEW p \in auProcs, Au!RemoveRecord(p) PROVE Au!TokensAreLeased'
  BY <1>12 DEF Au!RemoveRecord, Au!TypeOK, Au!AuthorityAssumption, Au!TokensAreLeased
<1>13. ASSUME NEW p \in auProcs, Au!ReleaseLeases(p) PROVE Au!TokensAreLeased'
  BY <1>13, AuAsking, AuAskedOf
     DEF Au!ReleaseLeases, Au!TypeOK, Au!AuthorityAssumption, Au!TokensAreLeased
<1>14. ASSUME NEW p \in auProcs, Au!Gone(p) PROVE Au!TokensAreLeased'
  BY <1>14
     DEF Au!Gone, Au!Pending, Au!Running, Au!TypeOK, Au!AuthorityAssumption, Au!TokensAreLeased
<1>15. ASSUME NEW p \in auProcs, Au!Start(p) PROVE Au!TokensAreLeased'
  BY <1>15, AuStarting DEF Au!TokensAreLeased
<1>16. ASSUME NEW p \in auProcs, Au!Stop(p) PROVE Au!TokensAreLeased'
  BY <1>16 DEF Au!Stop, Au!TypeOK, Au!AuthorityAssumption, Au!TokensAreLeased
<1>17. ASSUME NEW p \in auProcs, NEW m \in auLaunches, Au!Fire(p, m) PROVE Au!TokensAreLeased'
  BY <1>17 DEF Au!Fire, Au!TypeOK, Au!AuthorityAssumption, Au!TokensAreLeased
<1>18. ASSUME NEW p \in auProcs, NEW m \in auLaunches, Au!TakeLock(p, m) PROVE Au!TokensAreLeased'
  BY <1>18, AuTaking DEF Au!TokensAreLeased
<1>19. ASSUME NEW p \in auProcs, NEW m \in auLaunches, Au!Revoked(p, m) PROVE Au!TokensAreLeased'
  BY <1>19 DEF Au!Revoked, Au!TypeOK, Au!AuthorityAssumption, Au!TokensAreLeased
<1>20. ASSUME NEW p \in auProcs, NEW m \in auLaunches, Au!RevocationFails(p, m) PROVE Au!TokensAreLeased'
  BY <1>20 DEF Au!RevocationFails, Au!Kept, Au!TypeOK, Au!AuthorityAssumption, Au!TokensAreLeased
<1>21. CASE UNCHANGED Au!vars
  BY <1>21 DEF Au!vars, Au!TokensAreLeased
<1>. QED
  BY <1>1, <1>2, <1>3, <1>4, <1>5, <1>6, <1>7, <1>8, <1>9, <1>10, <1>11, <1>12, <1>13, <1>14,
     <1>15, <1>16, <1>17, <1>18, <1>19, <1>20, <1>21
  DEF Au!Next, Au!Materialize, Au!Work, Au!Revoke, Au!Exit, Au!Crash


\* Nothing has begun at the start.
LEMMA AuInitially ==
  ASSUME Au!AuthorityAssumption, Au!Init
  PROVE  AuIInv
<1>1. Au!TypeOK
  BY DEF Au!Init, Au!TypeOK, Au!Where, Au!AuthorityAssumption
<1>2. AuEndInv /\ AuNewInv /\ AuGoodInv /\ AuSameInv /\ Au!OneEnvironment /\ Au!TokensAreLeased
  BY DEF Au!Init, AuEndInv, AuNewInv, AuGoodInv, AuSameInv, Au!OneEnvironment,
     Au!TokensAreLeased, AuUnasked,
         Au!AuthorityAssumption
<1>. QED BY <1>1, <1>2 DEF AuIInv

\* Every step keeps the invariant.
LEMMA AuInductive ==
  ASSUME Au!AuthorityAssumption, AuIInv, [Au!Next]_(Au!vars)
  PROVE  AuIInv'
BY AuTypeStep, AuEndStep, AuNewStep, AuGoodStep, AuSameStep, AuOneStep, AuLeasedStep DEF AuIInv

\* The inductive invariant holds in every reachable state.
LEMMA AuInvariance ==
  ASSUME Au!AuthorityAssumption
  PROVE  Au!Spec => []AuIInv
<1>1. AuIInv /\ [Au!Next]_(Au!vars) => AuIInv'
  BY AuInductive
<1>. QED BY <1>1, AuInitially, PTL DEF Au!Spec

\* Every variable has its type (executionAuthorities and executionCredentialLeases,
\* src/src/db/schema.ts).
THEOREM AuTypeCorrect ==
  ASSUME Au!AuthorityAssumption
  PROVE  Au!Spec => []Au!TypeOK
<1>1. AuIInv => Au!TypeOK
  BY DEF AuIInv
<1>. QED BY <1>1, AuInvariance, PTL

\* The credentials that were committed stay good while the execution lives, until their
\* deadline, whatever becomes of other launches and processes (materialize and release,
\* src/src/execution-authority/index.ts).
THEOREM AuCommittedStaysGood ==
  ASSUME Au!AuthorityAssumption
  PROVE  Au!Spec => []Au!CommittedIsGood
<1>1. AuIInv => Au!CommittedIsGood
  BY DEF AuIInv, AuGoodInv, Au!CommittedIsGood
<1>. QED BY <1>1, AuInvariance, PTL

\* Launches that overlap are given the same environment, the one that was committed
\* (materialize, src/src/execution-authority/index.ts).
THEOREM AuAllAreGivenTheSame ==
  ASSUME Au!AuthorityAssumption
  PROVE  Au!Spec => []Au!OneEnvironment
<1>1. AuIInv => Au!OneEnvironment
  BY DEF AuIInv
<1>. QED BY <1>1, AuInvariance, PTL

\* No token is left without its lease, save where the provider's answer was lost with
\* the process (register and release, src/src/execution-authority/index.ts).
THEOREM AuNoTokenIsUnleased ==
  ASSUME Au!AuthorityAssumption
  PROVE  Au!Spec => []Au!TokensAreLeased
<1>1. AuIInv => Au!TokensAreLeased
  BY DEF AuIInv
<1>. QED BY <1>1, AuInvariance, PTL

-----------------------------------------------------------------------------
(* Sprites: the invariant *)

\* What a restart has found was inserted before.
SpFoundInv == \A m \in Sp!Machines : spJob[m] = "found" => spMachine[m] # "none"

\* One machine lives, but for those that were set alive again.
SpOneInv == \A m, k \in Sp!Live \ spRevived : m = k

SpIInv == Sp!TypeOK /\ SpFoundInv /\ SpOneInv

-----------------------------------------------------------------------------
(* Sprites: steps *)

\* Every step keeps the types.
LEMMA SpTypeStep ==
  ASSUME Sp!SpritesAssumption, Sp!TypeOK, [Sp!Next]_(Sp!vars)
  PROVE  Sp!TypeOK'
<1>. USE DEF Sp!SpritesAssumption, Sp!Jobs
<1>1. ASSUME NEW m \in Sp!Machines, Sp!Insert(m) PROVE Sp!TypeOK'
  BY <1>1 DEF Sp!Insert, Sp!To, Sp!Vacant, Sp!provider, Sp!memory, Sp!work, Sp!history, Sp!Live,
     Sp!TypeOK
<1>2. ASSUME NEW m \in Sp!Machines, Sp!DestroyLeftover(m) PROVE Sp!TypeOK'
  BY <1>2 DEF Sp!DestroyLeftover, Sp!To, Sp!Destroyed, Sp!rows, Sp!memory, Sp!work, Sp!history,
     Sp!TypeOK
<1>3. ASSUME NEW m \in Sp!Machines, Sp!Create(m) PROVE Sp!TypeOK'
  BY <1>3 DEF Sp!Create, Sp!To, Sp!rows, Sp!provider, Sp!memory, Sp!work, Sp!history, Sp!TypeOK
<1>4. ASSUME NEW m \in Sp!Machines, Sp!Connect(m) PROVE Sp!TypeOK'
  BY <1>4 DEF Sp!Connect, Sp!To, Sp!rows, Sp!memory, Sp!work, Sp!history, Sp!TypeOK
<1>5. ASSUME NEW m \in Sp!Machines, Sp!Enroll(m) PROVE Sp!TypeOK'
  BY <1>5 DEF Sp!Enroll, Sp!rows, Sp!memory, Sp!work, Sp!TypeOK
<1>6. ASSUME NEW m \in Sp!Machines, Sp!Connected(m) PROVE Sp!TypeOK'
  BY <1>6 DEF Sp!Connected, Sp!To, Sp!rows, Sp!provider, Sp!memory, Sp!work, Sp!history,
     Sp!TypeOK
<1>7. ASSUME NEW m \in Sp!Machines, Sp!Terminate(m) PROVE Sp!TypeOK'
  BY <1>7 DEF Sp!Terminate, Sp!To, Sp!Ends, Sp!provider, Sp!memory, Sp!work, Sp!history,
     Sp!TypeOK
<1>8. ASSUME NEW m \in Sp!Machines, Sp!RevokeKey(m) PROVE Sp!TypeOK'
  BY <1>8 DEF Sp!RevokeKey, Sp!To, Sp!KeyRevoked, Sp!provider, Sp!memory, Sp!work, Sp!history,
     Sp!TypeOK
<1>9. ASSUME NEW m \in Sp!Machines, Sp!DestroyFailed(m) PROVE Sp!TypeOK'
  BY <1>9 DEF Sp!DestroyFailed, Sp!To, Sp!Destroyed, Sp!rows, Sp!memory, Sp!work, Sp!history,
     Sp!TypeOK
<1>10. ASSUME NEW m \in Sp!Machines, Sp!Recover(m) PROVE Sp!TypeOK'
  BY <1>10 DEF Sp!Recover, Sp!To, Sp!Ends, Sp!provider, Sp!memory, Sp!work, Sp!TypeOK
<1>11. ASSUME NEW m \in Sp!Machines, Sp!InsertFails(m) PROVE Sp!TypeOK'
  BY <1>11 DEF Sp!InsertFails, Sp!To, Sp!Fault, Sp!provider, Sp!memory, Sp!work, Sp!TypeOK
<1>12. ASSUME NEW m \in Sp!Machines, Sp!CallFails(m) PROVE Sp!TypeOK'
  BY <1>12 DEF Sp!CallFails, Sp!To, Sp!Fault, Sp!rows, Sp!provider, Sp!memory, Sp!work,
     Sp!history, Sp!TypeOK
<1>13. ASSUME NEW m \in Sp!Machines, Sp!DestroyFails(m) PROVE Sp!TypeOK'
  BY <1>13 DEF Sp!DestroyFails, Sp!To, Sp!Fault, Sp!rows, Sp!provider, Sp!memory, Sp!work,
     Sp!TypeOK
<1>14. ASSUME NEW m \in Sp!Machines, Sp!Retire(m) PROVE Sp!TypeOK'
  BY <1>14 DEF Sp!Retire, Sp!Live, Sp!provider, Sp!memory, Sp!work, Sp!TypeOK
<1>15. ASSUME NEW m \in Sp!Machines, Sp!DestroyRetired(m) PROVE Sp!TypeOK'
  BY <1>15 DEF Sp!DestroyRetired, Sp!Destroyed, Sp!rows, Sp!memory, Sp!work, Sp!history,
     Sp!TypeOK
<1>16. ASSUME NEW m \in Sp!Machines, Sp!RevokeRetired(m) PROVE Sp!TypeOK'
  BY <1>16 DEF Sp!RevokeRetired, Sp!provider, Sp!memory, Sp!work, Sp!history, Sp!TypeOK
<1>17. ASSUME NEW m \in Sp!Machines, Sp!TerminateRetired(m) PROVE Sp!TypeOK'
  BY <1>17 DEF Sp!TerminateRetired, Sp!Ends, Sp!provider, Sp!memory, Sp!work, Sp!history,
     Sp!TypeOK
<1>18. ASSUME NEW m \in Sp!Machines, Sp!FailExecutions(m) PROVE Sp!TypeOK'
  BY <1>18 DEF Sp!FailExecutions, Sp!rows, Sp!provider, Sp!memory, Sp!history, Sp!TypeOK
<1>19. ASSUME NEW m \in Sp!Machines, Sp!EndDisconnected(m) PROVE Sp!TypeOK'
  BY <1>19 DEF Sp!EndDisconnected, Sp!Ends, Sp!provider, Sp!memory, Sp!work, Sp!history,
     Sp!TypeOK
<1>20. ASSUME NEW m \in Sp!Machines, Sp!RemoveDisconnected(m) PROVE Sp!TypeOK'
  BY <1>20 DEF Sp!RemoveDisconnected, Sp!Destroyed, Sp!rows, Sp!memory, Sp!work, Sp!history,
     Sp!TypeOK
<1>21. ASSUME NEW x \in spExecutions, Sp!Recreate(x) PROVE Sp!TypeOK'
  BY <1>21 DEF Sp!Recreate, Sp!To, Sp!Live, Sp!NextRow, Sp!rows, Sp!provider, Sp!work,
     Sp!history, Sp!TypeOK
<1>22. ASSUME NEW x \in spExecutions, Sp!Unavailable(x) PROVE Sp!TypeOK'
  BY <1>22 DEF Sp!Unavailable, Sp!Forgotten, Sp!Live, Sp!rows, Sp!provider, Sp!history,
     Sp!TypeOK
<1>23. ASSUME NEW x \in spExecutions, Sp!Prepare(x) PROVE Sp!TypeOK'
  <2>1. /\ spReady' \in [spExecutions -> Sp!Machines \cup {None}]
        /\ spHold' \in [spExecutions -> [m : Sp!Machines, answered : BOOLEAN] \cup {None}]
    <3>1. PICK m \in Sp!Machines :
            \/ spReady' = [spReady EXCEPT ![x] = m] /\ UNCHANGED spHold
            \/ UNCHANGED spReady /\ spHold' = [spHold EXCEPT ![x] = [m |-> m, answered |-> FALSE]]
      BY <1>23 DEF Sp!Prepare, Sp!Live
    <3>2. [m |-> m, answered |-> FALSE] \in [m : Sp!Machines, answered : BOOLEAN]
      OBVIOUS
    <3>3. CASE spReady' = [spReady EXCEPT ![x] = m] /\ UNCHANGED spHold
      BY <3>3 DEF Sp!TypeOK
    <3>4. CASE /\ UNCHANGED spReady
               /\ spHold' = [spHold EXCEPT ![x] = [m |-> m, answered |-> FALSE]]
      <4>1. spHold' \in [spExecutions -> [m : Sp!Machines, answered : BOOLEAN] \cup {None}]
        BY <3>2, <3>4 DEF Sp!TypeOK
      <4>. QED BY <3>4, <4>1 DEF Sp!TypeOK
    <3>. QED BY <3>1, <3>3, <3>4
  <2>. QED BY <1>23, <2>1 DEF Sp!Prepare, Sp!rows, Sp!provider, Sp!work, Sp!history, Sp!TypeOK
<1>24. ASSUME NEW x \in spExecutions, Sp!Launch(x) PROVE Sp!TypeOK'
  BY <1>24 DEF Sp!Launch, Sp!rows, Sp!provider, Sp!history, Sp!TypeOK
<1>25. ASSUME NEW x \in spExecutions, Sp!HoldLands(x) PROVE Sp!TypeOK'
  <2>1. spHold[x] \in [m : Sp!Machines, answered : BOOLEAN]
    BY <1>25 DEF Sp!HoldLands, Sp!TypeOK
  <2>2. /\ spHold[x].m \in Sp!Machines
        /\ [spHold[x] EXCEPT !.answered = TRUE] \in [m : Sp!Machines, answered : BOOLEAN]
    BY <2>1
  <2>3. spHold' = [spHold EXCEPT ![x] = [spHold[x] EXCEPT !.answered = TRUE]]
    BY <1>25 DEF Sp!HoldLands
  <2>4. spHold' \in [spExecutions -> [m : Sp!Machines, answered : BOOLEAN] \cup {None}]
    BY <2>2, <2>3 DEF Sp!TypeOK
  <2>5. /\ spMachine' \in [Sp!Machines -> {"none", "spawning", "alive", "terminated"}]
        /\ spHeld' \in [spExecutions -> Sp!Machines \cup {None}] /\ spTasks' \subseteq spExecutions
    BY <1>25, <2>2 DEF Sp!HoldLands, Sp!Ends, Sp!TypeOK
  <2>. QED BY <1>25, <2>4, <2>5 DEF Sp!HoldLands, Sp!work, Sp!history, Sp!TypeOK
<1>26. ASSUME NEW x \in spExecutions, Sp!HoldChecked(x) PROVE Sp!TypeOK'
  <2>1. /\ spHold' \in [spExecutions -> [m : Sp!Machines, answered : BOOLEAN] \cup {None}]
        /\ spHeld' \in [spExecutions -> Sp!Machines \cup {None}] /\ spTasks' \subseteq spExecutions
        /\ spRecreated' \in [spExecutions -> Sp!Machines \cup {None}]
    BY <1>26 DEF Sp!HoldChecked, Sp!Released, Sp!Forgotten, Sp!TypeOK
  <2>. QED BY <1>26, <2>1 DEF Sp!HoldChecked, Sp!rows, Sp!work, Sp!history, Sp!TypeOK
<1>27. ASSUME NEW x \in spExecutions, Sp!HoldTimesOut(x) PROVE Sp!TypeOK'
  BY <1>27 DEF Sp!HoldTimesOut, Sp!Fault, Sp!rows, Sp!work, Sp!TypeOK
<1>28. ASSUME NEW x \in spExecutions, Sp!End(x) PROVE Sp!TypeOK'
  BY <1>28 DEF Sp!End, Sp!Fault, Sp!rows, Sp!provider, Sp!memory, Sp!history, Sp!TypeOK
<1>29. ASSUME NEW x \in spExecutions, Sp!FollowRun(x) PROVE Sp!TypeOK'
  BY <1>29 DEF Sp!FollowRun, Sp!Released, Sp!rows, Sp!history, Sp!Forgotten, Sp!TypeOK
<1>30. ASSUME NEW x \in spExecutions, Sp!FollowExecution(x) PROVE Sp!TypeOK'
  BY <1>30 DEF Sp!FollowExecution, Sp!Forgotten, Sp!rows, Sp!history, Sp!TypeOK
<1>31. ASSUME NEW x \in spExecutions, Sp!ReleaseFails(x) PROVE Sp!TypeOK'
  BY <1>31 DEF Sp!ReleaseFails, Sp!Fault, Sp!Forgotten, Sp!rows, Sp!provider, Sp!TypeOK
<1>32. ASSUME NEW x \in spExecutions, Sp!Refresh(x) PROVE Sp!TypeOK'
  BY <1>32 DEF Sp!Refresh, Sp!rows, Sp!provider, Sp!work, Sp!history, Sp!TypeOK
<1>33. ASSUME NEW x \in spExecutions, Sp!RefreshLands(x) PROVE Sp!TypeOK'
  BY <1>33 DEF Sp!RefreshLands, Sp!rows, Sp!work, Sp!history, Sp!TypeOK
<1>34. ASSUME NEW x \in spExecutions, Sp!RefreshChecked(x) PROVE Sp!TypeOK'
  BY <1>34 DEF Sp!RefreshChecked, Sp!Forgotten, Sp!rows, Sp!work, Sp!history, Sp!TypeOK
<1>35. ASSUME Sp!Save PROVE Sp!TypeOK'
  BY <1>35 DEF Sp!Save, Sp!To, Sp!Live, Sp!NextRow, Sp!rows, Sp!provider, Sp!memory, Sp!work,
     Sp!history, Sp!TypeOK
<1>36. ASSUME Sp!Crash PROVE Sp!TypeOK'
  <2>1. /\ spUp' = FALSE /\ spFaults' \in 0 .. spMaxFaults
        /\ spJob' \in [Sp!Machines -> Sp!Jobs] /\ spOwed' \subseteq spExecutions
        /\ spCut' \subseteq Sp!Machines /\ spLost' \subseteq spExecutions
    BY <1>36 DEF Sp!Crash, Sp!Fault, Sp!TypeOK
  <2>2. /\ spReady' \in [spExecutions -> {None}] /\ spHeld' \in [spExecutions -> {None}]
        /\ spHold' \in [spExecutions -> {None}] /\ spRecreated' \in [spExecutions -> {None}]
        /\ spRefresh' \in [spExecutions -> {"none"}]
        /\ spRetiring' \in [Sp!Machines -> {"none"}]
    BY <1>36 DEF Sp!Crash
  <2>3. UNCHANGED <<spMachine, spKey, spDaemon, spThere, spScript, spTasks, spExec, spOn,
                    spAction, spSaves, spRevived, spStray, spEarly>>
    BY <1>36 DEF Sp!Crash, Sp!rows, Sp!provider
  <2>4. /\ spReady' \in [spExecutions -> Sp!Machines \cup {None}]
        /\ spHeld' \in [spExecutions -> Sp!Machines \cup {None}]
        /\ spHold' \in [spExecutions -> [m : Sp!Machines, answered : BOOLEAN] \cup {None}]
        /\ spRecreated' \in [spExecutions -> Sp!Machines \cup {None}]
    BY <2>2
  <2>5. /\ spRetiring' \in [Sp!Machines -> {"none", "destroy", "revoke", "terminate", "fail",
                                            "ending", "remove"}]
        /\ spRefresh' \in [spExecutions -> {"none", "asked", "held"}] /\ spUp' \in BOOLEAN
    BY <2>1, <2>2
  <2>. QED BY <2>1, <2>3, <2>4, <2>5 DEF Sp!TypeOK
<1>37. ASSUME Sp!Start PROVE Sp!TypeOK'
  BY <1>37 DEF Sp!Start, Sp!Interrupted, Sp!rows, Sp!provider, Sp!memory, Sp!history, Sp!TypeOK
<1>38. CASE UNCHANGED Sp!vars
  BY <1>38 DEF Sp!vars, Sp!TypeOK, Sp!rows, Sp!provider, Sp!memory, Sp!work, Sp!history, Sp!Live
<1>. QED
  BY <1>1, <1>2, <1>3, <1>4, <1>5, <1>6, <1>7, <1>8, <1>9, <1>10, <1>11, <1>12, <1>13, <1>14,
     <1>15, <1>16, <1>17, <1>18, <1>19, <1>20, <1>21, <1>22, <1>23, <1>24, <1>25, <1>26, <1>27,
     <1>28, <1>29, <1>30, <1>31, <1>32, <1>33, <1>34, <1>35, <1>36, <1>37, <1>38 DEF Sp!Next,
     Sp!JobStep, Sp!RetireStep, Sp!DispatchStep, Sp!EndStep, Sp!RefreshStep

\* Where a machine comes to life, none lives, or it is set alive again; a row stays.
SpMoved ==
  /\ spRevived \subseteq spRevived'
  /\ \A m \in Sp!Machines : spMachine[m] # "none" => spMachine'[m] # "none"
  /\ \A m \in Sp!Machines : spJob'[m] = "found" => spJob[m] = "found" \/ spMachine[m] # "none"
  /\ \/ Sp!Live' \ spRevived' \subseteq Sp!Live \ spRevived
     \/ Sp!Live = {} /\ \E m : Sp!Live' \subseteq {m}

\* Every step is such a move.
LEMMA SpMoves ==
  ASSUME Sp!SpritesAssumption, Sp!TypeOK, SpFoundInv, [Sp!Next]_(Sp!vars)
  PROVE  SpMoved
<1>. USE DEF Sp!TypeOK, Sp!Live
<1>1. ASSUME NEW m \in Sp!Machines, Sp!Insert(m) PROVE SpMoved
  <2>1. CASE Sp!Vacant
    <3>1. spMachine' = [spMachine EXCEPT ![m] = "spawning"] /\ Sp!Live = {}
      BY <1>1, <2>1 DEF Sp!Insert, Sp!Vacant
    <3>2. Sp!Live' \subseteq {m}
      BY <3>1
    <3>3. /\ spRevived \subseteq spRevived'
          /\ \A k \in Sp!Machines : spMachine[k] # "none" => spMachine'[k] # "none"
      BY <1>1, <3>1 DEF Sp!Insert, Sp!history
    <3>4. \A k \in Sp!Machines : spJob'[k] = "found" => spJob[k] = "found"
      BY <1>1, <2>1 DEF Sp!Insert, Sp!To
    <3>5. \E k : Sp!Live' \subseteq {k}
      BY <3>2
    <3>. QED BY <3>1, <3>3, <3>4, <3>5 DEF SpMoved
  <2>2. CASE ~Sp!Vacant
    BY <1>1, <2>2 DEF Sp!Insert, Sp!To, Sp!history, SpMoved
  <2>. QED BY <2>1, <2>2
<1>2. ASSUME NEW m \in Sp!Machines, Sp!DestroyLeftover(m) PROVE SpMoved
  BY <1>2 DEF Sp!DestroyLeftover, Sp!To, Sp!Destroyed, Sp!rows, Sp!memory, Sp!work, Sp!history,
     SpMoved
<1>3. ASSUME NEW m \in Sp!Machines, Sp!Create(m) PROVE SpMoved
  BY <1>3 DEF Sp!Create, Sp!To, Sp!rows, Sp!provider, Sp!memory, Sp!work, Sp!history, SpMoved
<1>4. ASSUME NEW m \in Sp!Machines, Sp!Connect(m) PROVE SpMoved
  BY <1>4 DEF Sp!Connect, Sp!To, Sp!rows, Sp!memory, Sp!work, Sp!history, SpMoved
<1>5. ASSUME NEW m \in Sp!Machines, Sp!Enroll(m) PROVE SpMoved
  BY <1>5 DEF Sp!Enroll, Sp!rows, Sp!memory, Sp!work, SpMoved
<1>6. ASSUME NEW m \in Sp!Machines, Sp!Connected(m) PROVE SpMoved
  BY <1>6 DEF Sp!Connected, Sp!To, Sp!rows, Sp!provider, Sp!memory, Sp!work, Sp!history, SpMoved
<1>7. ASSUME NEW m \in Sp!Machines, Sp!Terminate(m) PROVE SpMoved
  BY <1>7 DEF Sp!Terminate, Sp!To, Sp!Ends, Sp!provider, Sp!memory, Sp!work, Sp!history, SpMoved
<1>8. ASSUME NEW m \in Sp!Machines, Sp!RevokeKey(m) PROVE SpMoved
  BY <1>8 DEF Sp!RevokeKey, Sp!To, Sp!KeyRevoked, Sp!provider, Sp!memory, Sp!work, Sp!history,
     SpMoved
<1>9. ASSUME NEW m \in Sp!Machines, Sp!DestroyFailed(m) PROVE SpMoved
  BY <1>9 DEF Sp!DestroyFailed, Sp!To, Sp!Destroyed, Sp!rows, Sp!memory, Sp!work, Sp!history,
     SpMoved
<1>10. ASSUME NEW m \in Sp!Machines, Sp!Recover(m) PROVE SpMoved
  <2>1. spMachine[m] # "none"
    BY <1>10 DEF Sp!Recover, SpFoundInv
  <2>2. CASE spDaemon[m] # "none"
    BY <1>10, <2>1, <2>2 DEF Sp!Recover, Sp!To, SpMoved
  <2>3. CASE spDaemon[m] = "none"
    BY <1>10, <2>1, <2>3 DEF Sp!Recover, Sp!To, Sp!Ends, SpMoved
  <2>. QED BY <2>2, <2>3
<1>11. ASSUME NEW m \in Sp!Machines, Sp!InsertFails(m) PROVE SpMoved
  BY <1>11 DEF Sp!InsertFails, Sp!To, Sp!Fault, Sp!provider, Sp!memory, Sp!work, SpMoved
<1>12. ASSUME NEW m \in Sp!Machines, Sp!CallFails(m) PROVE SpMoved
  BY <1>12 DEF Sp!CallFails, Sp!To, Sp!Fault, Sp!rows, Sp!provider, Sp!memory, Sp!work,
     Sp!history, SpMoved
<1>13. ASSUME NEW m \in Sp!Machines, Sp!DestroyFails(m) PROVE SpMoved
  BY <1>13 DEF Sp!DestroyFails, Sp!To, Sp!Fault, Sp!rows, Sp!provider, Sp!memory, Sp!work,
     SpMoved
<1>14. ASSUME NEW m \in Sp!Machines, Sp!Retire(m) PROVE SpMoved
  BY <1>14 DEF Sp!Retire, Sp!Live, Sp!provider, Sp!memory, Sp!work, SpMoved
<1>15. ASSUME NEW m \in Sp!Machines, Sp!DestroyRetired(m) PROVE SpMoved
  BY <1>15 DEF Sp!DestroyRetired, Sp!Destroyed, Sp!rows, Sp!memory, Sp!work, Sp!history, SpMoved
<1>16. ASSUME NEW m \in Sp!Machines, Sp!RevokeRetired(m) PROVE SpMoved
  BY <1>16 DEF Sp!RevokeRetired, Sp!provider, Sp!memory, Sp!work, Sp!history, SpMoved
<1>17. ASSUME NEW m \in Sp!Machines, Sp!TerminateRetired(m) PROVE SpMoved
  BY <1>17 DEF Sp!TerminateRetired, Sp!Ends, Sp!provider, Sp!memory, Sp!work, Sp!history,
     SpMoved
<1>18. ASSUME NEW m \in Sp!Machines, Sp!FailExecutions(m) PROVE SpMoved
  BY <1>18 DEF Sp!FailExecutions, Sp!rows, Sp!provider, Sp!memory, Sp!history, SpMoved
<1>19. ASSUME NEW m \in Sp!Machines, Sp!EndDisconnected(m) PROVE SpMoved
  BY <1>19 DEF Sp!EndDisconnected, Sp!Ends, Sp!provider, Sp!memory, Sp!work, Sp!history, SpMoved
<1>20. ASSUME NEW m \in Sp!Machines, Sp!RemoveDisconnected(m) PROVE SpMoved
  BY <1>20 DEF Sp!RemoveDisconnected, Sp!Destroyed, Sp!rows, Sp!memory, Sp!work, Sp!history,
     SpMoved
<1>21. ASSUME NEW x \in spExecutions, Sp!Recreate(x) PROVE SpMoved
  BY <1>21 DEF Sp!Recreate, Sp!To, Sp!Live, Sp!NextRow, Sp!rows, Sp!provider, Sp!work,
     Sp!history, SpMoved
<1>22. ASSUME NEW x \in spExecutions, Sp!Unavailable(x) PROVE SpMoved
  BY <1>22 DEF Sp!Unavailable, Sp!Forgotten, Sp!Live, Sp!rows, Sp!provider, Sp!history, SpMoved
<1>23. ASSUME NEW x \in spExecutions, Sp!Prepare(x) PROVE SpMoved
  BY <1>23 DEF Sp!Prepare, Sp!Live, Sp!rows, Sp!provider, Sp!work, Sp!history, SpMoved
<1>24. ASSUME NEW x \in spExecutions, Sp!Launch(x) PROVE SpMoved
  BY <1>24 DEF Sp!Launch, Sp!rows, Sp!provider, Sp!history, SpMoved
<1>25. ASSUME NEW x \in spExecutions, Sp!HoldLands(x) PROVE SpMoved
  BY <1>25 DEF Sp!HoldLands, Sp!Ends, Sp!work, Sp!history, SpMoved
<1>26. ASSUME NEW x \in spExecutions, Sp!HoldChecked(x) PROVE SpMoved
  BY <1>26 DEF Sp!HoldChecked, Sp!Released, Sp!RunOver, Sp!rows, Sp!work, Sp!history,
     Sp!Forgotten, SpMoved
<1>27. ASSUME NEW x \in spExecutions, Sp!HoldTimesOut(x) PROVE SpMoved
  BY <1>27 DEF Sp!HoldTimesOut, Sp!Fault, Sp!rows, Sp!work, SpMoved
<1>28. ASSUME NEW x \in spExecutions, Sp!End(x) PROVE SpMoved
  BY <1>28 DEF Sp!End, Sp!Fault, Sp!rows, Sp!provider, Sp!memory, Sp!history, SpMoved
<1>29. ASSUME NEW x \in spExecutions, Sp!FollowRun(x) PROVE SpMoved
  BY <1>29 DEF Sp!FollowRun, Sp!Released, Sp!rows, Sp!history, Sp!Forgotten, SpMoved
<1>30. ASSUME NEW x \in spExecutions, Sp!FollowExecution(x) PROVE SpMoved
  BY <1>30 DEF Sp!FollowExecution, Sp!Forgotten, Sp!rows, Sp!history, SpMoved
<1>31. ASSUME NEW x \in spExecutions, Sp!ReleaseFails(x) PROVE SpMoved
  BY <1>31 DEF Sp!ReleaseFails, Sp!Fault, Sp!Forgotten, Sp!rows, Sp!provider, SpMoved
<1>32. ASSUME NEW x \in spExecutions, Sp!Refresh(x) PROVE SpMoved
  BY <1>32 DEF Sp!Refresh, Sp!rows, Sp!provider, Sp!work, Sp!history, SpMoved
<1>33. ASSUME NEW x \in spExecutions, Sp!RefreshLands(x) PROVE SpMoved
  BY <1>33 DEF Sp!RefreshLands, Sp!rows, Sp!work, Sp!history, SpMoved
<1>34. ASSUME NEW x \in spExecutions, Sp!RefreshChecked(x) PROVE SpMoved
  BY <1>34 DEF Sp!RefreshChecked, Sp!Forgotten, Sp!rows, Sp!work, Sp!history, SpMoved
<1>35. ASSUME Sp!Save PROVE SpMoved
  BY <1>35 DEF Sp!Save, Sp!To, Sp!Live, Sp!NextRow, Sp!rows, Sp!provider, Sp!memory, Sp!work,
     Sp!history, SpMoved
<1>36. ASSUME Sp!Crash PROVE SpMoved
  BY <1>36 DEF Sp!Crash, Sp!Fault, Sp!rows, Sp!provider, SpMoved
<1>37. ASSUME Sp!Start PROVE SpMoved
  BY <1>37 DEF Sp!Start, Sp!Interrupted, Sp!rows, Sp!provider, Sp!memory, Sp!history, SpMoved
<1>38. CASE UNCHANGED Sp!vars
  BY <1>38 DEF Sp!vars, SpMoved, Sp!rows, Sp!provider, Sp!memory, Sp!work, Sp!history, Sp!Live
<1>. QED
  BY <1>1, <1>2, <1>3, <1>4, <1>5, <1>6, <1>7, <1>8, <1>9, <1>10, <1>11, <1>12, <1>13, <1>14,
     <1>15, <1>16, <1>17, <1>18, <1>19, <1>20, <1>21, <1>22, <1>23, <1>24, <1>25, <1>26, <1>27,
     <1>28, <1>29, <1>30, <1>31, <1>32, <1>33, <1>34, <1>35, <1>36, <1>37, <1>38 DEF Sp!Next,
     Sp!JobStep, Sp!RetireStep, Sp!DispatchStep, Sp!EndStep, Sp!RefreshStep

\* The invariant holds at the start ...
LEMMA SpInitially ==
  ASSUME Sp!SpritesAssumption, Sp!Init
  PROVE  SpIInv
<1>1. Sp!TypeOK
  BY DEF Sp!SpritesAssumption, Sp!Init, Sp!TypeOK, Sp!Jobs
<1>2. SpFoundInv /\ SpOneInv
  BY DEF Sp!Init, SpFoundInv, SpOneInv, Sp!Live
<1>. QED BY <1>1, <1>2 DEF SpIInv

\* ... and every step keeps it.
LEMMA SpInductive ==
  ASSUME Sp!SpritesAssumption, SpIInv, [Sp!Next]_(Sp!vars)
  PROVE  SpIInv'
<1>1. Sp!TypeOK' /\ SpMoved
  BY SpTypeStep, SpMoves DEF SpIInv
<1>2. SpFoundInv'
  BY <1>1 DEF SpIInv, SpFoundInv, SpMoved, Sp!Machines
<1>3. SpOneInv'
  BY <1>1 DEF SpIInv, SpOneInv, SpMoved
<1>. QED BY <1>1, <1>2, <1>3 DEF SpIInv

\* Of a set whose elements are all the same, Sprites counts one at most.
LEMMA SpCounts ==
  ASSUME SpIInv
  PROVE  Sp!OneMachine
<1>. DEFINE S == Sp!Live \ spRevived
<1>1. \A T : Sp!Cardinality(T) = Cardinality(T)
  BY DEF Sp!Cardinality, Cardinality, Sp!IsFiniteSet, IsFiniteSet
<1>2. S = {} \/ \E m : S = {m}
  BY DEF SpIInv, SpOneInv
<1>3. Cardinality(S) <= 1
  <2>1. CASE S = {}
    BY <2>1, FS_EmptySet
  <2>2. ASSUME NEW m, S = {m} PROVE Cardinality(S) <= 1
    <3>1. Cardinality({m}) = 1
      BY FS_Singleton
    <3>. QED BY <2>2, <3>1
  <2>. QED BY <1>2, <2>1, <2>2
<1>. QED BY <1>1, <1>3 DEF Sp!OneMachine

-----------------------------------------------------------------------------
(* The parts side by side *)

\* Neither part disturbs the other: each keeps its invariant, whether it runs or not.
IInv == AuIInv /\ SpIInv

\* A step is one of the chosen part, and none of the other.
LEMMA PartSteps ==
  ASSUME [Next]_vars
  PROVE  [Au!Next]_(Au!vars) /\ [Sp!Next]_(Sp!vars)
<1>1. [Au!Next]_(Au!vars)
  BY DEF Next, vars, OthersSp, Au!vars
<1>2. [Sp!Next]_(Sp!vars)
  BY DEF Next, vars, OthersAu, Sp!vars, Sp!rows, Sp!provider, Sp!memory, Sp!work, Sp!history
<1>. QED BY <1>1, <1>2

\* The invariant holds of every behaviour.
LEMMA Invariance == Spec => []IInv
<1>1. Init => IInv
  BY ExecutionsAssumption, AuInitially, SpInitially DEF Init, IInv
<1>2. IInv /\ [Next]_vars => IInv'
  BY ExecutionsAssumption, PartSteps, AuInductive, SpInductive DEF IInv
<1>. QED BY <1>1, <1>2, PTL DEF Spec

\* Whatever fails between a launch, its execution's end and its process's, the credentials
\* of a live execution stay good, are the same for every launch of it and have a lease; and
\* a trigger has one machine alive, but for one that a restart set alive again
\* (execution-authority/index.ts, daemons/sprites/activation.ts).
THEOREM WorkStaysEquipped == Spec => []WorkIsEquipped
<1>1. IInv => WorkIsEquipped
  BY SpCounts DEF IInv, AuIInv, AuGoodInv, Au!CommittedIsGood, SpIInv, TypeOK, WorkIsEquipped
<1>. QED BY <1>1, Invariance, PTL

=============================================================================
