-------------------------- MODULE OperationsProofs --------------------------
(***************************************************************************)
(* Proofs about Operations for any set of operations and any number of     *)
(* configuration changes, whether or not the cloud goes back to earlier    *)
(* configurations.                                                         *)
(***************************************************************************)
EXTENDS Operations, TLAPS

LEMMA NoneType == None \in Configs
BY DEF None, Configs

\* Forgetting operations keeps a map of configurations one.
LEMMA WithoutType ==
  ASSUME NEW f \in Configs, NEW S
  PROVE  /\ Without(f, S) \in Configs
         /\ \A n \in Names : Without(f, S)[n] = IF n \in S THEN 0 ELSE f[n]
BY DEF Without, Configs

LEMMA SetType ==
  ASSUME NEW f \in Configs, NEW k \in Names, NEW v \in Version \cup {0}
  PROVE  /\ [f EXCEPT ![k] = v] \in Configs
         /\ \A n \in Names : [f EXCEPT ![k] = v][n] = IF n = k THEN v ELSE f[n]
BY DEF Configs

\* An operation that lives is a pair, and is what its name runs.
LEMMA AliveOps ==
  ASSUME TypeOK, Tracked, NEW op \in alive
  PROVE  /\ op[1] \in Names /\ op[2] \in Version
         /\ op = <<op[1], op[2]>>
         /\ op \in Op(op[1])
<1>1. op \in Names \X Version
  BY DEF TypeOK
<1>2. op[1] \in Names /\ op[2] \in Version /\ op = <<op[1], op[2]>>
  BY <1>1
<1>3. running[op[1]] = op[2]
  BY DEF Tracked
<1> QED
  BY <1>2, <1>3 DEF Op

LEMMA InitInv == Init => OpInv
<1> SUFFICES ASSUME Init PROVE OpInv
  OBVIOUS
<1>1. TypeOK
  <2>1. changes \in 0 .. MaxChanges
    BY OperationsAssumption DEF Init
  <2> QED
    BY Zenon, NoneType, <2>1 DEF Init, TypeOK
<1>2. Tracked /\ Applying
  BY DEF Init, Tracked, Applying, None
<1> QED
  BY <1>1, <1>2 DEF OpInv

\* The steps that leave the maps of operations alone.
LEMMA QuietStep ==
  ASSUME OpInv, TypeOK',
         UNCHANGED <<running, operationConfigs, reply, changedConfigs>>,
         alive' \subseteq alive,
         pc' = "start" => pc = "start"
  PROVE  OpInv'
BY DEF OpInv, Tracked, Applying

LEMMA NextInv == OpInv /\ [Next]_vars => OpInv'
<1> SUFFICES ASSUME OpInv, [Next]_vars PROVE OpInv'
  OBVIOUS
<1> USE DEF cloudVars, sessionVars, opVars
<1>0. TypeOK /\ Tracked /\ Applying
  BY DEF OpInv
<1>1. ASSUME NEW n \in Names, NEW v \in Version \cup {0}, Configure(n, v)
      PROVE  OpInv'
  <2>1. cloud' \in Configs
    BY <1>0, <1>1, SetType DEF Configure, TypeOK
  <2>2. changes' \in 0 .. MaxChanges
    BY <1>0, <1>1, OperationsAssumption DEF Configure, TypeOK
  <2>3. TypeOK'
    BY <1>0, <1>1, <2>1, <2>2 DEF Configure, TypeOK
  <2> QED
    BY <1>1, <2>3, QuietStep DEF Configure
<1>2. CASE Claim
  BY <1>0, <1>2, QuietStep DEF Claim, TypeOK
<1>3. ASSUME NEW op \in alive, Die(op) PROVE OpInv'
  BY <1>0, <1>3, QuietStep DEF Die, TypeOK
<1>4. CASE Disconnect
  BY <1>0, <1>4, QuietStep DEF Disconnect, TypeOK
<1>5. CASE NewSession
  <2>1. TypeOK'
    BY <1>0, <1>5, NoneType DEF NewSession, TypeOK
  <2>2. Tracked' /\ Applying'
    BY <1>5 DEF NewSession, Tracked, Applying, None
  <2> QED
    BY <2>1, <2>2 DEF OpInv
<1>6. CASE Delay \/ DeviceOk \/ DeviceFail \/ PauseOver
  BY <1>0, <1>6, QuietStep DEF Delay, DeviceOk, DeviceFail, PauseOver, TypeOK
<1>7. CASE RunnerLeaves \/ Timer \/ Restart
  BY <1>0, <1>7, QuietStep DEF RunnerLeaves, Timer, Restart, TypeOK
<1>8. CASE Purge
  <2>1. TypeOK'
    BY <1>0, <1>8, WithoutType DEF Purge, TypeOK
  <2>2. \A n \in Names : /\ running'[n] = IF n \in Inactive THEN 0 ELSE running[n]
                         /\ operationConfigs'[n] =
                              IF n \in Inactive THEN 0 ELSE operationConfigs[n]
    BY <1>0, <1>8, WithoutType DEF Purge, TypeOK
  <2>3. ASSUME NEW op \in alive PROVE op[1] \in Names /\ op[1] \notin Inactive
    BY <1>0, <2>3, AliveOps DEF Inactive, Tracked
  <2>4. Tracked'
    BY <1>0, <1>8, <2>2, <2>3 DEF Purge, Tracked
  <2>5. Applying'
    BY <1>8 DEF Purge, Applying
  <2> QED
    BY <2>1, <2>4, <2>5 DEF OpInv
<1>9. CASE NoChange \/ FetchFail
  BY <1>0, <1>9, QuietStep DEF NoChange, FetchFail, TypeOK
<1>10. CASE Changed
  BY <1>0, <1>10 DEF Changed, OpInv, TypeOK, Tracked, Applying
<1>11. CASE Remove
  <2>1. TypeOK'
    <3>1. changedConfigs' \subseteq Names /\ alive' \subseteq alive
      BY <1>11 DEF Remove, New
    <3> QED
      BY <1>0, <1>11, <3>1, WithoutType DEF Remove, TypeOK
  <2>2. \A n \in Names : /\ running'[n] = IF n \in Removed THEN 0 ELSE running[n]
                         /\ operationConfigs'[n] =
                              IF n \in Removed THEN 0 ELSE operationConfigs[n]
    BY <1>0, <1>11, WithoutType DEF Remove, TypeOK
  <2>3. ASSUME NEW op \in alive'
        PROVE  op \in alive /\ op[1] \in Names /\ op[1] \notin Removed
    <3>1. op \in alive /\ op \notin UNION {Op(n) : n \in Removed}
      BY <1>11, <2>3 DEF Remove
    <3>2. op[1] \in Names /\ op \in Op(op[1])
      BY <1>0, <3>1, AliveOps
    <3> QED
      BY <3>1, <3>2
  <2>4. Tracked'
    BY <1>0, <1>11, <2>2, <2>3 DEF Tracked
  <2>5. Applying'
    <3>1. \A n \in changedConfigs' : reply'[n] # 0
      BY <1>11 DEF Remove, New
    <3>2. ASSUME NEW n \in Names, n \notin changedConfigs'
          PROVE  running'[n] \in {0, reply'[n]} \/ reply'[n] \in Unreadable
      <4>1. reply[n] \in {0, operationConfigs[n]} \cup Unreadable
        BY <1>11, <3>2 DEF Remove, New
      <4>2. running[n] \in {0, operationConfigs[n]}
        BY <1>0 DEF Tracked
      <4>3. n \notin Removed => reply[n] # 0 \/ running[n] = 0
        BY <4>2 DEF Removed
      <4> QED
        BY <1>11, <2>2, <4>1, <4>2, <4>3 DEF Remove
    <3> QED
      BY <3>1, <3>2 DEF Applying
  <2> QED
    BY <2>1, <2>4, <2>5 DEF OpInv
<1>12. ASSUME NEW k \in Names, StartOk(k) PROVE OpInv'
  <2>1. reply[k] \in Version
    BY <1>0, <1>12 DEF StartOk, Applying, TypeOK, Configs
  <2>2. TypeOK'
    <3>1. alive' \subseteq Names \X Version
      BY <1>0, <1>12, <2>1 DEF StartOk, TypeOK
    <3> QED
      BY <1>0, <1>12, <2>1, <3>1, SetType DEF StartOk, TypeOK
  <2>3. \A n \in Names : /\ running'[n] = IF n = k THEN reply[k] ELSE running[n]
                         /\ operationConfigs'[n] =
                              IF n = k THEN reply[k] ELSE operationConfigs[n]
    BY <1>0, <1>12, <2>1, SetType DEF StartOk, TypeOK
  <2>4. ASSUME NEW op \in alive' PROVE running'[op[1]] = op[2]
    <3>1. CASE op = <<k, reply[k]>>
      BY <2>3, <3>1
    <3>2. CASE op \in alive /\ op \notin Op(k)
      <4>1. op[1] \in Names /\ op[1] # k
        BY <1>0, <3>2, AliveOps
      <4> QED
        BY <1>0, <2>3, <3>2, <4>1 DEF Tracked
    <3> QED
      BY <1>12, <2>4, <3>1, <3>2 DEF StartOk
  <2>5. Tracked'
    BY <1>0, <2>3, <2>4 DEF Tracked
  <2>6. Applying'
    BY <1>0, <1>12, <2>3 DEF StartOk, Applying
  <2> QED
    BY <2>2, <2>5, <2>6 DEF OpInv
<1>13. ASSUME NEW k \in Names, StartFail(k) PROVE OpInv'
  <2>1. TypeOK'
    BY <1>0, <1>13, SetType DEF StartFail, TypeOK
  <2>2. \A n \in Names : running'[n] = IF n = k THEN 0 ELSE running[n]
    BY <1>0, <1>13, SetType DEF StartFail, TypeOK
  <2>3. ASSUME NEW op \in alive' PROVE running'[op[1]] = op[2]
    <3>1. op \in alive /\ op \notin Op(k)
      BY <1>13, <2>3 DEF StartFail
    <3>2. op[1] \in Names /\ op[1] # k
      BY <1>0, <3>1, AliveOps
    <3> QED
      BY <1>0, <2>2, <3>1, <3>2 DEF Tracked
  <2>4. Tracked'
    BY <1>0, <1>13, <2>2, <2>3 DEF StartFail, Tracked
  <2>5. Applying'
    BY <1>0, <1>13, <2>2 DEF StartFail, Applying
  <2> QED
    BY <2>1, <2>4, <2>5 DEF OpInv
<1>14. CASE Finish
  <2>1. TypeOK'
    BY <1>0, <1>14, NoneType DEF Finish, TypeOK
  <2>2. Tracked' /\ Applying'
    BY <1>0, <1>14 DEF Finish, Tracked, Applying
  <2> QED
    BY <2>1, <2>2 DEF OpInv
<1>15. CASE UNCHANGED vars
  BY <1>0, <1>15 DEF vars, OpInv, TypeOK, Tracked, Applying
<1>16. QED
  BY <1>1, <1>2, <1>3, <1>4, <1>5, <1>6, <1>7, <1>8, <1>9, <1>10, <1>11, <1>12,
     <1>13, <1>14, <1>15
  DEF Next, Environment, Runner

LEMMA Inductive == SafeSpec => []OpInv
BY InitInv, NextInv, PTL DEF SafeSpec

\* The variables keep their types.
THEOREM TypeCorrect == Spec => []TypeOK
<1>1. OpInv => TypeOK
  BY DEF OpInv
<1> QED
  BY <1>1, Inductive, PTL DEF Spec

\* Whatever lives can be found, and so be stopped, in the map running.
THEOREM NothingLeaks == Spec => []Tracked
<1>1. OpInv => Tracked
  BY DEF OpInv
<1> QED
  BY <1>1, Inductive, PTL DEF Spec

\* When an answer is applied only operations it asks for live, and of them only
\* the version it asks for unless that cannot be read.
THEOREM AppliedAsAsked == Spec => []OnlyWhatIsAsked
<1>1. OpInv => OnlyWhatIsAsked
  <2> SUFFICES ASSUME OpInv, pc = "start", changedConfigs = {}, NEW op \in alive
               PROVE  reply[op[1]] \in {op[2]} \cup Unreadable
    BY DEF OnlyWhatIsAsked
  <2>1. op[1] \in Names /\ op[2] \in Version
    BY AliveOps DEF OpInv
  <2>2. /\ running[op[1]] = op[2]
        /\ running[op[1]] \in {0, reply[op[1]]} \/ reply[op[1]] \in Unreadable
    BY <2>1 DEF OpInv, Tracked, Applying
  <2>3. op[2] # 0
    BY <2>1 DEF Version
  <2> QED
    BY <2>2, <2>3
<1> QED
  BY <1>1, Inductive, PTL DEF Spec
============================================================================
