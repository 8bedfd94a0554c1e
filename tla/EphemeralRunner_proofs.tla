----------------------- MODULE EphemeralRunner_proofs -----------------------
(* Theorems about EphemeralRunner, for every timeout, lag, number of attempts  *)
(* and bound on faults. What launch and clean-up have achieved depends on the  *)
(* call they are at, so the invariant says for each call what is there before  *)
(* it, and what is gone.                                                       *)
EXTENDS EphemeralRunner, TLAPS

-----------------------------------------------------------------------------
(* The inductive invariant.                                                  *)

\* What launch() has created before each of its calls.
MadeBefore ==
    [preflight |-> {}, role |-> {}, policy |-> {"role"}, profile |-> {"role", "policy"},
     member |-> {"role", "policy", "profile"},
     sg |-> {"role", "policy", "profile", "member"},
     instance |-> {"role", "policy", "profile", "member", "sg"},
     online |-> Things, emit |-> Things]

LaunchProgress ==
    pc \in LaunchSteps => \A t \in MadeBefore[pc] : aws[t] /\ (t \in Recorded => t \in known)

\* What exists is recorded, or is a thing whose create call did not return; the
\* wirings belong to what is recorded.
Accounted ==
    /\ \A t \in Recorded : aws[t] => t \in known \cup lost
    /\ aws["policy"] => "role" \in known
    /\ aws["member"] => "profile" \in known

\* What a clean-up without a failed call has deleted before each of its calls.
GoneBefore ==
    [terminate |-> {}, remove |-> {"instance"}, del_profile |-> {"instance", "member"},
     detach |-> {"instance", "member", "profile"},
     del_role |-> {"instance", "member", "profile", "policy"},
     del_sg |-> {"instance", "member", "profile", "policy", "role"}]

UndoProgress ==
    pc \in CleanUpSteps /\ clean =>
        \A t \in GoneBefore[pc] : aws[t] => t \in lost /\ t \notin {"policy", "member"}

\* The attempts outlast the network interface.
AttemptsSuffice ==
    /\ pc \in CleanUpSteps \ {"del_sg"} => attempts = 0
    /\ pc = "del_sg" /\ clean /\ aws["sg"] /\ ~aws["instance"] => attempts + eni <= EniLag

IInv ==
    /\ TypeOK /\ LaunchProgress /\ Accounted /\ UndoProgress /\ AttemptsSuffice
    /\ HandoffIsComplete /\ CleanUpLeavesNothing

-----------------------------------------------------------------------------
(* Types. The flags are apart from the numbers: no prover does both.         *)

FlagsOK == handoff \in BOOLEAN /\ clean \in BOOLEAN

ValuesOK ==
    /\ pc \in {"new", "idle"} \cup LaunchSteps \cup CleanUpSteps \cup DriverSteps
    /\ outcome \in Outcomes
    /\ aws \in [Things -> BOOLEAN]
    /\ eni \in 0..EniLag /\ attempts \in 0..SgAttempts
    /\ lag \in Lags \cup {0} /\ delay \in 1..MaxDelay
    /\ slept \in 0..(PropagationTimeout + MaxDelay)
    /\ known \subseteq Recorded /\ lost \subseteq Things
    /\ faults \in 0..MaxFaults

LEMMA TypeParts == TypeOK <=> ValuesOK /\ FlagsOK
BY DEF TypeOK, ValuesOK, FlagsOK

LEMMA InitTypeOK == Init => TypeOK
<1>1. Init => ValuesOK
  BY TimeoutAssumption, AttemptsAssumption, MaxFaultsAssumption
     DEF Init, ValuesOK, MaxDelay, Outcomes
<1>2. Init => FlagsOK
  BY DEF Init, FlagsOK
<1>3. QED BY <1>1, <1>2, TypeParts

LEMMA NextFlagsOK == FlagsOK /\ [Next]_vars => FlagsOK'
<1> SUFFICES ASSUME FlagsOK, [Next]_vars PROVE FlagsOK'
  OBVIOUS
<1> USE DEF FlagsOK, CleanUp
<1>1. CASE StartLauncher \/ StartDriver
  BY <1>1 DEF StartLauncher, StartDriver
<1>2. CASE Preflight \/ WaitOnline \/ EmitHandoff
  BY <1>2 DEF Preflight, WaitOnline, EmitHandoff
<1>3. ASSUME NEW t, NEW next, Create(t, next) PROVE FlagsOK'
  BY <1>3 DEF Create
<1>4. CASE CreateIam \/ AddRole \/ CreateSecurityGroup \/ RunInstance
  BY <1>3, <1>4 DEF CreateIam, AddRole, CreateSecurityGroup, RunInstance
<1>5. CASE RetryRunInstance
  BY <1>5 DEF RetryRunInstance
<1>6. CASE Drive
  BY <1>6 DEF Drive, Configure, RunProbe, WriteReports
<1>7. ASSUME NEW step, NEW recorded, NEW can, NEW gone, NEW next,
             Delete(step, recorded, can, gone, next), handoff' = handoff
      PROVE  FlagsOK'
  BY <1>7 DEF Delete
<1>8. CASE TerminateInstance \/ RemoveRole \/ DeleteProfile \/ DetachPolicy \/ DeleteRole
  BY <1>7, <1>8 DEF TerminateInstance, RemoveRole, DeleteProfile, DetachPolicy, DeleteRole
<1>9. CASE DeleteSecurityGroup
  BY <1>9 DEF DeleteSecurityGroup
<1>10. CASE Kill
  BY <1>10 DEF Kill
<1>11. CASE UNCHANGED vars
  BY <1>11 DEF vars
<1>12. QED BY <1>1, <1>2, <1>4, <1>5, <1>6, <1>8, <1>9, <1>10, <1>11 DEF Next, Launch, Undo

LEMMA FaultsOK == ValuesOK /\ (Fault \/ UNCHANGED faults) => faults' \in 0..MaxFaults
BY MaxFaultsAssumption DEF ValuesOK, Fault

LEMMA AttemptsOK == ValuesOK /\ (CleanUp \/ UNCHANGED attempts) => attempts' \in 0..SgAttempts
BY AttemptsAssumption DEF ValuesOK, CleanUp

LEMMA CreateValuesOK ==
    ASSUME ValuesOK, NEW t \in Things, NEW next \in LaunchSteps, Create(t, next)
    PROVE  /\ aws' \in [Things -> BOOLEAN] /\ known' \subseteq Recorded /\ lost' \subseteq Things
           /\ pc' \in LaunchSteps \cup CleanUpSteps
           /\ attempts' \in 0..SgAttempts /\ faults' \in 0..MaxFaults
           /\ outcome' = outcome /\ eni' = eni
<1>1. aws' \in [Things -> BOOLEAN]
  BY DEF ValuesOK, Create
<1>2. known' \subseteq Recorded /\ lost' \subseteq Things
  BY DEF ValuesOK, Create
<1>3. pc' \in LaunchSteps \cup CleanUpSteps /\ outcome' = outcome /\ eni' = eni
  BY DEF Create, CleanUp, CleanUpSteps
<1>4. (Fault \/ UNCHANGED faults) /\ (CleanUp \/ UNCHANGED attempts)
  BY DEF Create
<1>5. QED BY <1>1, <1>2, <1>3, <1>4, FaultsOK, AttemptsOK

LEMMA DeleteValuesOK ==
    ASSUME ValuesOK, NEW step, NEW recorded, NEW can \in BOOLEAN, NEW gone,
           NEW next \in CleanUpSteps, Delete(step, recorded, can, gone, next)
    PROVE  /\ aws' \in [Things -> BOOLEAN]
           /\ pc' \in CleanUpSteps \cup {"idle"} /\ outcome' \in Outcomes
           /\ faults' \in 0..MaxFaults
<1>1. aws' \in [Things -> BOOLEAN]
  BY DEF ValuesOK, Delete
<1>2. pc' \in CleanUpSteps \cup {"idle"} /\ outcome' \in Outcomes
  BY DEF ValuesOK, Delete, Exit, Outcomes
<1>3. Fault \/ UNCHANGED faults
  BY DEF Delete
<1>4. QED BY <1>1, <1>2, <1>3, FaultsOK

LEMMA NextValuesOK == ValuesOK /\ [Next]_vars => ValuesOK'
<1> SUFFICES ASSUME ValuesOK, [Next]_vars PROVE ValuesOK'
  OBVIOUS
<1> USE TimeoutAssumption, AttemptsAssumption, MaxFaultsAssumption DEF timing, account, MaxDelay
<1>1. CASE StartLauncher
  BY <1>1 DEF ValuesOK, StartLauncher, LaunchSteps
<1>2. CASE StartDriver
  BY <1>2 DEF ValuesOK, StartDriver, DriverSteps
<1>3. CASE Preflight
  BY <1>3 DEF ValuesOK, Preflight, LaunchSteps, CleanUp, CleanUpSteps, Fault
<1>4. CASE CreateIam
  <2>1. CASE Create("role", "policy") /\ UNCHANGED timing
    BY <2>1, CreateValuesOK DEF ValuesOK, LaunchSteps, Things, Recorded
  <2>2. CASE Create("policy", "profile") /\ UNCHANGED timing
    BY <2>2, CreateValuesOK DEF ValuesOK, LaunchSteps, Things, Recorded
  <2>3. CASE Create("profile", "member") /\ lag' \in Lags /\ UNCHANGED <<slept, delay>>
    BY <2>3, CreateValuesOK DEF ValuesOK, LaunchSteps, Things, Recorded
  <2>4. QED BY <1>4, <2>1, <2>2, <2>3 DEF CreateIam
<1>5. CASE AddRole
  BY <1>5, CreateValuesOK DEF AddRole, ValuesOK, LaunchSteps, Things, Recorded
<1>6. CASE CreateSecurityGroup
  BY <1>6, CreateValuesOK DEF CreateSecurityGroup, ValuesOK, LaunchSteps, Things, Recorded
<1>7. CASE RetryRunInstance
  <2>1. slept' \in 0..(PropagationTimeout + MaxDelay) /\ delay' \in 1..MaxDelay
    BY <1>7 DEF RetryRunInstance, ValuesOK
  <2>2. QED BY <1>7, <2>1 DEF RetryRunInstance, ValuesOK, CleanUp, CleanUpSteps
<1>8. CASE RunInstance
  BY <1>8, CreateValuesOK DEF RunInstance, ValuesOK, LaunchSteps, Things, Recorded
<1>9. CASE WaitOnline
  BY <1>9 DEF ValuesOK, WaitOnline, LaunchSteps, CleanUp, CleanUpSteps, Fault
<1>10. CASE EmitHandoff
  BY <1>10 DEF ValuesOK, EmitHandoff, Exit, Outcomes
<1>11. CASE Drive
  BY <1>11 DEF ValuesOK, Drive, Configure, RunProbe, WriteReports, DriverSteps, CleanUp,
     CleanUpSteps, Fault, Exit, Outcomes
<1>12. CASE TerminateInstance
  <2>1. eni' \in 0..EniLag
    BY <1>12 DEF TerminateInstance, ValuesOK
  <2>2. QED BY <1>12, <2>1, DeleteValuesOK DEF TerminateInstance, ValuesOK, CleanUpSteps
<1>13. CASE RemoveRole
  BY <1>13, DeleteValuesOK DEF RemoveRole, ValuesOK, CleanUpSteps
<1>14. CASE DeleteProfile
  <2>1. (~aws["member"]) \in BOOLEAN
    OBVIOUS
  <2>2. QED BY <1>14, <2>1, DeleteValuesOK DEF DeleteProfile, ValuesOK, CleanUpSteps
<1>15. CASE DetachPolicy
  BY <1>15, DeleteValuesOK DEF DetachPolicy, ValuesOK, CleanUpSteps
<1>16. CASE DeleteRole
  <2>1. (~aws["member"] /\ ~aws["policy"]) \in BOOLEAN
    OBVIOUS
  <2>2. QED BY <1>16, <2>1, DeleteValuesOK DEF DeleteRole, ValuesOK, CleanUpSteps
<1>17. CASE DeleteSecurityGroup
  <2>1. Fault \/ UNCHANGED faults
    BY <1>17 DEF DeleteSecurityGroup
  <2>2. aws' \in [Things -> BOOLEAN] /\ outcome' \in Outcomes /\ pc' \in {"del_sg", "idle"}
    BY <1>17 DEF DeleteSecurityGroup, ValuesOK, Exit, Outcomes
  <2>3. eni' = eni \/ eni' = (IF eni > 0 THEN eni - 1 ELSE eni)
    BY <1>17 DEF DeleteSecurityGroup
  <2>4. attempts' = attempts \/ (attempts < SgAttempts /\ attempts' = attempts + 1)
    BY <1>17 DEF DeleteSecurityGroup
  <2>5. eni' \in 0..EniLag /\ attempts' \in 0..SgAttempts
    BY <2>3, <2>4 DEF ValuesOK
  <2>6. UNCHANGED <<known, lost, lag, slept, delay>>
    BY <1>17 DEF DeleteSecurityGroup
  <2>7. QED BY <2>1, <2>2, <2>5, <2>6, FaultsOK DEF ValuesOK, CleanUpSteps
<1>18. CASE Kill
  BY <1>18 DEF Kill, ValuesOK, Fault, Exit, Outcomes
<1>19. CASE UNCHANGED vars
  BY <1>19 DEF ValuesOK, vars
<1>20. QED BY <1>1, <1>2, <1>3, <1>4, <1>5, <1>6, <1>7, <1>8, <1>9, <1>10, <1>11, <1>12,
              <1>13, <1>14, <1>15, <1>16, <1>17, <1>18, <1>19 DEF Next, Launch, Undo

LEMMA NextTypeOK == TypeOK /\ [Next]_vars => TypeOK'
<1>1. ValuesOK /\ [Next]_vars => ValuesOK'
  BY NextValuesOK
<1>2. FlagsOK /\ [Next]_vars => FlagsOK'
  BY NextFlagsOK
<1>3. TypeOK' <=> ValuesOK' /\ FlagsOK'
  BY DEF TypeOK, ValuesOK, FlagsOK
<1>4. QED BY <1>1, <1>2, <1>3, TypeParts

(* TypeOK: the variables of launcher and driver keep their types; the sleeps of *)
(* the retry loop add up to less than its timeout and one more sleep.           *)
THEOREM TypeCorrect == Spec => []TypeOK
BY InitTypeOK, NextTypeOK, PTL DEF Spec

-----------------------------------------------------------------------------
(* Launch and clean-up.                                                      *)

LEMMA InitIInv == Init => IInv
<1> SUFFICES ASSUME Init PROVE IInv
  OBVIOUS
<1>1. TypeOK
  BY InitTypeOK
<1>2. LaunchProgress /\ Accounted /\ UndoProgress
  BY DEF Init, LaunchProgress, LaunchSteps, Accounted, Recorded, Things, UndoProgress,
     CleanUpSteps
<1>3. AttemptsSuffice /\ HandoffIsComplete /\ CleanUpLeavesNothing
  BY DEF Init, AttemptsSuffice, CleanUpSteps, HandoffIsComplete, CleanUpLeavesNothing
<1>4. QED BY <1>1, <1>2, <1>3 DEF IInv

\* A clean-up is entered at its first call, with all attempts left, and
\* whatever else ends a process is told apart from success.
LEMMA OtherSteps ==
    ASSUME TypeOK,
           StartLauncher \/ StartDriver \/ Preflight \/ CreateIam \/ AddRole
           \/ CreateSecurityGroup \/ RetryRunInstance \/ RunInstance \/ WaitOnline
           \/ Drive \/ Kill
    PROVE  /\ pc' \in CleanUpSteps => pc' = "terminate" /\ attempts' = 0
           /\ pc' = "idle" => outcome' \in {"not_started", "killed"}
<1> USE DEF CleanUp, Exit, CleanUpSteps
<1>1. CASE StartLauncher \/ StartDriver \/ Preflight \/ WaitOnline \/ RetryRunInstance
  BY <1>1 DEF StartLauncher, StartDriver, Preflight, WaitOnline, RetryRunInstance
<1>2. ASSUME NEW t, NEW next \in LaunchSteps, Create(t, next)
      PROVE  (pc' = "terminate" /\ attempts' = 0) \/ pc' \in LaunchSteps
  BY <1>2 DEF Create
<1>3. CASE CreateIam \/ AddRole \/ CreateSecurityGroup \/ RunInstance
  BY <1>2, <1>3 DEF CreateIam, AddRole, CreateSecurityGroup, RunInstance, LaunchSteps
<1>4. CASE Drive
  BY <1>4 DEF Drive, Configure, RunProbe, WriteReports
<1>5. CASE Kill
  BY <1>5 DEF Kill
<1>6. QED BY <1>1, <1>3, <1>4, <1>5

LEMMA CreateProgress ==
    ASSUME TypeOK, LaunchProgress, Accounted, NEW t \in LaunchSteps \cap Things,
           NEW next \in LaunchSteps, MadeBefore[next] \subseteq MadeBefore[t] \cup {t},
           t = "policy" => "role" \in MadeBefore[t],
           t = "member" => "profile" \in MadeBefore[t], Create(t, next)
    PROVE  LaunchProgress' /\ Accounted'
<1>1. CASE /\ aws' = [aws EXCEPT ![t] = TRUE] /\ known' = known \cup ({t} \cap Recorded)
           /\ pc' = next /\ lost' = lost /\ pc = t
  <2>1. LaunchProgress'
    BY <1>1 DEF LaunchProgress, TypeOK
  <2>2. Accounted'
    BY <1>1 DEF Accounted, LaunchProgress, TypeOK, Things, Recorded
  <2>3. QED BY <2>1, <2>2
<1>2. CASE /\ pc' = "terminate" /\ known' = known /\ pc = t
           /\ \/ aws' = [aws EXCEPT ![t] = TRUE] /\ lost' = lost \cup {t}
              \/ aws' = aws /\ lost' = lost
  <2>1. LaunchProgress'
    BY <1>2 DEF LaunchProgress, LaunchSteps
  <2>2. Accounted'
    BY <1>2 DEF Accounted, LaunchProgress, TypeOK, Things, Recorded
  <2>3. QED BY <2>1, <2>2
<1>3. QED BY <1>1, <1>2 DEF Create, CleanUp

LEMMA LaunchKeeps ==
    ASSUME TypeOK, LaunchProgress, Accounted, [Next]_vars
    PROVE  LaunchProgress' /\ Accounted'
<1> USE DEF account
<1>1. CASE CreateIam \/ AddRole \/ CreateSecurityGroup \/ RunInstance
  BY <1>1, CreateProgress DEF CreateIam, AddRole, CreateSecurityGroup, RunInstance, MadeBefore,
     LaunchSteps, Things, Recorded
<1>2. CASE UNCHANGED account /\ (pc' \notin LaunchSteps \/ pc' = pc)
  BY <1>2 DEF LaunchProgress, Accounted
<1>3. CASE StartLauncher \/ Preflight
  <2>1. UNCHANGED account /\ (pc' \in {"preflight", "role"} \/ pc' \notin LaunchSteps)
    BY <1>3 DEF StartLauncher, Preflight, CleanUp, LaunchSteps
  <2>2. QED BY <2>1 DEF LaunchProgress, Accounted, MadeBefore
<1>4. CASE WaitOnline
  <2>1. UNCHANGED account /\ pc = "online" /\ (pc' = "emit" \/ pc' \notin LaunchSteps)
    BY <1>4 DEF WaitOnline, CleanUp, LaunchSteps
  <2>2. QED BY <2>1 DEF LaunchProgress, Accounted, MadeBefore, LaunchSteps
<1>5. CASE RetryRunInstance \/ EmitHandoff \/ StartDriver \/ Drive \/ Kill \/ UNCHANGED vars
  <2>1. UNCHANGED account /\ (pc' \notin LaunchSteps \/ pc' = pc)
    BY <1>5 DEF RetryRunInstance, EmitHandoff, StartDriver, Drive, Configure, RunProbe,
       WriteReports, Kill, CleanUp, Exit, LaunchSteps, vars
  <2>2. QED BY <1>2, <2>1
<1>6. ASSUME \A t \in Things : aws'[t] => aws[t], UNCHANGED <<known, lost>>,
             pc' \notin LaunchSteps
      PROVE  LaunchProgress' /\ Accounted'
  BY <1>6 DEF LaunchProgress, Accounted, Things, Recorded
<1>7. ASSUME NEW step, NEW recorded, NEW can, NEW gone, NEW next \in CleanUpSteps,
             Delete(step, recorded, can, gone, next)
      PROVE  (\A t \in Things : aws'[t] => aws[t]) /\ pc' \notin LaunchSteps
  BY <1>7 DEF Delete, Exit, CleanUpSteps, LaunchSteps
<1>8. CASE TerminateInstance \/ RemoveRole \/ DeleteProfile \/ DetachPolicy \/ DeleteRole
  BY <1>6, <1>7, <1>8 DEF TerminateInstance, RemoveRole, DeleteProfile, DetachPolicy,
     DeleteRole, CleanUpSteps
<1>9. CASE DeleteSecurityGroup
  <2>1. pc' \notin LaunchSteps /\ UNCHANGED <<known, lost>>
    BY <1>9 DEF DeleteSecurityGroup, Exit, LaunchSteps
  <2>2. aws' = aws \/ aws' = [aws EXCEPT !["sg"] = FALSE]
    BY <1>9 DEF DeleteSecurityGroup
  <2>3. \A t \in Things : aws'[t] => aws[t]
    BY <2>2 DEF TypeOK
  <2>4. QED BY <1>6, <2>1, <2>3
<1>10. QED BY <1>1, <1>3, <1>4, <1>5, <1>8, <1>9 DEF Next, Launch, Undo

LEMMA GoneAreThings == \A s \in CleanUpSteps : GoneBefore[s] \subseteq Things
<1> SUFFICES ASSUME NEW s \in CleanUpSteps PROVE GoneBefore[s] \subseteq Things
  OBVIOUS
<1> USE DEF GoneBefore, Things, Recorded
<1>1. CASE s = "terminate"
  BY <1>1
<1>2. CASE s = "remove"
  BY <1>2
<1>3. CASE s = "del_profile"
  BY <1>3
<1>4. CASE s = "detach"
  BY <1>4
<1>5. CASE s = "del_role"
  BY <1>5
<1>6. CASE s = "del_sg"
  BY <1>6
<1>7. QED BY <1>1, <1>2, <1>3, <1>4, <1>5, <1>6 DEF CleanUpSteps

\* One call of a clean-up that is not refused: what it is to delete is gone, or
\* was never recorded.
LEMMA DeleteGoes ==
    ASSUME TypeOK, UndoProgress, NEW step \in CleanUpSteps, NEW recorded, NEW can \in BOOLEAN,
           NEW gone \in SUBSET Things, NEW next \in CleanUpSteps,
           clean /\ pc = step => can,
           GoneBefore[next] \subseteq GoneBefore[step] \cup gone,
           recorded \notin known =>
               \A t \in gone : aws[t] => t \in lost /\ t \notin {"policy", "member"},
           UNCHANGED lost, Delete(step, recorded, can, gone, next)
    PROVE  UndoProgress'
<1> SUFFICES ASSUME pc' \in CleanUpSteps, clean'
             PROVE  \A t \in GoneBefore[pc'] :
                        aws'[t] => t \in lost /\ t \notin {"policy", "member"}
  BY DEF UndoProgress
<1>1. pc = step /\ clean /\ pc' = next
  BY DEF Delete, Exit, CleanUpSteps
<1>2. CASE recorded \notin known /\ aws' = aws
  BY <1>1, <1>2 DEF UndoProgress
<1>3. CASE recorded \in known /\ aws' = [t \in Things |-> aws[t] /\ t \notin gone]
  <2>1. GoneBefore[step] \cup gone \subseteq Things
    BY GoneAreThings
  <2>2. \A t \in GoneBefore[step] \cup gone : aws'[t] => aws[t] /\ t \notin gone
    BY <1>3, <2>1
  <2>3. QED BY <1>1, <2>2 DEF UndoProgress
<1>4. QED BY <1>1, <1>2, <1>3 DEF Delete

LEMMA UndoKeeps ==
    ASSUME TypeOK, Accounted, UndoProgress, [Next]_vars
    PROVE  UndoProgress'
<1>1. CASE TerminateInstance
  <2>1. "instance" \notin known => (aws["instance"] => "instance" \in lost)
    BY DEF Accounted, Recorded
  <2>2. QED BY <1>1, <2>1, DeleteGoes DEF TerminateInstance, CleanUpSteps, GoneBefore, Things, Recorded
<1>2. CASE RemoveRole
  BY <1>2, DeleteGoes DEF RemoveRole, CleanUpSteps, GoneBefore, Things, Accounted
<1>3. CASE DeleteProfile
  <2>1. clean /\ pc = "del_profile" => ~aws["member"]
    BY DEF UndoProgress, CleanUpSteps, GoneBefore
  <2>2. "profile" \notin known => (aws["profile"] => "profile" \in lost)
    BY DEF Accounted, Recorded
  <2>3. (~aws["member"]) \in BOOLEAN
    OBVIOUS
  <2>4. QED
    BY <1>3, <2>1, <2>2, <2>3, DeleteGoes
       DEF DeleteProfile, CleanUpSteps, GoneBefore, Things, Recorded
<1>4. CASE DetachPolicy
  BY <1>4, DeleteGoes DEF DetachPolicy, CleanUpSteps, GoneBefore, Things, Accounted
<1>5. CASE DeleteRole
  <2>1. clean /\ pc = "del_role" => ~aws["member"] /\ ~aws["policy"]
    BY DEF UndoProgress, CleanUpSteps, GoneBefore
  <2>2. "role" \notin known => (aws["role"] => "role" \in lost)
    BY DEF Accounted, Recorded
  <2>3. (~aws["member"] /\ ~aws["policy"]) \in BOOLEAN
    OBVIOUS
  <2>4. QED
    BY <1>5, <2>1, <2>2, <2>3, DeleteGoes
       DEF DeleteRole, CleanUpSteps, GoneBefore, Things, Recorded
<1>6. CASE DeleteSecurityGroup
  <2>1. pc = "del_sg" /\ lost' = lost
    BY <1>6 DEF DeleteSecurityGroup
  <2>2. pc' \in CleanUpSteps /\ clean' => pc' = pc /\ aws' = aws /\ clean
    BY <1>6 DEF DeleteSecurityGroup, Exit, CleanUpSteps
  <2>3. QED BY <2>1, <2>2 DEF UndoProgress
<1>7. CASE StartLauncher \/ StartDriver \/ Preflight \/ CreateIam \/ AddRole
           \/ CreateSecurityGroup \/ RetryRunInstance \/ RunInstance \/ WaitOnline
           \/ Drive \/ Kill
  BY <1>7, OtherSteps DEF UndoProgress, GoneBefore
<1>8. CASE EmitHandoff
  BY <1>8 DEF EmitHandoff, Exit, UndoProgress, CleanUpSteps
<1>9. CASE UNCHANGED vars
  BY <1>9 DEF vars, UndoProgress
<1>10. QED BY <1>1, <1>2, <1>3, <1>4, <1>5, <1>6, <1>7, <1>8, <1>9 DEF Next, Launch, Undo

LEMMA AllLeft == \A a, e \in Nat : a = 0 /\ e \in 0..EniLag => a + e <= EniLag
BY AttemptsAssumption

LEMMA AttemptsKeep ==
    ASSUME TypeOK, AttemptsSuffice, [Next]_vars
    PROVE  AttemptsSuffice'
<1> USE DEF CleanUpSteps
<1>1. ASSUME NEW step \in CleanUpSteps \ {"del_sg"}, NEW recorded, NEW can, NEW gone,
             NEW next \in CleanUpSteps, UNCHANGED attempts, eni' \in 0..EniLag,
             Delete(step, recorded, can, gone, next)
      PROVE  AttemptsSuffice'
  <2>1. pc = step /\ pc' \in {next, "idle"}
    BY <1>1 DEF Delete, Exit
  <2>2. attempts' = 0
    BY <1>1, <2>1 DEF AttemptsSuffice
  <2>3. attempts' + eni' <= EniLag
    BY <1>1, <2>2, AllLeft
  <2>4. QED BY <2>1, <2>2, <2>3 DEF AttemptsSuffice
<1>2. CASE TerminateInstance \/ RemoveRole \/ DeleteProfile \/ DetachPolicy \/ DeleteRole
  <2>1. eni' \in 0..EniLag
    BY <1>2, NextTypeOK DEF TypeOK
  <2>2. QED BY <1>1, <1>2, <2>1
            DEF TerminateInstance, RemoveRole, DeleteProfile, DetachPolicy, DeleteRole
<1>3. CASE DeleteSecurityGroup
  <2>1. SUFFICES ASSUME pc' = "del_sg", clean', aws'["sg"], ~aws'["instance"]
                 PROVE  attempts' + eni' <= EniLag
    <3>1. pc' \in {"del_sg", "idle"}
      BY <1>3 DEF DeleteSecurityGroup, Exit
    <3>2. QED BY <2>1, <3>1 DEF AttemptsSuffice
  <2>2. /\ pc = "del_sg" /\ clean /\ aws' = aws /\ (aws["instance"] \/ eni > 0 \/ ~aws["sg"])
        /\ attempts' = attempts + 1 /\ eni' = (IF eni > 0 THEN eni - 1 ELSE eni)
    BY <1>3, <2>1 DEF DeleteSecurityGroup, Exit
  <2>3. attempts + eni <= EniLag /\ eni > 0
    BY <2>1, <2>2 DEF AttemptsSuffice
  <2>4. attempts \in Nat /\ eni \in Nat
    BY AttemptsAssumption DEF TypeOK
  <2>5. QED BY <2>2, <2>3, <2>4, AttemptsAssumption
<1>4. CASE StartLauncher \/ StartDriver \/ Preflight \/ CreateIam \/ AddRole
           \/ CreateSecurityGroup \/ RetryRunInstance \/ RunInstance \/ WaitOnline
           \/ Drive \/ Kill
  BY <1>4, OtherSteps DEF AttemptsSuffice
<1>5. CASE EmitHandoff
  BY <1>5 DEF EmitHandoff, Exit, AttemptsSuffice
<1>6. CASE UNCHANGED vars
  BY <1>6 DEF vars, AttemptsSuffice
<1>7. QED BY <1>2, <1>3, <1>4, <1>5, <1>6 DEF Next, Launch, Undo

\* How the clean-up calls and the hand-off may end a process.
LEMMA LastSteps ==
    ASSUME Undo \/ EmitHandoff, pc' = "idle"
    PROVE  \/ outcome' = "aborted"
           \/ EmitHandoff /\ outcome' = "launched"
           \/ DeleteSecurityGroup /\ outcome' \in {"rolled_back", "torn_down"}
<1>1. ASSUME NEW step, NEW recorded, NEW can, NEW gone, NEW next \in CleanUpSteps,
             Delete(step, recorded, can, gone, next)
      PROVE  outcome' = "aborted"
  BY <1>1 DEF Delete, Exit, CleanUpSteps
<1>2. CASE TerminateInstance \/ RemoveRole \/ DeleteProfile \/ DetachPolicy \/ DeleteRole
  BY <1>1, <1>2 DEF TerminateInstance, RemoveRole, DeleteProfile, DetachPolicy, DeleteRole,
     CleanUpSteps
<1>3. CASE DeleteSecurityGroup
  BY <1>3 DEF DeleteSecurityGroup, Exit
<1>4. CASE EmitHandoff
  BY <1>4 DEF EmitHandoff, Exit
<1>5. QED BY <1>2, <1>3, <1>4 DEF Undo

LEMMA HandoffKeeps ==
    ASSUME TypeOK, LaunchProgress, HandoffIsComplete, [Next]_vars
    PROVE  HandoffIsComplete'
<1> SUFFICES ASSUME pc' = "idle", outcome' = "launched"
             PROVE  known' = Recorded /\ Existing' = Things
  BY DEF HandoffIsComplete
<1>1. CASE EmitHandoff
  <2>1. pc = "emit" /\ aws' = aws /\ known' = known
    BY <1>1 DEF EmitHandoff, account
  <2>2. \A t \in Things : aws[t] /\ (t \in Recorded => t \in known)
    BY <2>1 DEF LaunchProgress, LaunchSteps, MadeBefore
  <2>3. QED BY <2>1, <2>2 DEF Existing, TypeOK, Things
<1>2. CASE UNCHANGED vars
  BY <1>2 DEF vars, HandoffIsComplete, Existing
<1>3. CASE Undo
  BY <1>3, LastSteps DEF Undo, DeleteSecurityGroup, EmitHandoff, TerminateInstance, Delete,
     RemoveRole, DeleteProfile, DetachPolicy, DeleteRole
<1>4. QED BY <1>1, <1>2, <1>3, OtherSteps DEF Next, Launch

LEMMA CleanUpKeeps ==
    ASSUME TypeOK, Accounted, UndoProgress, AttemptsSuffice, CleanUpLeavesNothing, [Next]_vars
    PROVE  CleanUpLeavesNothing'
<1> SUFFICES ASSUME pc' = "idle", outcome' \in {"rolled_back", "torn_down"}, clean'
             PROVE  \A t \in Things : aws'[t] => \/ t \in lost'
                                                 \/ t = "sg" /\ "instance" \in lost'
  BY DEF CleanUpLeavesNothing, Existing
<1>1. CASE DeleteSecurityGroup
  <2>1. /\ pc = "del_sg" /\ clean /\ lost' = lost
        /\ \/ aws' = aws /\ ("sg" \notin known \/ ~(attempts < SgAttempts))
           \/ aws' = [aws EXCEPT !["sg"] = FALSE]
    BY <1>1 DEF DeleteSecurityGroup, Exit
  <2>2. \A t \in Things \ {"sg"} : aws[t] => t \in lost
    BY <2>1 DEF UndoProgress, CleanUpSteps, GoneBefore, Things, Recorded
  <2>3. aws'["sg"] => "sg" \in lost \/ "instance" \in lost
    <3>1. CASE "sg" \notin known /\ aws' = aws
      BY <3>1 DEF Accounted, Recorded
    <3>2. CASE ~(attempts < SgAttempts) /\ aws' = aws
      <4>1. ~(attempts + eni <= EniLag)
        BY <3>2, AttemptsAssumption DEF TypeOK
      <4>2. aws["sg"] => aws["instance"]
        BY <2>1, <4>1 DEF AttemptsSuffice
      <4>3. QED BY <2>2, <3>2, <4>2 DEF Things, Recorded
    <3>3. CASE aws' = [aws EXCEPT !["sg"] = FALSE]
      BY <3>3 DEF TypeOK, Things, Recorded
    <3>4. QED BY <2>1, <3>1, <3>2, <3>3
  <2>4. \A t \in Things \ {"sg"} : aws'[t] = aws[t]
    BY <2>1 DEF TypeOK
  <2>5. QED BY <2>1, <2>2, <2>3, <2>4
<1>2. CASE UNCHANGED vars
  BY <1>2 DEF vars, CleanUpLeavesNothing, Existing
<1>3. CASE (Undo \/ EmitHandoff) /\ ~DeleteSecurityGroup
  BY <1>3, LastSteps
<1>4. QED BY <1>1, <1>2, <1>3, OtherSteps DEF Next, Launch

LEMMA NextIInv == IInv /\ [Next]_vars => IInv'
BY NextTypeOK, LaunchKeeps, UndoKeeps, AttemptsKeep, HandoffKeeps, CleanUpKeeps DEF IInv

-----------------------------------------------------------------------------
(* The theorems.                                                             *)

(* HandoffIsComplete: a launcher that exits with success hands over the four    *)
(* identifiers of a runner that exists and is wired up, whatever calls failed   *)
(* or took effect without a reply before.                                       *)
THEOREM HandoffCompleteness == Spec => []HandoffIsComplete
<1>1. IInv => HandoffIsComplete
  BY DEF IInv
<1>2. QED BY <1>1, InitIInv, NextIInv, PTL DEF Spec

(* CleanUpLeavesNothing: a rollback or teardown without a failed call deletes   *)
(* all that is recorded, from every partial launch and after every partial      *)
(* clean-up, as long as the group's attempts outlast the network interface.     *)
THEOREM CleanUpIsComplete == Spec => []CleanUpLeavesNothing
<1>1. IInv => CleanUpLeavesNothing
  BY DEF IInv
<1>2. QED BY <1>1, InitIInv, NextIInv, PTL DEF Spec
=============================================================================
