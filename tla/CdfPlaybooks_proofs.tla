------------------------ MODULE CdfPlaybooks_proofs ------------------------
(***************************************************************************)
(* Proofs about CdfPlaybooks, for any set of runs, any number of attempts  *)
(* and any number of disturbances.                                         *)
(***************************************************************************)
EXTENDS CdfPlaybooks, TLAPS

\* The states the service goes through: from the first of a pair to the second.
Steps == {<<"NOT_FOUND", "ENABLING">>, <<"NOT_ENABLED", "ENABLING">>,
          <<"NOT_ENABLED", "NOT_FOUND">>,
          <<"ENABLING", "GOOD_HEALTH">>, <<"ENABLING", "BAD_HEALTH">>,
          <<"GOOD_HEALTH", "BAD_HEALTH">>, <<"BAD_HEALTH", "GOOD_HEALTH">>,
          <<"ENABLING", "DISABLING">>, <<"GOOD_HEALTH", "DISABLING">>,
          <<"BAD_HEALTH", "DISABLING">>,
          <<"DISABLING", "NOT_FOUND">>, <<"DISABLING", "NOT_ENABLED">>}

\* The service and its views, apart from the count of disturbances.
ServiceOK ==
    /\ svc \in States /\ list \in States /\ info \in States
    /\ keep \in BOOLEAN /\ deps \in BOOLEAN

\* df_service_info is at most one change behind, and there are deployments only
\* in a service that was up.
InfoIsBehind == info = svc \/ <<info, svc>> \in Steps
DeploymentsAreServed == deps => svc \in Running \cup {"DISABLING"}

ServiceInv == ServiceOK /\ InfoIsBehind /\ DeploymentsAreServed

CountOK == disturbed \in 0 .. MaxDisturbances

\* What the runs have registered.
RunsOK ==
    /\ goal \in {"none", "up", "down"}
    /\ pc \in [Plays -> EnableTasks \cup DisableTasks \cup Ended]
    /\ seen \in [Plays -> [list : States, info : States]]
    /\ todo \in [Plays -> SUBSET Todo]
    /\ attempt \in [Plays -> 1 .. Attempts]

IInv == ServiceInv /\ CountOK /\ RunsOK

LEMMA TypeParts == TypeOK <=> ServiceOK /\ CountOK /\ RunsOK
BY DEF TypeOK, ServiceTypeOK, ServiceOK, CountOK, RunsOK

-----------------------------------------------------------------------------
(***************************************************************************)
(* The service.                                                            *)
(***************************************************************************)
LEMMA InitInv == Init => IInv
<1> SUFFICES ASSUME Init PROVE IInv
  OBVIOUS
<1>1. ServiceInv
  BY DEF Init, ServiceInit, ServiceInv, ServiceOK, InfoIsBehind, DeploymentsAreServed,
         States, Gone, Running
<1>2. CountOK
  BY BoundAssumption DEF Init, ServiceInit, CountOK
<1>3. RunsOK
  BY AttemptsAssumption DEF Init, RunsOK, Nothing, States, Ended
<1> QED
  BY <1>1, <1>2, <1>3 DEF IInv

\* A change along Steps keeps the views at most one change behind.
LEMMA ChangeInv ==
    ASSUME ServiceInv, NEW s \in States, <<svc, s>> \in Steps, Change(s), keep' \in BOOLEAN
    PROVE  ServiceInv'
<1>1. ServiceOK'
  BY DEF ServiceInv, ServiceOK, Change
<1>2. InfoIsBehind'
  BY DEF InfoIsBehind, Change
<1>3. DeploymentsAreServed'
  BY DEF ServiceInv, ServiceOK, DeploymentsAreServed, Change, Steps, Running, Gone, States
<1> QED
  BY <1>1, <1>2, <1>3 DEF ServiceInv

LEMMA EnableInv == ASSUME ServiceInv, Enable PROVE ServiceInv'
<1>1. <<svc, "ENABLING">> \in Steps
  BY DEF Enable, Gone, Steps
<1> QED
  BY <1>1, ChangeInv DEF Enable, ServiceInv, ServiceOK, States

LEMMA DisableInv == ASSUME ServiceInv, Disable PROVE ServiceInv'
<1>1. <<svc, "DISABLING">> \in Steps
  BY DEF Disable, Running, Steps
<1> QED
  BY <1>1, ChangeInv DEF Disable, ServiceInv, ServiceOK, States

LEMMA MakeAbsentInv == ASSUME ServiceInv, MakeAbsent PROVE ServiceInv'
<1>1. CASE Disable
  BY <1>1, DisableInv
<1>2. CASE svc = "NOT_ENABLED" /\ Change("NOT_FOUND") /\ UNCHANGED keep
  <2>1. <<svc, "NOT_FOUND">> \in Steps
    BY <1>2 DEF Steps
  <2> QED
    BY <1>2, <2>1, ChangeInv DEF ServiceInv, ServiceOK, States
<1> QED
  BY <1>1, <1>2 DEF MakeAbsent

LEMMA TerminateInv == ASSUME ServiceInv, Terminate PROVE ServiceInv'
BY DEF Terminate, ServiceInv, ServiceOK, InfoIsBehind, DeploymentsAreServed

LEMMA UnchangedInv == ASSUME ServiceInv, UNCHANGED service PROVE ServiceInv'
BY DEF service, ServiceInv, ServiceOK, InfoIsBehind, DeploymentsAreServed

\* What happens by itself, and what the user of the UI does.
LEMMA ServiceNextInv == ASSUME ServiceInv, ServiceNext PROVE ServiceInv'
<1>1. CASE Enabled
  <2>1. <<svc, "GOOD_HEALTH">> \in Steps
    BY <1>1 DEF Enabled, Steps
  <2> QED
    BY <1>1, <2>1, ChangeInv DEF Enabled, ServiceInv, ServiceOK, States
<1>2. CASE Disabled
  <2>1. PICK s \in {"NOT_ENABLED", "NOT_FOUND"} : Change(s)
    BY <1>2 DEF Disabled
  <2>2. <<svc, s>> \in Steps
    BY <1>2 DEF Disabled, Steps
  <2> QED
    BY <1>2, <2>1, <2>2, ChangeInv DEF Disabled, States
<1>3. CASE Sicken
  <2>1. <<svc, "BAD_HEALTH">> \in Steps
    BY <1>3 DEF Sicken, Steps
  <2> QED
    BY <1>3, <2>1, ChangeInv DEF Sicken, ServiceInv, ServiceOK, States
<1>4. CASE Heal
  <2>1. <<svc, "GOOD_HEALTH">> \in Steps
    BY <1>4 DEF Heal, Steps
  <2> QED
    BY <1>4, <2>1, ChangeInv DEF Heal, ServiceInv, ServiceOK, States
<1>5. CASE RefreshList
  BY <1>5 DEF RefreshList, ServiceInv, ServiceOK, InfoIsBehind, DeploymentsAreServed
<1>6. CASE RefreshInfo
  BY <1>6 DEF RefreshInfo, ServiceInv, ServiceOK, InfoIsBehind, DeploymentsAreServed
<1>7. CASE DropEarly
  BY <1>7 DEF DropEarly, ServiceInv, ServiceOK, InfoIsBehind, DeploymentsAreServed, States
<1>8. CASE UserActs
  <2>1. CASE Enable
    BY <2>1, EnableInv
  <2>2. CASE svc \in Running /\ Change("DISABLING") /\ keep' \in BOOLEAN
    <3>1. <<svc, "DISABLING">> \in Steps
      BY <2>2 DEF Running, Steps
    <3> QED
      BY <2>2, <3>1, ChangeInv DEF States
  <2>3. CASE svc = "GOOD_HEALTH" /\ deps' = TRUE /\ UNCHANGED <<svc, keep, list, info>>
    BY <2>3 DEF ServiceInv, ServiceOK, InfoIsBehind, DeploymentsAreServed, Running
  <2> QED
    BY <1>8, <2>1, <2>2, <2>3 DEF UserActs
<1> QED
  BY <1>1, <1>2, <1>3, <1>4, <1>5, <1>6, <1>7, <1>8 DEF ServiceNext

-----------------------------------------------------------------------------
(***************************************************************************)
(* The runs.  Every step of one does at most one thing to the service, and *)
(* meets at most one disturbance.                                          *)
(***************************************************************************)
ServiceMoves == UNCHANGED service \/ Enable \/ MakeAbsent \/ Terminate
Counts == UNCHANGED disturbed \/ Disturb

LEMMA MovesInv == ASSUME ServiceInv, ServiceMoves PROVE ServiceInv'
BY UnchangedInv, EnableInv, MakeAbsentInv, TerminateInv DEF ServiceMoves

LEMMA CountsInv == ASSUME CountOK, Counts PROVE CountOK'
BY BoundAssumption DEF CountOK, Counts, Disturb

LEMMA ModuleMoves == AbsentModule => ServiceMoves /\ Counts
BY DEF AbsentModule, Quiet, ServiceMoves, Counts

LEMMA EnableStepMoves == ASSUME NEW p, EnableStep(p) PROVE ServiceMoves /\ Counts
<1>1. CASE EList(p)
  BY <1>1 DEF EList, ServiceMoves, Counts
<1>2. CASE EInfo(p)
  BY <1>2 DEF EInfo, ServiceMoves, Counts
<1>3. CASE Reset(p) \/ Recover(p)
  BY <1>3, ModuleMoves DEF Reset, Recover
<1>4. CASE PreEnable(p)
  BY <1>4 DEF PreEnable, ServiceMoves, Counts
<1>5. CASE SkipEnable(p)
  BY <1>5 DEF SkipEnable, Quiet, ServiceMoves, Counts
<1>6. CASE EAttempt(p)
  BY <1>6 DEF EAttempt, Quiet, ServiceMoves, Counts
<1>7. CASE EPoll(p)
  BY <1>7 DEF EPoll, Quiet, ServiceMoves, Counts
<1> QED
  BY <1>1, <1>2, <1>3, <1>4, <1>5, <1>6, <1>7 DEF EnableStep

LEMMA DisableStepMoves == ASSUME NEW p, DisableStep(p) PROVE ServiceMoves /\ Counts
<1>1. CASE DList(p) \/ DInfo(p) \/ DDeps(p)
  BY <1>1 DEF DList, DInfo, DDeps, ServiceMoves, Counts, service
<1>2. CASE TerminateDeployments(p)
  BY <1>2 DEF TerminateDeployments, ServiceMoves, Counts
<1>3. CASE DisableByCli(p)
  BY <1>3 DEF DisableByCli, Quiet, MakeAbsent, ServiceMoves, Counts
<1>4. CASE DisableByModule(p)
  BY <1>4, ModuleMoves DEF DisableByModule
<1>5. CASE VerifyDeployments(p) \/ NoDeployments(p)
  BY <1>5 DEF VerifyDeployments, NoDeployments, Quiet, ServiceMoves, Counts
<1>6. CASE DListPoll(p) \/ DInfoPoll(p)
  BY <1>6 DEF DListPoll, DInfoPoll, ServiceMoves, Counts
<1> QED
  BY <1>1, <1>2, <1>3, <1>4, <1>5, <1>6 DEF DisableStep

-----------------------------------------------------------------------------
(***************************************************************************)
(* What the runs have registered.                                          *)
(***************************************************************************)
Tasks == EnableTasks \cup DisableTasks \cup Ended
View == [list : States, info : States]

LEMMA GotoOK ==
    ASSUME RunsOK, NEW p \in Plays, NEW task \in Tasks, Goto(p, task)
    PROVE  pc' \in [Plays -> Tasks]
BY DEF RunsOK, Goto, Tasks

LEMMA SeesOK ==
    ASSUME RunsOK, NEW p \in Plays, NEW view \in View, Sees(p, view)
    PROVE  seen' \in [Plays -> View]
BY DEF RunsOK, Sees, View

LEMMA PlansOK ==
    ASSUME RunsOK, NEW p \in Plays, NEW tasks \in SUBSET Todo, Plans(p, tasks)
    PROVE  todo' \in [Plays -> SUBSET Todo]
BY DEF RunsOK, Plans

LEMMA DoesOK ==
    ASSUME RunsOK, NEW p \in Plays, NEW task, Does(p, task)
    PROVE  todo' \in [Plays -> SUBSET Todo]
<1>1. todo[p] \ {task} \in SUBSET Todo
  BY DEF RunsOK
<1> QED
  BY <1>1, PlansOK DEF Does

LEMMA NothingSeen == Nothing \in View
BY DEF Nothing, View, States

LEMMA EndOK ==
    ASSUME RunsOK, UNCHANGED goal, NEW p \in Plays, NEW how \in Ended, End(p, how)
    PROVE  RunsOK'
<1>1. pc' \in [Plays -> Tasks]
  BY GotoOK DEF End, Tasks
<1>2. seen' \in [Plays -> View]
  BY SeesOK, NothingSeen DEF End
<1>3. todo' \in [Plays -> SUBSET Todo]
  BY PlansOK DEF End
<1>4. attempt' \in [Plays -> 1 .. Attempts]
  BY AttemptsAssumption DEF End, RunsOK
<1> QED
  BY <1>1, <1>2, <1>3, <1>4 DEF RunsOK, Tasks, View

LEMMA Readings ==
    ASSUME ServiceOK, RunsOK, NEW p \in Plays
    PROVE  /\ [Nothing EXCEPT !.list = list] \in View
           /\ [seen[p] EXCEPT !.info = info] \in View
           /\ [seen[p] EXCEPT !.info = "NOT_FOUND"] \in View
<1>1. seen[p] \in View
  BY DEF RunsOK, View
<1> QED
  BY <1>1 DEF ServiceOK, Nothing, View, States

LEMMA PlansAreTodo ==
    ASSUME NEW view, NEW deployments
    PROVE  /\ EnablePlan(view) \in SUBSET Todo
           /\ DisablePlan(view, deployments) \in SUBSET Todo
BY DEF EnablePlan, DisablePlan, Todo

LEMMA DecideOK ==
    ASSUME RunsOK, UNCHANGED goal, NEW p \in Plays, NEW view, Decide(p, view)
    PROVE  RunsOK'
<1>1. CASE End(p, "done") \/ End(p, "idle")
  BY <1>1, EndOK DEF Ended
<1>2. CASE /\ Goto(p, "e_work") /\ Plans(p, EnablePlan(view)) /\ Sees(p, Nothing)
           /\ UNCHANGED attempt
  <2>1. pc' \in [Plays -> Tasks]
    BY <1>2, GotoOK DEF Tasks, EnableTasks
  <2>2. todo' \in [Plays -> SUBSET Todo]
    BY <1>2, PlansOK, PlansAreTodo
  <2>3. seen' \in [Plays -> View]
    BY <1>2, SeesOK, NothingSeen
  <2> QED
    BY <1>2, <2>1, <2>2, <2>3 DEF RunsOK, Tasks, View
<1> QED
  BY <1>1, <1>2 DEF Decide

LEMMA AttemptedOK ==
    ASSUME RunsOK, UNCHANGED goal, NEW p \in Plays, NEW failed, Attempted(p, failed)
    PROVE  RunsOK'
<1>1. CASE /\ attempt[p] < Attempts
           /\ attempt' = [attempt EXCEPT ![p] = @ + 1] /\ UNCHANGED <<pc, seen, todo>>
  <2>1. attempt[p] + 1 \in 1 .. Attempts
    BY <1>1, AttemptsAssumption DEF RunsOK
  <2>2. attempt' \in [Plays -> 1 .. Attempts]
    BY <1>1, <2>1 DEF RunsOK
  <2> QED
    BY <1>1, <2>2 DEF RunsOK
<1>2. CASE End(p, "idle")
  BY <1>2, EndOK DEF Ended
<1>3. CASE /\ Goto(p, "e_poll") /\ attempt' = [attempt EXCEPT ![p] = 1]
           /\ UNCHANGED <<seen, todo>>
  <2>1. pc' \in [Plays -> Tasks]
    BY <1>3, GotoOK DEF Tasks, EnableTasks
  <2>2. attempt' \in [Plays -> 1 .. Attempts]
    BY <1>3, AttemptsAssumption DEF RunsOK
  <2> QED
    BY <1>3, <2>1, <2>2 DEF RunsOK, Tasks
<1> QED
  BY <1>1, <1>2, <1>3 DEF Attempted

\* A step that goes from one task to another, keeps attempt, and registers at
\* most one view and one plan.
LEMMA MoveOnOK ==
    ASSUME RunsOK, UNCHANGED <<goal, attempt>>, NEW p \in Plays,
           UNCHANGED pc \/ \E task \in Tasks : Goto(p, task),
           UNCHANGED seen \/ \E view \in View : Sees(p, view),
           UNCHANGED todo \/ \E tasks \in SUBSET Todo : Plans(p, tasks)
    PROVE  RunsOK'
<1>1. pc' \in [Plays -> Tasks]
  BY GotoOK DEF RunsOK, Tasks
<1>2. seen' \in [Plays -> View]
  BY SeesOK DEF RunsOK, View
<1>3. todo' \in [Plays -> SUBSET Todo]
  BY PlansOK DEF RunsOK
<1> QED
  BY <1>1, <1>2, <1>3 DEF RunsOK, Tasks, View

LEMMA DoesPlans ==
    ASSUME RunsOK, NEW p \in Plays, NEW task, Does(p, task)
    PROVE  \E tasks \in SUBSET Todo : Plans(p, tasks)
<1>1. todo[p] \ {task} \in SUBSET Todo
  BY DEF RunsOK
<1> QED
  BY <1>1 DEF Does

LEMMA EnableStepOK ==
    ASSUME ServiceOK, RunsOK, UNCHANGED goal, NEW p \in Plays, EnableStep(p)
    PROVE  RunsOK'
<1> USE DEF Tasks, EnableTasks
<1>1. CASE EList(p)
  <2>1. CASE /\ Sees(p, [Nothing EXCEPT !.list = list]) /\ Goto(p, "e_info")
             /\ KeepsWork
    BY <2>1, Readings, MoveOnOK DEF KeepsWork
  <2>2. CASE End(p, "idle")
    BY <2>2, EndOK DEF Ended
  <2> QED
    BY <1>1, <2>1, <2>2 DEF EList
<1>2. CASE EInfo(p)
  BY <1>2, DecideOK DEF EInfo
<1>3. CASE Reset(p) \/ Recover(p)
  BY <1>3, DoesPlans, MoveOnOK DEF Reset, Recover
<1>4. CASE PreEnable(p)
  <2>1. CASE End(p, "idle")
    BY <2>1, EndOK DEF Ended
  <2>2. CASE /\ Goto(p, IF list \in {"ENABLING", "DISABLING", "GOOD_HEALTH"}
                        THEN "e_poll" ELSE "e_attempt")
             /\ Plans(p, {}) /\ UNCHANGED <<seen, attempt>>
    <3>1. \E task \in Tasks : Goto(p, task)
      BY <2>2
    <3> QED
      BY <2>2, <3>1, MoveOnOK
  <2> QED
    BY <1>4, <2>1, <2>2 DEF PreEnable
<1>5. CASE SkipEnable(p)
  BY <1>5, MoveOnOK DEF SkipEnable
<1>6. CASE EAttempt(p)
  BY <1>6, AttemptedOK DEF EAttempt
<1>7. CASE EPoll(p)
  BY <1>7, EndOK DEF EPoll, Ended
<1> QED
  BY <1>1, <1>2, <1>3, <1>4, <1>5, <1>6, <1>7 DEF EnableStep

LEMMA DisableStepOK ==
    ASSUME ServiceOK, RunsOK, UNCHANGED goal, NEW p \in Plays, DisableStep(p)
    PROVE  RunsOK'
<1> USE DEF Tasks, DisableTasks
<1>1. CASE DList(p) \/ DInfo(p)
  BY <1>1, Readings, MoveOnOK DEF DList, DInfo, KeepsWork
<1>2. CASE DDeps(p)
  BY <1>2, NothingSeen, PlansAreTodo, MoveOnOK DEF DDeps
<1>3. CASE TerminateDeployments(p) \/ DisableByModule(p)
  BY <1>3, DoesPlans, MoveOnOK DEF TerminateDeployments, DisableByModule
<1>4. CASE DisableByCli(p)
  <2>1. /\ todo[p] \ {"disable", "module"} \in SUBSET Todo
        /\ todo[p] \ {"disable"} \in SUBSET Todo
    BY DEF RunsOK
  <2> QED
    BY <1>4, <2>1, MoveOnOK DEF DisableByCli
<1>5. CASE VerifyDeployments(p)
  <2>1. CASE End(p, "idle")
    BY <2>1, EndOK DEF Ended
  <2>2. CASE Goto(p, "d_list_poll") /\ Plans(p, {}) /\ UNCHANGED <<seen, attempt>>
    BY <2>2, MoveOnOK
  <2> QED
    BY <1>5, <2>1, <2>2 DEF VerifyDeployments
<1>6. CASE NoDeployments(p)
  BY <1>6, MoveOnOK DEF NoDeployments
<1>7. CASE DListPoll(p)
  <2>1. CASE End(p, "idle")
    BY <2>1, EndOK DEF Ended
  <2>2. CASE AfterListPoll(p)
    BY <2>2, MoveOnOK DEF AfterListPoll
  <2> QED
    BY <1>7, <2>1, <2>2 DEF DListPoll
<1>8. CASE DInfoPoll(p)
  BY <1>8, EndOK DEF DInfoPoll, Ended
<1> QED
  BY <1>1, <1>2, <1>3, <1>4, <1>5, <1>6, <1>7, <1>8 DEF DisableStep

-----------------------------------------------------------------------------
(***************************************************************************)
(* The invariant.                                                          *)
(***************************************************************************)
LEMMA NextInv == IInv /\ [Next]_vars => IInv'
<1> SUFFICES ASSUME IInv, [Next]_vars PROVE IInv'
  OBVIOUS
<1> USE DEF IInv
<1>0. ServiceOK
  BY DEF ServiceInv
<1>1. CASE ByItself(ServiceNext)
  <2>1. Counts
    BY <1>1 DEF ByItself, ServiceNext, Enabled, Disabled, Sicken, Heal, RefreshList,
              RefreshInfo, DropEarly, UserActs, Counts
  <2>2. RunsOK'
    BY <1>1 DEF ByItself, run, RunsOK
  <2> QED
    BY <1>1, <2>1, <2>2, ServiceNextInv, CountsInv DEF ByItself
<1>2. CASE SetGoal
  <2>1. RunsOK'
    BY <1>2 DEF SetGoal, run, RunsOK
  <2>2. ServiceMoves /\ Counts
    BY <1>2 DEF SetGoal, ServiceMoves, Counts
  <2> QED
    BY <2>1, <2>2, MovesInv, CountsInv
<1>3. ASSUME NEW p \in Plays, NEW task \in {"e_list", "d_list"}, Start(p, task)
      PROVE  IInv'
  <2>1. RunsOK'
    BY <1>3, MoveOnOK DEF Start, Tasks, EnableTasks, DisableTasks
  <2>2. ServiceMoves /\ Counts
    BY <1>3 DEF Start, ServiceMoves, Counts
  <2> QED
    BY <2>1, <2>2, MovesInv, CountsInv
<1>4. ASSUME NEW p \in Plays, PlayStep(p) PROVE IInv'
  <2>1. RunsOK'
    BY <1>0, <1>4, EnableStepOK, DisableStepOK DEF PlayStep
  <2>2. ServiceMoves /\ Counts
    BY <1>4, EnableStepMoves, DisableStepMoves DEF PlayStep
  <2> QED
    BY <2>1, <2>2, MovesInv, CountsInv
<1>5. CASE UNCHANGED vars
  <2>1. RunsOK'
    BY <1>5 DEF vars, run, RunsOK
  <2>2. ServiceMoves /\ Counts
    BY <1>5 DEF vars, ServiceMoves, Counts
  <2> QED
    BY <2>1, <2>2, MovesInv, CountsInv
<1> QED
  BY <1>1, <1>2, <1>3, <1>4, <1>5 DEF Next, StartEnable, StartDisable

LEMMA Invariant == Spec => []IInv
<1>1. Init => IInv
  BY InitInv
<1>2. IInv /\ [Next]_vars => IInv'
  BY NextInv
<1> QED
  BY <1>1, <1>2, PTL DEF Spec

\* The service, its views and the registered facts of every run keep their
\* types: no run counts past cdf_enable_api_retries.
THEOREM TypeCorrect == Spec => []TypeOK
<1>1. IInv => TypeOK
  BY TypeParts DEF IInv, ServiceInv
<1> QED
  BY <1>1, Invariant, PTL

-----------------------------------------------------------------------------
(***************************************************************************)
(* What a run says at its end.                                             *)
(***************************************************************************)
\* The healthy answers a run of the enable playbook can end with.
AnswersGood(p) ==
    \/ seen[p].list = "GOOD_HEALTH"
    \/ info = "GOOD_HEALTH"

\* A step of run p that does not end it in success.
GoesOn(p) == UNCHANGED pc \/ \E task \in Tasks \ {"done"} : Goto(p, task)

LEMMA HealthyAnswers ==
    ASSUME ServiceOK, RunsOK, NEW p \in Plays,
           \/ cdf_service_healthy([seen[p] EXCEPT !.info = info])
           \/ cdf_service_healthy([seen[p] EXCEPT !.info = "NOT_FOUND"])
    PROVE  AnswersGood(p)
<1>1. seen[p] \in View
  BY DEF RunsOK, View
<1>2. /\ [seen[p] EXCEPT !.info = info].list = seen[p].list
      /\ [seen[p] EXCEPT !.info = info].info = info
      /\ [seen[p] EXCEPT !.info = "NOT_FOUND"].list = seen[p].list
      /\ [seen[p] EXCEPT !.info = "NOT_FOUND"].info = "NOT_FOUND"
  BY <1>1 DEF View
<1> QED
  BY <1>2 DEF cdf_service_healthy, Views, AnswersGood

LEMMA EnableEnds ==
    ASSUME ServiceOK, RunsOK, NEW p \in Plays, EnableStep(p)
    PROVE  GoesOn(p) \/ (AnswersGood(p) /\ Goto(p, "done"))
<1> USE DEF Tasks, EnableTasks, Ended, GoesOn
<1>1. CASE EList(p)
  BY <1>1 DEF EList, End
<1>2. CASE EInfo(p)
  <2>1. ASSUME NEW view, Decide(p, view), ~cdf_service_healthy(view)
        PROVE  GoesOn(p)
    BY <2>1 DEF Decide, End
  <2>2. ASSUME NEW view, Decide(p, view), cdf_service_healthy(view)
        PROVE  Goto(p, "done")
    BY <2>2 DEF Decide, End
  <2> QED
    BY <1>2, <2>1, <2>2, HealthyAnswers DEF EInfo
<1>3. CASE Reset(p) \/ Recover(p)
  BY <1>3 DEF Reset, Recover
<1>4. CASE PreEnable(p)
  <2>1. CASE End(p, "idle")
    BY <2>1 DEF End
  <2>2. CASE Goto(p, IF list \in {"ENABLING", "DISABLING", "GOOD_HEALTH"}
                     THEN "e_poll" ELSE "e_attempt")
    BY <2>2
  <2> QED
    BY <1>4, <2>1, <2>2 DEF PreEnable
<1>5. CASE SkipEnable(p)
  BY <1>5 DEF SkipEnable
<1>6. CASE EAttempt(p)
  BY <1>6 DEF EAttempt, Attempted, End
<1>7. CASE EPoll(p)
  BY <1>7 DEF EPoll, End, HealthyState, AnswersGood
<1> QED
  BY <1>1, <1>2, <1>3, <1>4, <1>5, <1>6, <1>7 DEF EnableStep

LEMMA DisableEnds ==
    ASSUME RunsOK, NEW p \in Plays, DisableStep(p)
    PROVE  \/ GoesOn(p)
           \/ Goto(p, "done") /\ (info = "NOT_FOUND" \/ Disturb)
<1> USE DEF Tasks, DisableTasks, Ended, GoesOn
<1>1. CASE DList(p) \/ DInfo(p) \/ DDeps(p)
  BY <1>1 DEF DList, DInfo, DDeps
<1>2. CASE TerminateDeployments(p) \/ DisableByCli(p) \/ DisableByModule(p)
  BY <1>2 DEF TerminateDeployments, DisableByCli, DisableByModule
<1>3. CASE VerifyDeployments(p) \/ NoDeployments(p)
  BY <1>3 DEF VerifyDeployments, NoDeployments, End
<1>4. CASE DListPoll(p)
  BY <1>4 DEF DListPoll, AfterListPoll, End
<1>5. CASE DInfoPoll(p)
  BY <1>5 DEF DInfoPoll, End
<1> QED
  BY <1>1, <1>2, <1>3, <1>4, <1>5 DEF DisableStep

LEMMA DifferentTasks ==
    /\ EnableTasks \cap DisableTasks = {}
    /\ "done" \notin EnableTasks \cup DisableTasks
BY DEF EnableTasks, DisableTasks

\* A step of p leaves other runs where they are.
LEMMA OnlyOne ==
    ASSUME RunsOK, NEW p \in Plays, NEW q \in Plays, pc[q] # "done", pc'[q] = "done",
           GoesOn(p) \/ Goto(p, "done")
    PROVE  p = q /\ ~GoesOn(p)
BY DEF RunsOK, GoesOn, Goto

\* Run q ends in success by a step of its own.
LEMMA SuccessByItself ==
    ASSUME ServiceOK, RunsOK, [Next]_vars, NEW q \in Plays, pc[q] # "done", pc'[q] = "done"
    PROVE  (EnableStep(q) \/ DisableStep(q)) /\ ~GoesOn(q)
<1>1. ~UNCHANGED pc
  OBVIOUS
<1>2. ~ByItself(ServiceNext) /\ ~SetGoal /\ ~UNCHANGED vars
  BY <1>1 DEF ByItself, SetGoal, vars, run
<1>3. PICK p \in Plays : StartEnable(p) \/ StartDisable(p) \/ PlayStep(p)
  BY <1>2 DEF Next
<1>4. ~StartEnable(p) /\ ~StartDisable(p)
  <2>1. \A task \in {"e_list", "d_list"} : ~Goto(p, task)
    BY DEF Goto, RunsOK
  <2> QED
    BY <2>1 DEF StartEnable, StartDisable, Start
<1>5. EnableStep(p) \/ DisableStep(p)
  BY <1>3, <1>4 DEF PlayStep
<1>6. GoesOn(p) \/ Goto(p, "done")
  BY <1>5, EnableEnds, DisableEnds
<1>7. p = q /\ ~GoesOn(p)
  BY <1>6, OnlyOne
<1> QED
  BY <1>5, <1>7

\* A step of the one playbook starts at a task of that playbook.
LEMMA StepTasks ==
    ASSUME NEW p
    PROVE  /\ EnableStep(p) => pc[p] \in EnableTasks
           /\ DisableStep(p) => pc[p] \in DisableTasks
<1>1. EnableStep(p) => pc[p] \in EnableTasks
  BY DEF EnableStep, EList, EInfo, Reset, Recover, PreEnable, SkipEnable, EAttempt, EPoll,
         EnableTasks
<1>2. DisableStep(p) => pc[p] \in DisableTasks
  BY DEF DisableStep, DList, DInfo, DDeps, TerminateDeployments, DisableByCli,
         DisableByModule, VerifyDeployments, NoDeployments, DListPoll, DInfoPoll, DisableTasks
<1> QED
  BY <1>1, <1>2

\* What df_service_info shows bounds what the service is.
LEMMA InfoTells ==
    ASSUME ServiceInv
    PROVE  /\ info = "NOT_FOUND" => svc \in {"NOT_FOUND", "ENABLING"} /\ ~deps
           /\ info = "GOOD_HEALTH" => svc \in Running \cup {"DISABLING"}
<1>1. info = "NOT_FOUND" => svc \in {"NOT_FOUND", "ENABLING"}
  BY DEF ServiceInv, InfoIsBehind, Steps
<1>2. info = "GOOD_HEALTH" => svc \in Running \cup {"DISABLING"}
  BY DEF ServiceInv, InfoIsBehind, Steps, Running
<1>3. svc \in {"NOT_FOUND", "ENABLING"} => ~deps
  BY DEF ServiceInv, DeploymentsAreServed, Running
<1> QED
  BY <1>1, <1>2, <1>3

LEMMA DisturbedCounts == ASSUME CountOK, Disturb PROVE disturbed' # disturbed
BY BoundAssumption DEF CountOK, Disturb

\* "Successfully disabled" is said only of a service that is gone, unless the
\* last read failed; "Successfully provisioned" only of one that was up: for
\* any number of runs at once, and whatever the views show late or drop early.
THEOREM SuccessTruth == Spec => SuccessIsTrue
<1>1. ASSUME IInv, [Next]_vars PROVE DisabledIsGone
  <2>1. SUFFICES ASSUME NEW q \in Plays, Succeeds(q, DisableTasks), disturbed' = disturbed
                 PROVE  svc \in {"NOT_FOUND", "ENABLING"} /\ ~deps
    BY DEF DisabledIsGone
  <2>2. pc[q] \in DisableTasks /\ pc[q] # "done" /\ pc'[q] = "done"
    BY <2>1, DifferentTasks DEF Succeeds
  <2>3. (EnableStep(q) \/ DisableStep(q)) /\ ~GoesOn(q)
    BY <1>1, <2>2, SuccessByItself DEF IInv, ServiceInv
  <2>4. DisableStep(q)
    BY <2>2, <2>3, StepTasks, DifferentTasks
  <2>5. info = "NOT_FOUND"
    BY <1>1, <2>1, <2>3, <2>4, DisableEnds, DisturbedCounts DEF IInv
  <2> QED
    BY <1>1, <2>5, InfoTells DEF IInv
<1>2. ASSUME IInv, [Next]_vars PROVE ProvisionedIsHealthy
  <2>1. SUFFICES ASSUME NEW q \in Plays, Succeeds(q, EnableTasks)
                 PROVE  \/ svc \in Running \cup {"DISABLING"}
                        \/ seen[q].list = "GOOD_HEALTH"
    BY DEF ProvisionedIsHealthy
  <2>2. pc[q] \in EnableTasks /\ pc[q] # "done" /\ pc'[q] = "done"
    BY <2>1, DifferentTasks DEF Succeeds
  <2>3. (EnableStep(q) \/ DisableStep(q)) /\ ~GoesOn(q)
    BY <1>2, <2>2, SuccessByItself DEF IInv, ServiceInv
  <2>4. EnableStep(q)
    BY <2>2, <2>3, StepTasks, DifferentTasks
  <2>5. AnswersGood(q)
    BY <1>2, <2>3, <2>4, EnableEnds DEF IInv, ServiceInv
  <2> QED
    BY <1>2, <2>5, InfoTells DEF IInv, AnswersGood
<1>3. IInv /\ [Next]_vars => [DisabledIsGone /\ ProvisionedIsHealthy]_vars
  BY <1>1, <1>2
<1> QED
  BY <1>3, Invariant, PTL DEF Spec, SuccessIsTrue
=============================================================================
