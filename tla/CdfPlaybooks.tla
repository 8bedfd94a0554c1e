---------------------------- MODULE CdfPlaybooks ----------------------------
(***************************************************************************)
(* enable-cdf.yml and disable-cdf.yml (cdp-data-services), runs of which   *)
(* are started by the pipelines.  Several may run at once against the same *)
(* service: another job of the agent, or the same service named twice in   *)
(* ENABLE_DATA_SERVICES.                                                   *)
(*                                                                         *)
(* A run reads the two views one after the other, decides which tasks it   *)
(* has to do, does them in order, and polls.  A task that does nothing but *)
(* print is left out.  A task that waits (wait: true, the two polls, the   *)
(* pauses) takes any time, and may run out of its retries at any time.     *)
(***************************************************************************)
EXTENDS CdfService, FiniteSets

CONSTANTS
    Plays,      \* the runs of playbooks there can be at once
    Attempts    \* cdf_enable_api_retries

ASSUME AttemptsAssumption == Attempts \in Nat \ {0}

VARIABLES
    goal,       \* what the operator wants for good: "none" while undecided
    pc,         \* the task of each run
    seen,       \* what each run has read: cdf_list_state, cdf_info_state
    todo,       \* the tasks of each run whose conditions hold
    attempt     \* cdf_enable_attempt

run == <<pc, seen, todo, attempt>>
vars == <<service, disturbed, goal, run>>

EnableTasks == {"e_list", "e_info", "e_work", "e_attempt", "e_poll"}
DisableTasks == {"d_list", "d_info", "d_deps", "d_work", "d_list_poll", "d_info_poll"}
Ended == {"idle", "done"}   \* not yet or in failure; in success
Todo == {"reset", "recover", "enable", "terminate", "disable", "module", "verify"}

Nothing == [list |-> "NOT_FOUND", info |-> "NOT_FOUND"]

TypeOK ==
    /\ ServiceTypeOK
    /\ goal \in {"none", "up", "down"}
    /\ pc \in [Plays -> EnableTasks \cup DisableTasks \cup Ended]
    /\ seen \in [Plays -> [list : States, info : States]]
    /\ todo \in [Plays -> SUBSET Todo]
    /\ attempt \in [Plays -> 1 .. Attempts]

Init ==
    /\ ServiceInit
    /\ goal = "none"
    /\ pc = [p \in Plays |-> "idle"]
    /\ seen = [p \in Plays |-> Nothing]
    /\ todo = [p \in Plays |-> {}]
    /\ attempt = [p \in Plays |-> 1]

Goto(p, task) == pc' = [pc EXCEPT ![p] = task]
Sees(p, view) == seen' = [seen EXCEPT ![p] = view]
Plans(p, tasks) == todo' = [todo EXCEPT ![p] = tasks]

\* Run p ends; what it had registered is forgotten.
End(p, how) == /\ Goto(p, how) /\ Sees(p, Nothing) /\ Plans(p, {})
               /\ attempt' = [attempt EXCEPT ![p] = 1]

\* The task of p is next in todo, and done.
Does(p, task) == task \in todo[p] /\ Plans(p, todo[p] \ {task})

Quiet == UNCHANGED <<service, disturbed>>
KeepsWork == UNCHANGED <<todo, attempt>>

(***************************************************************************)
(* enable-cdf.yml.                                                         *)
(***************************************************************************)
\* Without output of the CLI from_json fails, and so does the play.
EList(p) ==
    /\ pc[p] = "e_list"
    /\ \/ /\ Sees(p, [Nothing EXCEPT !.list = list]) /\ Goto(p, "e_info")
          /\ KeepsWork /\ UNCHANGED disturbed
       \/ Disturb /\ End(p, "idle")
    /\ UNCHANGED service

Views(view) == {view.list, view.info}
cdf_service_healthy(view) == "GOOD_HEALTH" \in Views(view)
cdf_service_needs_recovery(view) == "BAD_HEALTH" \in Views(view)
cdf_skip_enable(view) == Views(view) \cap {"GOOD_HEALTH", "ENABLING", "DISABLING"} # {}

\* The reset and the recovery are done even if the enable request is skipped.
EnablePlan(view) ==
    (IF view.list = "NOT_ENABLED" THEN {"reset"} ELSE {})
    \cup (IF cdf_service_needs_recovery(view) THEN {"recover"} ELSE {})
    \cup (IF cdf_skip_enable(view) THEN {} ELSE {"enable"})

\* Decide on what the two views have shown.
Decide(p, view) ==
    IF cdf_service_healthy(view) THEN End(p, "done")
    ELSE IF "DISABLING" \in Views(view) THEN End(p, "idle")
    ELSE /\ Goto(p, "e_work") /\ Plans(p, EnablePlan(view)) /\ Sees(p, Nothing)
         /\ UNCHANGED attempt

\* A failed read of df_service_info counts as NOT_FOUND.
EInfo(p) ==
    /\ pc[p] = "e_info"
    /\ \/ Decide(p, [seen[p] EXCEPT !.info = info]) /\ UNCHANGED disturbed
       \/ Decide(p, [seen[p] EXCEPT !.info = "NOT_FOUND"]) /\ Disturb
    /\ UNCHANGED service

\* df_service, state: absent.  Its errors are ignored, and so is the end of
\* its wait: the next task may find the service in any state.
AbsentModule == \/ MakeAbsent /\ UNCHANGED disturbed
                \/ svc \in {"NOT_FOUND", "DISABLING", "ENABLING"} /\ Quiet
                \/ Disturb /\ (MakeAbsent \/ UNCHANGED service)

Reset(p) == /\ pc[p] = "e_work" /\ Does(p, "reset")
            /\ AbsentModule
            /\ UNCHANGED <<pc, seen, attempt>>

Recover(p) == /\ pc[p] = "e_work" /\ "reset" \notin todo[p] /\ Does(p, "recover")
              /\ AbsentModule
              /\ UNCHANGED <<pc, seen, attempt>>

\* describe-environment and the second look at list-services; either may fail.
PreEnable(p) ==
    /\ pc[p] = "e_work" /\ todo[p] = {"enable"}
    /\ \/ /\ Goto(p, IF list \in {"ENABLING", "DISABLING", "GOOD_HEALTH"}
                     THEN "e_poll" ELSE "e_attempt")
          /\ Plans(p, {}) /\ UNCHANGED <<seen, attempt, disturbed>>
       \/ Disturb /\ End(p, "idle")
    /\ UNCHANGED service

SkipEnable(p) == /\ pc[p] = "e_work" /\ todo[p] = {} /\ Goto(p, "e_poll")
                 /\ UNCHANGED <<seen, todo, attempt>> /\ Quiet

\* Mutant: one attempt too many.
AttemptedOnceMore(p, failed) ==
    IF attempt[p] <= Attempts
    THEN attempt' = [attempt EXCEPT ![p] = @ + 1] /\ UNCHANGED <<pc, seen, todo>>
    ELSE IF failed THEN End(p, "idle")
    ELSE /\ Goto(p, "e_poll") /\ attempt' = [attempt EXCEPT ![p] = 1]
         /\ UNCHANGED <<seen, todo>>

\* The play fails if its last attempt does.
Attempted(p, failed) ==
    IF attempt[p] < Attempts
    THEN attempt' = [attempt EXCEPT ![p] = @ + 1] /\ UNCHANGED <<pc, seen, todo>>
    ELSE IF failed THEN End(p, "idle")
    ELSE /\ Goto(p, "e_poll") /\ attempt' = [attempt EXCEPT ![p] = 1]
         /\ UNCHANGED <<seen, todo>>

\* cdf-enable-api-attempt.yml: the request is accepted, or refused because the
\* service is there (412, CONFLICT), which counts as success, or it fails, with
\* or without its effect.  Ansible evaluates the condition of a looped include
\* for every item before it runs the first included file: cdf_enable_retry_done
\* is still false then, so all attempts are made, after a success as well.
EAttempt(p) ==
    /\ pc[p] = "e_attempt"
    /\ \/ Enable /\ UNCHANGED disturbed /\ Attempted(p, FALSE)
       \/ svc # "NOT_FOUND" /\ Quiet /\ Attempted(p, FALSE)
       \/ Disturb /\ (Enable \/ UNCHANGED service) /\ Attempted(p, TRUE)

HealthyState(state) == state = "GOOD_HEALTH"

\* Wait for CDF creation.
EPoll(p) == /\ pc[p] = "e_poll"
            /\ \/ HealthyState(info) /\ End(p, "done")
               \/ ~HealthyState(info) /\ End(p, "idle")
            /\ Quiet

EnableStep(p) == \/ EList(p) \/ EInfo(p) \/ Reset(p) \/ Recover(p) \/ PreEnable(p)
                 \/ SkipEnable(p) \/ EAttempt(p) \/ EPoll(p)

(***************************************************************************)
(* disable-cdf.yml.  In every read a failed call counts as absence.        *)
(***************************************************************************)
DList(p) ==
    /\ pc[p] = "d_list" /\ Goto(p, "d_info")
    /\ \/ Sees(p, [Nothing EXCEPT !.list = list]) /\ UNCHANGED disturbed
       \/ Disturb /\ UNCHANGED seen
    /\ KeepsWork /\ UNCHANGED service

DInfo(p) ==
    /\ pc[p] = "d_info" /\ Goto(p, "d_deps")
    /\ \/ Sees(p, [seen[p] EXCEPT !.info = info]) /\ UNCHANGED disturbed
       \/ Disturb /\ UNCHANGED seen
    /\ KeepsWork /\ UNCHANGED service

cdf_current_state(view) == IF view.list # "NOT_FOUND" THEN view.list ELSE view.info
cdf_disable_in_progress(view) == "DISABLING" \in Views(view)

\* Mutant: a service in bad health is taken for one that is gone.
HealthyRequiresDisable(view) == Views(view) \cap {"GOOD_HEALTH", "ENABLING"} # {}

cdf_service_requires_disable(view) == ~(Views(view) \subseteq Gone)

\* The service CRN is known whenever a view shows a service.
cdf_needs_teardown(view, deployments) ==
    /\ ~cdf_disable_in_progress(view)
    /\ deployments \/ cdf_current_state(view) \notin Gone

cdf_skip_disable_service(view) ==
    cdf_disable_in_progress(view) \/ ~cdf_service_requires_disable(view)

DisablePlan(view, deployments) ==
    (IF deployments /\ cdf_needs_teardown(view, deployments) THEN {"terminate"} ELSE {})
    \cup (IF cdf_skip_disable_service(view) THEN {} ELSE {"disable", "module"})
    \cup (IF \/ cdf_disable_in_progress(view) \/ cdf_needs_teardown(view, deployments)
             \/ deployments
          THEN {"verify"} ELSE {})

DDeps(p) ==
    /\ pc[p] = "d_deps" /\ Goto(p, "d_work") /\ Sees(p, Nothing)
    /\ \/ Plans(p, DisablePlan(seen[p], deps)) /\ UNCHANGED disturbed
       \/ Plans(p, DisablePlan(seen[p], FALSE)) /\ Disturb
    /\ UNCHANGED <<service, attempt>>

\* A deployment that could not be terminated is left to the service.
TerminateDeployments(p) ==
    /\ pc[p] = "d_work" /\ Does(p, "terminate")
    /\ \/ Terminate /\ UNCHANGED disturbed
       \/ Disturb /\ UNCHANGED service
    /\ UNCHANGED <<pc, seen, attempt>>

\* The CLI; the module is called only if it fails.
DisableByCli(p) ==
    /\ pc[p] = "d_work" /\ "terminate" \notin todo[p] /\ "disable" \in todo[p]
    /\ \/ Disable /\ UNCHANGED disturbed /\ Plans(p, todo[p] \ {"disable", "module"})
       \/ svc \notin Running /\ Quiet /\ Plans(p, todo[p] \ {"disable"})
       \/ Disturb /\ (Disable \/ UNCHANGED service) /\ Plans(p, todo[p] \ {"disable"})
    /\ UNCHANGED <<pc, seen, attempt>>

DisableByModule(p) ==
    /\ pc[p] = "d_work" /\ todo[p] \cap {"terminate", "disable"} = {}
    /\ Does(p, "module")
    /\ AbsentModule
    /\ UNCHANGED <<pc, seen, attempt>>

\* Poll until no deployment is listed.
VerifyDeployments(p) ==
    /\ pc[p] = "d_work" /\ todo[p] = {"verify"}
    /\ \/ /\ (~deps /\ UNCHANGED disturbed) \/ Disturb
          /\ Goto(p, "d_list_poll") /\ Plans(p, {}) /\ UNCHANGED <<seen, attempt>>
       \/ deps /\ End(p, "idle") /\ UNCHANGED disturbed
    /\ UNCHANGED service

NoDeployments(p) == /\ pc[p] = "d_work" /\ todo[p] = {} /\ Goto(p, "d_list_poll")
                    /\ UNCHANGED <<seen, todo, attempt>> /\ Quiet

\* Mutant: the play ends when the service is no longer listed.
NoInfoPoll(p) == End(p, "done")

AfterListPoll(p) == Goto(p, "d_info_poll") /\ UNCHANGED <<seen, todo, attempt>>

\* Poll until a view shows no record, not even a NOT_ENABLED one.
DListPoll(p) ==
    /\ pc[p] = "d_list_poll"
    /\ \/ list = "NOT_FOUND" /\ AfterListPoll(p) /\ UNCHANGED disturbed
       \/ Disturb /\ AfterListPoll(p)
       \/ list # "NOT_FOUND" /\ End(p, "idle") /\ UNCHANGED disturbed
    /\ UNCHANGED service

DInfoPoll(p) ==
    /\ pc[p] = "d_info_poll"
    /\ \/ info = "NOT_FOUND" /\ End(p, "done") /\ UNCHANGED disturbed
       \/ Disturb /\ End(p, "done")
       \/ info # "NOT_FOUND" /\ End(p, "idle") /\ UNCHANGED disturbed
    /\ UNCHANGED service

DisableStep(p) == \/ DList(p) \/ DInfo(p) \/ DDeps(p) \/ TerminateDeployments(p)
                  \/ DisableByCli(p) \/ DisableByModule(p) \/ VerifyDeployments(p)
                  \/ NoDeployments(p) \/ DListPoll(p) \/ DInfoPoll(p)

(***************************************************************************)
(* All together.                                                           *)
(***************************************************************************)
Start(p, task) == /\ pc[p] \in Ended /\ Goto(p, task)
                  /\ UNCHANGED <<service, disturbed, goal, seen, todo, attempt>>

StartEnable(p) == goal # "down" /\ Start(p, "e_list")
StartDisable(p) == goal # "up" /\ Start(p, "d_list")

\* From now on the operator wants the service to be there, or to be gone.
SetGoal == /\ goal = "none" /\ goal' \in {"up", "down"}
           /\ UNCHANGED <<service, disturbed, run>>

PlayStep(p) == (EnableStep(p) \/ DisableStep(p)) /\ UNCHANGED goal

ByItself(Action) == Action /\ UNCHANGED <<goal, run>>

Next == \/ ByItself(ServiceNext)
        \/ SetGoal
        \/ \E p \in Plays : StartEnable(p) \/ StartDisable(p) \/ PlayStep(p)

WantedStart(p) == \/ goal = "up" /\ StartEnable(p)
                  \/ goal = "down" /\ StartDisable(p)

\* CDP carries out what it has begun and shows it at last; and some run goes on,
\* or is started by an operator who wants something for good.
Fairness ==
    /\ WF_vars(ByItself(Enabled \/ Disabled))
    /\ WF_vars(ByItself(RefreshList \/ RefreshInfo))
    /\ WF_vars(\E p \in Plays : PlayStep(p) \/ WantedStart(p))

Spec == Init /\ [][Next]_vars /\ Fairness

(***************************************************************************)
(* Properties.                                                             *)
(***************************************************************************)
Succeeds(p, tasks) == pc[p] \in tasks /\ pc'[p] = "done"

\* "Successfully disabled" is said, unless the last read failed, of a service
\* that is gone and has no deployments, or that somebody has begun to enable
\* since: however late or early the two views show it, and whoever else runs.
DisabledIsGone ==
    \A p \in Plays : Succeeds(p, DisableTasks) /\ disturbed' = disturbed
                       => svc \in {"NOT_FOUND", "ENABLING"} /\ ~deps

\* "Successfully provisioned" is said only of a service that was healthy when
\* this run read list-services, or is so now or has just stopped to be so: a
\* request that was accepted, or a conflict with another run, is not enough.
ProvisionedIsHealthy ==
    \A p \in Plays : Succeeds(p, EnableTasks)
        => svc \in Running \cup {"DISABLING"} \/ seen[p].list = "GOOD_HEALTH"

\* What a run says at its end is true.
SuccessIsTrue == [][DisabledIsGone /\ ProvisionedIsHealthy]_vars

\* An operator who keeps starting one of the playbooks gets what he wants, and
\* it lasts: two runs at once, a user of the UI, stale views, failed calls and
\* a service in bad health do not end in a circle of resets and enables, nor in
\* a service that every run takes for one that somebody else is about to remove.
GoalIsReached ==
    <>[](/\ goal = "up" => svc = "GOOD_HEALTH"
         /\ goal = "down" => svc \in Gone)
=============================================================================
