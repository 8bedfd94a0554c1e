--------------------------- MODULE EphemeralRunner ---------------------------
(* ClusterValidation: the launcher (launcher/container/launcher.py) creates a *)
(* one-shot EC2 runner and hands it off; the smoke test driver                *)
(* (smoke-tests/container/smoke.py) uses the runner and tears it down.        *)
(* A call to AWS can be refused (ClientError), or its reply can be lost       *)
(* (another exception) with or without its effect. Either process can be      *)
(* killed. Time is counted in units of 5 seconds, and only the sleeps of the  *)
(* launch loop advance it.                                                    *)
EXTENDS Naturals, FiniteSets

CONSTANTS
    PropagationTimeout, \* IAM_PROPAGATION_TIMEOUT_S, in units
    Lags,               \* delays until a new instance profile is usable, in units
    SgAttempts,         \* attempts to delete the security group
    EniLag,             \* attempts refused at most because the network
                        \* interface of a terminated instance is still there
    MaxFaults           \* bound: failed calls, failed starts and kills

ASSUME TimeoutAssumption == PropagationTimeout \in Nat /\ Lags \subseteq Nat
ASSUME AttemptsAssumption == SgAttempts \in Nat /\ EniLag \in Nat /\ EniLag < SgAttempts
ASSUME MaxFaultsAssumption == MaxFaults \in Nat

VARIABLES
    pc,       \* the step the running process is at, "idle" when none runs
    outcome,  \* how the last process ended
    aws,      \* what exists in the account
    eni,      \* deletions of the group that AWS will still refuse
    lag,      \* time until the instance profile is usable
    slept,    \* time since the first call of run_instances
    delay,    \* the next sleep of its retry loop
    known,    \* Launcher._created, later the identifiers of the handoff
    handoff,  \* the handoff document has been written
    attempts, \* deletions of the security group tried in this clean-up
    lost,     \* resources whose create call took effect and did not return
    clean,    \* no call of the current clean-up has failed by a fault
    faults

timing  == <<lag, slept, delay>>
account == <<aws, eni, known, lost>>
vars    == <<pc, outcome, aws, eni, lag, slept, delay, known, handoff, attempts,
             lost, clean, faults>>

Recorded == {"role", "profile", "sg", "instance"}
\* "policy": the managed policy is attached to the role; "member": the role is
\* in the instance profile.
Things   == Recorded \cup {"policy", "member"}

LaunchSteps  == {"preflight", "role", "policy", "profile", "member", "sg",
                 "instance", "online", "emit"}
CleanUpSteps == {"terminate", "remove", "del_profile", "detach", "del_role", "del_sg"}
DriverSteps  == {"configure", "probe", "report"}
Outcomes     == {"none", "launched", "rolled_back", "aborted", "not_started",
                 "torn_down", "killed"}
MaxDelay     == 4   \* min(delay * 2, 20)

TypeOK ==
    /\ pc \in {"new", "idle"} \cup LaunchSteps \cup CleanUpSteps \cup DriverSteps
    /\ outcome \in Outcomes
    /\ aws \in [Things -> BOOLEAN]
    /\ eni \in 0..EniLag /\ attempts \in 0..SgAttempts
    /\ lag \in Lags \cup {0} /\ delay \in 1..MaxDelay
    /\ slept \in 0..(PropagationTimeout + MaxDelay)
    /\ known \subseteq Recorded /\ lost \subseteq Things
    /\ handoff \in BOOLEAN /\ clean \in BOOLEAN
    /\ faults \in 0..MaxFaults

Init ==
    /\ pc = "new" /\ outcome = "none"
    /\ aws = [t \in Things |-> FALSE] /\ eni = 0
    /\ lag = 0 /\ slept = 0 /\ delay = 1
    /\ known = {} /\ lost = {} /\ handoff = FALSE
    /\ attempts = 0 /\ clean = TRUE
    /\ faults = 0

Fault == faults < MaxFaults /\ faults' = faults + 1

Exit(result) == pc' = "idle" /\ outcome' = result

\* rollback() or teardown() is entered.
CleanUp == pc' = "terminate" /\ attempts' = 0 /\ clean' = TRUE

-----------------------------------------------------------------------------
(* The launcher.                                                             *)

StartLauncher ==
    /\ pc = "new" /\ pc' = "preflight"
    /\ UNCHANGED <<outcome, account, timing, handoff, attempts, clean, faults>>

\* preflight() only reads; a bad subnet (SystemExit) or a failed call ends in
\* rollback() with nothing recorded.
Preflight ==
    /\ pc = "preflight"
    /\ \/ pc' = "role" /\ UNCHANGED <<attempts, clean, faults>>
       \/ CleanUp /\ Fault
    /\ UNCHANGED <<outcome, account, timing, handoff>>

\* One create call of launch(): it returns and is recorded, or it raises, with
\* or without its effect, and main() rolls back.
Create(t, next) ==
    /\ pc = t
    /\ \/ /\ aws' = [aws EXCEPT ![t] = TRUE]
          /\ known' = known \cup ({t} \cap Recorded)
          /\ pc' = next
          /\ UNCHANGED <<lost, attempts, clean, faults>>
       \/ /\ Fault /\ CleanUp
          /\ \/ aws' = [aws EXCEPT ![t] = TRUE] /\ lost' = lost \cup {t}
             \/ UNCHANGED <<aws, lost>>
          /\ UNCHANGED known
    /\ UNCHANGED <<outcome, eni, handoff>>

CreateIam ==
    \/ Create("role", "policy") /\ UNCHANGED timing
    \/ Create("policy", "profile") /\ UNCHANGED timing
    \/ Create("profile", "member") /\ lag' \in Lags /\ UNCHANGED <<slept, delay>>

\* Variant: a failing add_role_to_instance_profile is swallowed.
AddRoleUnchecked ==
    /\ pc = "member" /\ pc' = "sg"
    /\ \/ aws' = [aws EXCEPT !["member"] = TRUE] /\ UNCHANGED faults
       \/ Fault /\ UNCHANGED aws
    /\ UNCHANGED <<outcome, eni, known, lost, timing, handoff, attempts, clean>>

AddRole == Create("member", "sg") /\ UNCHANGED timing

CreateSecurityGroup == Create("sg", "instance") /\ UNCHANGED timing

\* Variant: the retry loop does not look at its deadline.
RetryWithoutDeadline ==
    /\ pc = "instance" /\ slept < lag
    /\ slept' = slept + delay
    /\ delay' = IF delay * 2 < MaxDelay THEN delay * 2 ELSE MaxDelay
    /\ UNCHANGED <<pc, outcome, account, lag, handoff, attempts, clean, faults>>

\* _run_instance while the new profile is not visible to EC2: sleep and retry
\* up to the deadline, then raise.
RetryRunInstance ==
    /\ pc = "instance" /\ slept < lag
    /\ \/ /\ slept < PropagationTimeout
          /\ slept' = slept + delay
          /\ delay' = IF delay * 2 < MaxDelay THEN delay * 2 ELSE MaxDelay
          /\ UNCHANGED <<pc, attempts, clean>>
       \/ /\ slept >= PropagationTimeout
          /\ CleanUp /\ UNCHANGED <<slept, delay>>
    /\ UNCHANGED <<outcome, account, lag, handoff, faults>>

RunInstance == slept >= lag /\ Create("instance", "online") /\ UNCHANGED timing

\* _wait_ssm_online returns, or gives up or fails and the launch is rolled back.
WaitOnline ==
    /\ pc = "online"
    /\ \/ pc' = "emit" /\ UNCHANGED <<attempts, clean, faults>>
       \/ CleanUp /\ Fault
    /\ UNCHANGED <<outcome, account, timing, handoff>>

EmitHandoff ==
    /\ pc = "emit"
    /\ handoff' = TRUE
    /\ Exit("launched")
    /\ UNCHANGED <<account, timing, attempts, clean, faults>>

-----------------------------------------------------------------------------
(* The driver.                                                               *)

\* The handoff is in a file, so the operator may run the driver again.
StartDriver ==
    /\ pc = "idle" /\ handoff
    /\ pc' = "configure"
    /\ UNCHANGED <<outcome, account, timing, handoff, attempts, clean, faults>>

\* read_handoff and SmokeDriver.__init__: a missing setting or expired
\* credentials end the process with sys.exit, before any teardown.
Configure ==
    /\ pc = "configure"
    /\ \/ pc' = "probe" /\ UNCHANGED <<outcome, faults>>
       \/ Exit("not_started") /\ Fault
    /\ UNCHANGED <<account, timing, handoff, attempts, clean>>

\* run_probe returns a result, or raises and the runner is torn down.
RunProbe ==
    /\ pc = "probe"
    /\ \/ aws["instance"] /\ pc' = "report" /\ UNCHANGED <<attempts, clean, faults>>
       \/ aws["instance"] /\ CleanUp /\ Fault
       \/ ~aws["instance"] /\ CleanUp /\ UNCHANGED faults
    /\ UNCHANGED <<outcome, account, timing, handoff>>

\* write_reports returns or raises; "finally" tears down in both cases.
WriteReports ==
    /\ pc = "report"
    /\ CleanUp
    /\ UNCHANGED <<outcome, account, timing, handoff, faults>>

-----------------------------------------------------------------------------
(* Launcher.rollback and SmokeDriver.teardown: the same calls in the same     *)
(* order, over the recorded identifiers.                                      *)

\* A call of the clean-up that AWS accepts when can holds, and that then makes
\* the things in gone disappear. A ClientError is caught and the next call
\* follows; any other exception leaves the clean-up.
Delete(step, recorded, can, gone, next) ==
    /\ pc = step
    /\ LET after == [t \in Things |-> aws[t] /\ t \notin gone] IN
       \/ recorded \notin known /\ pc' = next /\ UNCHANGED <<aws, outcome, clean, faults>>
       \/ /\ recorded \in known
          /\ \/ aws' = (IF can THEN after ELSE aws) /\ pc' = next
                /\ UNCHANGED <<outcome, clean, faults>>
             \/ pc' = next /\ clean' = FALSE /\ Fault /\ UNCHANGED <<aws, outcome>>
             \/ aws' \in {aws, IF can THEN after ELSE aws}
                /\ Exit("aborted") /\ clean' = FALSE /\ Fault

\* terminate_instances and the instance_terminated waiter, whose WaiterError is
\* not a ClientError. The group is in use for some time after.
TerminateInstance ==
    /\ Delete("terminate", "instance", TRUE, {"instance"}, "remove")
    /\ eni' \in IF aws["instance"] /\ ~aws'["instance"] THEN 0..EniLag ELSE {eni}
    /\ UNCHANGED <<known, lost, timing, handoff, attempts>>

\* Variant: the role is not taken out of the profile.
RemoveRoleForgotten ==
    /\ Delete("remove", "profile", TRUE, {}, "del_profile")
    /\ UNCHANGED <<eni, known, lost, timing, handoff, attempts>>

\* Variant: an error of remove_role_from_instance_profile, a profile already
\* gone included, leaves the clean-up.
RemoveRoleStrict ==
    /\ pc = "remove"
    /\ IF "profile" \in known /\ ~aws["member"]
          THEN Exit("aborted") /\ clean' = FALSE /\ UNCHANGED <<aws, faults>>
          ELSE Delete("remove", "profile", TRUE, {"member"}, "del_profile")
    /\ UNCHANGED <<eni, known, lost, timing, handoff, attempts>>

RemoveRole ==
    /\ Delete("remove", "profile", TRUE, {"member"}, "del_profile")
    /\ UNCHANGED <<eni, known, lost, timing, handoff, attempts>>

\* Refused while the profile holds the role.
DeleteProfile ==
    /\ Delete("del_profile", "profile", ~aws["member"], {"profile"}, "detach")
    /\ UNCHANGED <<eni, known, lost, timing, handoff, attempts>>

DetachPolicy ==
    /\ Delete("detach", "role", TRUE, {"policy"}, "del_role")
    /\ UNCHANGED <<eni, known, lost, timing, handoff, attempts>>

\* Refused while the role is in a profile or has a policy.
DeleteRole ==
    /\ Delete("del_role", "role", ~aws["member"] /\ ~aws["policy"], {"role"}, "del_sg")
    /\ UNCHANGED <<eni, known, lost, timing, handoff, attempts>>

\* Variant: "while True" instead of "for attempt in range(5)".
DeleteSecurityGroupForever ==
    /\ pc = "del_sg"
    /\ \/ /\ aws["sg"] /\ (aws["instance"] \/ eni > 0)
          /\ eni' = (IF eni > 0 THEN eni - 1 ELSE eni)
          /\ UNCHANGED <<pc, outcome, aws>>
       \/ /\ ~(aws["sg"] /\ (aws["instance"] \/ eni > 0))
          /\ aws' = [aws EXCEPT !["sg"] = FALSE]
          /\ Exit(IF handoff THEN "torn_down" ELSE "rolled_back") /\ UNCHANGED eni
    /\ UNCHANGED <<known, lost, timing, handoff, attempts, clean, faults>>

\* delete_security_group in a loop of SgAttempts: refused while an instance or
\* what is left of its network interface uses the group, or by a fault.
DeleteSecurityGroup ==
    /\ pc = "del_sg"
    /\ LET ended   == Exit(IF handoff THEN "torn_down" ELSE "rolled_back")
           tries   == "sg" \in known /\ attempts < SgAttempts
           refused == aws["instance"] \/ eni > 0
       IN \/ ~tries /\ ended /\ UNCHANGED <<aws, eni, attempts, clean, faults>>
          \/ /\ tries /\ aws["sg"] /\ ~refused
             /\ aws' = [aws EXCEPT !["sg"] = FALSE] /\ ended
             /\ UNCHANGED <<eni, attempts, clean, faults>>
          \/ /\ tries /\ (refused \/ ~aws["sg"])
             /\ attempts' = attempts + 1
             /\ eni' = (IF eni > 0 THEN eni - 1 ELSE eni)
             /\ UNCHANGED <<pc, outcome, aws, clean, faults>>
          \/ /\ tries /\ Fault /\ clean' = FALSE
             /\ \/ attempts' = attempts + 1 /\ UNCHANGED <<pc, outcome, aws>>
                \/ /\ aws' \in {aws, IF refused THEN aws ELSE [aws EXCEPT !["sg"] = FALSE]}
                   /\ Exit("aborted") /\ UNCHANGED attempts
             /\ UNCHANGED eni
    /\ UNCHANGED <<known, lost, timing, handoff>>

-----------------------------------------------------------------------------
\* The container is stopped, or the user interrupts it: KeyboardInterrupt is
\* not an Exception, so nothing is cleaned up.
Kill ==
    /\ pc \notin {"new", "idle"}
    /\ Fault /\ Exit("killed")
    /\ UNCHANGED <<account, timing, handoff, attempts, clean>>

Launch ==
    \/ Preflight \/ CreateIam \/ AddRole \/ CreateSecurityGroup
    \/ RetryRunInstance \/ RunInstance \/ WaitOnline \/ EmitHandoff

Drive == Configure \/ RunProbe \/ WriteReports

Undo ==
    \/ TerminateInstance \/ RemoveRole \/ DeleteProfile \/ DetachPolicy
    \/ DeleteRole \/ DeleteSecurityGroup

Next == StartLauncher \/ StartDriver \/ Launch \/ Drive \/ Undo \/ Kill

Existing == {t \in Things : aws[t]}

\* A started process goes on, and an operator who holds a handoff runs the
\* driver again while something of it is left.
Fairness ==
    /\ WF_vars(Launch) /\ WF_vars(Drive) /\ WF_vars(Undo)
    /\ WF_vars(Existing # {} /\ StartDriver)

Spec == Init /\ [][Next]_vars /\ Fairness

-----------------------------------------------------------------------------
(* Properties.                                                               *)

\* The handoff "contains every identifier required to use the runner and to
\* tear it down later" (launcher.py): when the launcher exits with success all
\* four resources are recorded, exist, and are wired to each other.
HandoffIsComplete ==
    pc = "idle" /\ outcome = "launched" => known = Recorded /\ Existing = Things

\* A rollback or teardown in which no call fails leaves nothing behind but what
\* the launcher never learned the name of, and the group such an instance
\* uses; the order of its calls is one AWS accepts, from every partial launch
\* and after every partial clean-up.
CleanUpLeavesNothing ==
    pc = "idle" /\ outcome \in {"rolled_back", "torn_down"} /\ clean =>
        Existing \subseteq lost \cup (IF "instance" \in lost THEN {"sg"} ELSE {})

\* Both processes end: no retry loop runs for ever.
Terminates == pc \notin {"new", "idle"} ~> pc = "idle"

\* "Always safe to call" (SmokeDriver.teardown): running the driver again on the
\* same handoff ends with the runner gone, whatever earlier runs left.
HandoffIsTornDown == handoff ~> Existing = {}

-----------------------------------------------------------------------------
(* What the repository says and the code does not do.                        *)

\* smoke-tests/README.adoc: "Teardown always runs, even on failure, using the
\* identifiers in the handoff."
TeardownAlwaysRuns ==
    pc = "idle" /\ outcome = "not_started" => Existing = {}
=============================================================================
