----------------------------- MODULE CdfService -----------------------------
(***************************************************************************)
(* External: the DataFlow service (CDF) of one CDP environment, as the     *)
(* playbooks enable-cdf.yml and disable-cdf.yml use it.  It works on by    *)
(* itself after a request, and is seen through two views, list-services    *)
(* and df_service_info, each of which may show it late.  A user of the     *)
(* DataFlow UI may enable and disable it, too.                             *)
(*                                                                         *)
(* A view is at most one change behind: a delay of several changes, each   *)
(* of which takes many minutes, is left out.  CONCERNING_HEALTH and        *)
(* UNKNOWN are handled as BAD_HEALTH, a detailedState as its state.        *)
(***************************************************************************)
EXTENDS Naturals

CONSTANT
    MaxDisturbances  \* bound: failed calls, failures of the service, and
                     \* actions of the user of the DataFlow UI

ASSUME BoundAssumption == MaxDisturbances \in Nat

VARIABLES
    svc,     \* the state of the service
    keep,    \* its record will be kept when it is disabled (--persist)
    list,    \* the state list-services shows, NOT_FOUND without a record
    info,    \* the state df_service_info shows
    deps,    \* there are deployments in the service
    disturbed

States == {"NOT_FOUND", "NOT_ENABLED", "ENABLING", "GOOD_HEALTH", "BAD_HEALTH",
           "DISABLING"}
Gone == {"NOT_FOUND", "NOT_ENABLED"}
Running == {"GOOD_HEALTH", "BAD_HEALTH"}

ServiceTypeOK ==
    /\ svc \in States /\ list \in States /\ info \in States
    /\ keep \in BOOLEAN /\ deps \in BOOLEAN
    /\ disturbed \in 0 .. MaxDisturbances

ServiceInit ==
    /\ svc \in Gone \cup Running
    /\ list = svc /\ info = svc
    /\ keep = FALSE
    /\ deps \in BOOLEAN /\ (svc \in Gone => ~deps)
    /\ disturbed = 0

Disturb == disturbed < MaxDisturbances /\ disturbed' = disturbed + 1

\* The service goes to state s, and each view shows that now or later.
Change(s) ==
    /\ svc' = s
    /\ list' \in {svc, s}
    /\ info' \in {svc, s}
    /\ deps' = (deps /\ s \notin Gone)

service == <<svc, keep, list, info, deps>>

(***************************************************************************)
(* Requests.                                                               *)
(***************************************************************************)
\* A second enable is a conflict; a stale record may be one, too (412).
Enable == svc \in Gone /\ Change("ENABLING") /\ UNCHANGED keep

\* disable-service --no-persist --terminate-deployments.
Disable == svc \in Running \cup {"ENABLING"} /\ Change("DISABLING") /\ keep' = FALSE

\* df_service, state: absent: it removes a stale record as well.
MakeAbsent == \/ Disable
              \/ svc = "NOT_ENABLED" /\ Change("NOT_FOUND") /\ UNCHANGED keep

Terminate == deps' = FALSE /\ UNCHANGED <<svc, keep, list, info>>

(***************************************************************************)
(* What happens by itself.                                                 *)
(***************************************************************************)
Enabled == svc = "ENABLING" /\ Change("GOOD_HEALTH") /\ UNCHANGED <<keep, disturbed>>

Disabled ==
    /\ svc = "DISABLING"
    /\ Change(IF keep THEN "NOT_ENABLED" ELSE "NOT_FOUND")
    /\ keep' = FALSE
    /\ UNCHANGED disturbed

\* Enabling fails, or a service that works gets into trouble.
Sicken == /\ svc \in {"ENABLING", "GOOD_HEALTH"}
          /\ Change("BAD_HEALTH") /\ Disturb /\ UNCHANGED keep

Heal == svc = "BAD_HEALTH" /\ Change("GOOD_HEALTH") /\ UNCHANGED <<keep, disturbed>>

RefreshList == /\ list # svc /\ list' = svc
               /\ UNCHANGED <<svc, keep, info, deps, disturbed>>

RefreshInfo == /\ info # svc /\ info' = svc
               /\ UNCHANGED <<svc, keep, list, deps, disturbed>>

\* list-services may drop a service before it is gone.
DropEarly == /\ svc = "DISABLING" /\ list # "NOT_FOUND" /\ list' = "NOT_FOUND"
             /\ UNCHANGED <<svc, keep, info, deps, disturbed>>

UserActs ==
    /\ Disturb
    /\ \/ Enable
       \/ svc \in Running /\ Change("DISABLING") /\ keep' \in BOOLEAN
       \/ svc = "GOOD_HEALTH" /\ deps' = TRUE /\ UNCHANGED <<svc, keep, list, info>>

ServiceNext == \/ Enabled \/ Disabled \/ Sicken \/ Heal
               \/ RefreshList \/ RefreshInfo \/ DropEarly \/ UserActs
=============================================================================
