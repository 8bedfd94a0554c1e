----------------------------- MODULE HolPipeline -----------------------------
(* The AWS provisioner container (OnCloud/AWS/build/entrypoint): runs of     *)
(* docker-entrypoint.sh, "provision" or "destroy", one after the other, over *)
(* the two things that outlive a run: the cloud account and the workshop's   *)
(* directory /userconfig/.<workshop>, which holds the Terraform states.      *)
(* A run may fail at any call it makes to the cloud and may be killed        *)
(* between any two steps (Jenkins aborts a build with "docker rm -f").       *)
EXTENDS Naturals, FiniteSets

CONSTANTS
    Configs,    \* the configfiles considered, a set of records (see ConfigType)
    Services,   \* data services named by ENABLE_DATA_SERVICES
    Silent,     \* services whose disable playbook may report success although
                \* the service is still there (its reads of CDP failed)
    MaxFaults   \* bound: failed calls, kills and late Data Hubs in a behaviour

ConfigType == [keycloak: BOOLEAN,   \* PROVISION_KEYCLOAK
               ownKey: BOOLEAN,     \* AWS_KEY_PAIR is given
               caii: BOOLEAN,       \* PROVISION_CAII
               deleteHubs: BOOLEAN] \* DELETE_DATAHUBS

ASSUME ConfigsAssumption == Configs \subseteq ConfigType
ASSUME ServicesAssumption == Silent \subseteq Services /\ "caii" \notin Services
ASSUME MaxFaultsAssumption == MaxFaults \in Nat

VARIABLES
    cfg,        \* the configfile of this workshop
    pc,         \* the step the running container is at, "idle" when none runs
    jobs,       \* its background jobs
    keyName,    \* $aws_key_pair in the running container ("unset": empty)
    outcome,    \* how the last run ended
    cloud,      \* what exists in the cloud, per Terraform stack
    dns,        \* the Route53 record of the workshop exists
    services,   \* data services (and "caii") alive in the CDP environment
    hubs,       \* Data Hub clusters are alive in the CDP environment
    leftovers,  \* network interfaces, Elastic IPs or load balancers of a data
                \* service that is gone are still in the workshop's VPC
    idp,        \* the CDP SAML provider and users of the workshop exist
    dir,        \* Terraform directories in the workshop's directory
    owned,      \* stacks whose Terraform state there lists cloud resources
    pem,        \* keypair_gen holds a generated private key file
    flag,       \* keypair_gen/keypair_generated.flag says true
    ip,         \* the keycloak_ip file exists
    delivered,  \* a provision run succeeded and no destroy run started since
    retired,    \* the operator has decided to repeat destroy until it succeeds
    faults

run   == <<jobs, keyName>>
cdp   == <<services, hubs, leftovers, idp>>
keyFiles == <<pem, flag>>
tf    == <<cloud, dir, owned>>
intent == <<delivered, retired>>
vars  == <<cfg, pc, jobs, keyName, outcome, cloud, dns, services, hubs, leftovers,
           idp, dir, owned, pem, flag, ip, delivered, retired, faults>>

Stacks   == {"keypair", "keycloak", "env", "enh"}
Extent   == {"absent", "partial", "instance", "full"}
Job      == {"caii", "services", "datahubs"}
JobState == {"none", "running", "ok", "failed"}
NoJobs   == [j \in Job |-> "none"]
Outcomes == {"none", "provisioned", "provision_failed", "destroyed",
             "destroy_failed", "killed"}

ProvisionSteps == {"validate", "keypair", "key_record", "keycloak", "kc_apply",
                   "kc_ip", "kc_dns", "rb_kc", "cdp", "rb_cdp", "rb_cdp_kc",
                   "roles", "enh", "idp", "services"}
DestroySteps   == {"d_validate", "d_caii", "d_fork", "d_join", "d_idp", "d_kc",
                   "d_enh", "d_cdp", "d_key", "d_rm"}

FlagsOK ==
    /\ dns \in BOOLEAN /\ hubs \in BOOLEAN /\ leftovers \in BOOLEAN /\ idp \in BOOLEAN
    /\ pem \in BOOLEAN /\ flag \in BOOLEAN /\ ip \in BOOLEAN
    /\ delivered \in BOOLEAN /\ retired \in BOOLEAN

StateOK ==
    /\ cfg \in Configs
    /\ pc \in {"idle"} \cup ProvisionSteps \cup DestroySteps
    /\ jobs \in [Job -> JobState]
    /\ keyName \in {"unset", "own", "generated"}
    /\ outcome \in Outcomes
    /\ cloud \in [Stacks -> Extent]
    /\ services \subseteq Services \cup {"caii"}
    /\ dir \subseteq Stacks
    /\ owned \subseteq dir
    /\ faults \in 0..MaxFaults

TypeOK == StateOK /\ FlagsOK

Init ==
    /\ cfg \in Configs
    /\ pc = "idle" /\ jobs = NoJobs /\ keyName = "unset" /\ outcome = "none"
    /\ cloud = [s \in Stacks |-> "absent"]
    /\ dns = FALSE /\ services = {} /\ hubs = FALSE /\ leftovers = FALSE /\ idp = FALSE
    /\ dir = {} /\ owned = {} /\ pem = FALSE /\ flag = FALSE /\ ip = FALSE
    /\ delivered = FALSE /\ retired = FALSE
    /\ faults = 0

-----------------------------------------------------------------------------
(* Building blocks.                                                          *)

\* A call to the cloud fails, or the container is killed.
Fault == faults < MaxFaults /\ faults' = faults + 1

Goto(step) == pc' = step /\ UNCHANGED outcome

\* hol_fail and its callers: the container exits.
Exit(result) == pc' = "idle" /\ outcome' = result

\* terraform apply on stack s leaves it at extent e; whatever was created is in
\* the state file.
Apply(s, e) ==
    /\ cloud' = [cloud EXCEPT ![s] = e]
    /\ dir' = dir \cup {s}
    /\ owned' = IF e = "absent" THEN owned ELSE owned \cup {s}

\* terraform destroy on stack s fails and leaves extent e.
Leave(s, e) == cloud' = [cloud EXCEPT ![s] = e] /\ UNCHANGED <<dir, owned>>

\* Variant: the directory goes and the caller goes on counting on its state.
RemoveDirectoryOnly(s) ==
    /\ cloud' = IF s \in owned THEN [cloud EXCEPT ![s] = "absent"] ELSE cloud
    /\ owned' = owned
    /\ dir' = dir \ {s}

\* terraform destroy on stack s succeeds and its directory is removed.
Remove(s) ==
    /\ cloud' = IF s \in owned THEN [cloud EXCEPT ![s] = "absent"] ELSE cloud
    /\ owned' = owned \ {s}
    /\ dir' = dir \ {s}

\* What a failed destroy of the Keycloak stack can leave: the Elastic IP goes
\* first, then the instance, then the security group.
Remains(e) == CASE e = "full"     -> {"full", "instance", "partial"}
                [] e = "instance" -> {"instance", "partial"}
                [] OTHER          -> {e}

\* An instance can be created with the key pair name this run uses.
KeyUsable == keyName = "generated" => cloud["keypair"] = "full"

\* Nothing outside the CDP Terraform stack holds on to its resources: no policy,
\* data service or Data Hub, and nothing in the VPC that keeps its subnets or its
\* internet gateway (destroy_cdp prepares no VPC: hol-functions.sh has a function
\* for it that is never called).
EnvUnblocked == cloud["enh"] = "absent" /\ services = {} /\ ~hubs /\ ~leftovers

\* A data service that is removed may leave resources behind in the VPC.
LeaveBehind == UNCHANGED leftovers \/ (services' # services /\ leftovers' = TRUE)

-----------------------------------------------------------------------------
(* The operator, the workshop's participants and the Jenkins agent.          *)

StartProvision ==
    /\ pc = "idle" /\ ~retired
    /\ Goto("validate")
    /\ keyName' = "unset"
    /\ UNCHANGED <<cfg, jobs, cdp, tf, dns, keyFiles, ip, intent, faults>>

StartDestroy ==
    /\ pc = "idle"
    /\ Goto("d_validate")
    /\ keyName' = "unset"
    /\ delivered' = FALSE
    /\ UNCHANGED retired \/ retired' = TRUE
    /\ UNCHANGED <<cfg, jobs, cdp, tf, dns, keyFiles, ip, faults>>

\* A participant creates a Data Hub. While the workshop is being destroyed this
\* counts as a fault: it is somebody's late action.
CreateHub ==
    /\ cloud["env"] = "full" /\ ~hubs
    /\ hubs' = TRUE
    /\ IF pc \in DestroySteps \/ retired THEN Fault ELSE UNCHANGED faults
    /\ UNCHANGED <<cfg, pc, outcome, run, services, leftovers, idp, tf, dns, keyFiles, ip, intent>>

\* The operator removes by hand what data services have left in the VPC. Nobody
\* is bound to.
RemoveLeftovers ==
    /\ pc = "idle" /\ leftovers
    /\ leftovers' = FALSE
    /\ UNCHANGED <<cfg, pc, outcome, run, services, hubs, idp, tf, dns, keyFiles, ip, intent, faults>>

\* docker rm -f: the container and its background jobs are gone.
Kill ==
    /\ pc # "idle"
    /\ Fault
    /\ Exit("killed")
    /\ jobs' = NoJobs
    /\ UNCHANGED <<cfg, keyName, cdp, tf, dns, keyFiles, ip, intent>>

-----------------------------------------------------------------------------
(* docker-entrypoint.sh provision.                                           *)

\* validating_variables, key_pair_file, aws_prereq and cdp_prereq only read;
\* any of them may end the run (bad configfile, no quota).
ValidateProvision ==
    /\ pc = "validate"
    /\ \/ Goto("keypair") /\ UNCHANGED faults
       \/ Exit("provision_failed") /\ Fault
    /\ UNCHANGED <<cfg, run, cdp, tf, dns, keyFiles, ip, intent>>

\* check_key_pair when there is nothing to generate.
UseKeyPair ==
    /\ pc = "keypair"
    /\ \/ cfg.ownKey /\ keyName' = "own"
       \/ ~cfg.ownKey /\ pem /\ keyName' = "generated"
    /\ Goto("keycloak")
    /\ UNCHANGED <<cfg, jobs, cdp, tf, dns, keyFiles, ip, intent, faults>>

\* generate_keypair: terraform writes the private key file and imports the
\* public key into EC2 under the name <workshop>-keypair.
GenerateKeyPair ==
    /\ pc = "keypair" /\ ~cfg.ownKey /\ ~pem
    /\ cloud["keypair"] = "absent"
    /\ Apply("keypair", "full")
    /\ pem' = TRUE
    /\ Goto("key_record")
    /\ UNCHANGED <<cfg, run, cdp, dns, flag, ip, intent, faults>>

\* ... which fails in terraform init, or in EC2 (always when another key pair
\* has the name) with the file already written. check_key_pair drops the
\* return code and the run goes on with no key pair name.
GenerateKeyPairFails ==
    /\ pc = "keypair" /\ ~cfg.ownKey /\ ~pem
    /\ \/ Fault /\ (UNCHANGED pem \/ pem' = TRUE)
       \/ cloud["keypair"] = "full" /\ pem' = TRUE /\ UNCHANGED faults
    /\ dir' = dir \cup {"keypair"}
    /\ Goto("keycloak")
    /\ UNCHANGED <<cfg, run, cdp, cloud, owned, dns, flag, ip, intent>>

\* The output is read and the flag is stored.
RecordKeyPair ==
    /\ pc = "key_record"
    /\ keyName' = "generated" /\ flag' = TRUE
    /\ Goto("keycloak")
    /\ UNCHANGED <<cfg, jobs, cdp, tf, dns, pem, ip, intent, faults>>

\* hol_keycloak_already_provisioned: the saved IP file, else the elastic_ip
\* output of the Terraform state (which is then saved).
KeycloakAlreadyProvisioned ==
    ip \/ ("keycloak" \in owned /\ cloud["keycloak"] = "full")

SkipKeycloak ==
    /\ pc = "keycloak"
    /\ \/ ~cfg.keycloak /\ UNCHANGED ip
       \/ cfg.keycloak /\ KeycloakAlreadyProvisioned /\ ip' = TRUE
    /\ Goto("cdp")
    /\ UNCHANGED <<cfg, run, cdp, tf, dns, keyFiles, intent, faults>>

\* setup_keycloak_ec2 copies its Terraform directory and makes the wildcard
\* certificate.
PrepareKeycloak ==
    /\ pc = "keycloak" /\ cfg.keycloak /\ ~KeycloakAlreadyProvisioned
    /\ dir' = dir \cup {"keycloak"}
    /\ \/ Goto("kc_apply") /\ UNCHANGED faults
       \/ Exit("provision_failed") /\ Fault
    /\ UNCHANGED <<cfg, run, cdp, cloud, owned, dns, keyFiles, ip, intent>>

ApplyKeycloak ==
    /\ pc = "kc_apply"
    /\ cloud["keycloak"] \in {"absent", "partial"}
    /\ \/ KeyUsable /\ Apply("keycloak", "full") /\ Goto("kc_ip") /\ UNCHANGED faults
       \/ /\ \E e \in {cloud["keycloak"], "partial"} \cup
                      (IF KeyUsable THEN {"instance"} ELSE {}) : Apply("keycloak", e)
          /\ Goto("rb_kc")
          /\ IF KeyUsable THEN Fault ELSE UNCHANGED faults
    /\ UNCHANGED <<cfg, run, cdp, dns, keyFiles, ip, intent>>

\* The state lists the instance but has no elastic_ip: apply is skipped and the
\* missing address ends the run.
KeycloakWithoutAddress ==
    /\ pc = "kc_apply" /\ cloud["keycloak"] = "instance"
    /\ Exit("provision_failed")
    /\ UNCHANGED <<cfg, run, cdp, tf, dns, keyFiles, ip, intent, faults>>

SaveKeycloakIp ==
    /\ pc = "kc_ip"
    /\ ip' = TRUE
    /\ Goto("kc_dns")
    /\ UNCHANGED <<cfg, run, cdp, tf, dns, keyFiles, intent, faults>>

UpsertDns ==
    /\ pc = "kc_dns"
    /\ \/ dns' = TRUE /\ Goto("cdp") /\ UNCHANGED faults
       \/ UNCHANGED dns /\ Exit("provision_failed") /\ Fault
    /\ UNCHANGED <<cfg, run, cdp, tf, keyFiles, ip, intent>>

\* destroy_keycloak, when it returns 0: nothing to destroy (no directory or an
\* empty state), or the DNS record is deleted (a refused deletion is taken for
\* a record already gone; without an address none is tried) and terraform
\* destroy succeeds.
KeycloakDestroyed ==
    /\ Remove("keycloak")
    /\ ip' = FALSE
    /\ \/ cloud["keycloak"] # "full" /\ UNCHANGED <<dns, faults>>
       \/ cloud["keycloak"] = "full" /\ dns' = FALSE /\ UNCHANGED faults
       \/ cloud["keycloak"] = "full" /\ UNCHANGED dns /\ Fault

\* Variant: the directory is removed before the exit status is looked at.
KeycloakDirectoryDropped ==
    /\ "keycloak" \in owned
    /\ Fault
    /\ cloud' \in {[cloud EXCEPT !["keycloak"] = e] : e \in Remains(cloud["keycloak"])}
    /\ dir' = dir \ {"keycloak"} /\ owned' = owned \ {"keycloak"}
    /\ UNCHANGED dns \/ (cloud["keycloak"] = "full" /\ dns' = FALSE)
    /\ UNCHANGED ip

\* destroy_keycloak, when it returns 1: terraform destroy fails half way; the
\* directory and the IP file stay.
KeycloakNotDestroyed ==
    /\ "keycloak" \in owned
    /\ Fault
    /\ \E e \in Remains(cloud["keycloak"]) : Leave("keycloak", e)
    /\ UNCHANGED dns \/ (cloud["keycloak"] = "full" /\ dns' = FALSE)
    /\ UNCHANGED ip

\* Keycloak provisioning failed: roll it back and give up, whatever the result.
RollbackKeycloak ==
    /\ pc \in {"rb_kc", "rb_cdp_kc"}
    /\ KeycloakDestroyed \/ KeycloakNotDestroyed
    /\ Exit("provision_failed")
    /\ UNCHANGED <<cfg, run, cdp, keyFiles, intent>>

\* provision_cdp up to terraform apply (sync_cdp_tf_quickstarts may end the run).
SyncQuickstartsFails ==
    /\ pc = "cdp"
    /\ Fault /\ Exit("provision_failed")
    /\ UNCHANGED <<cfg, run, cdp, tf, dns, keyFiles, ip, intent>>

ApplyCdp ==
    /\ pc = "cdp"
    /\ \/ /\ KeyUsable \/ cloud["env"] = "full"
          /\ Apply("env", "full") /\ Goto("roles") /\ UNCHANGED faults
       \/ /\ \E e \in {cloud["env"]} \cup
                      (IF cloud["env"] = "absent" THEN {"partial"} ELSE {}) : Apply("env", e)
          /\ Goto("rb_cdp")
          /\ IF KeyUsable \/ cloud["env"] = "full" THEN Fault ELSE UNCHANGED faults
    /\ UNCHANGED <<cfg, run, cdp, dns, keyFiles, ip, intent>>

\* hol_assign_pipeline_cdp_env_admin_roles ends the run when it fails.
AssignRoles ==
    /\ pc = "roles"
    /\ \/ Goto("enh") /\ UNCHANGED faults
       \/ Exit("provision_failed") /\ Fault
    /\ UNCHANGED <<cfg, run, cdp, tf, dns, keyFiles, ip, intent>>

\* aws_enhancements; provision_cdp only warns when it fails.
AwsEnhancements ==
    /\ pc = "enh"
    /\ \/ Apply("enh", "full") /\ UNCHANGED faults
       \/ Apply("enh", cloud["enh"]) /\ Fault
    /\ Goto("idp")
    /\ UNCHANGED <<cfg, run, cdp, dns, keyFiles, ip, intent>>

\* destroy_cdp without a directory, or with terraform destroy succeeding.
CdpDestroyed == ("env" \in owned => EnvUnblocked) /\ Remove("env") /\ UNCHANGED faults

\* destroy_cdp with terraform destroy given up: blocked or failing.
CdpNotDestroyed ==
    /\ "env" \in owned
    /\ IF EnvUnblocked THEN Fault ELSE UNCHANGED faults
    /\ \E e \in {cloud["env"], "partial"} : Leave("env", e)

\* CDP provisioning failed: destroy the environment, then Keycloak, whatever
\* the results.
RollbackCdp ==
    /\ pc = "rb_cdp"
    /\ CdpDestroyed \/ CdpNotDestroyed
    /\ IF cfg.keycloak THEN Goto("rb_cdp_kc") ELSE Exit("provision_failed")
    /\ UNCHANGED <<cfg, run, cdp, dns, keyFiles, ip, intent>>

\* Variant: "|| hol_provision_failed" is missing after cdp_idp_setup_user.
SetupIdpUnchecked ==
    /\ pc = "idp"
    /\ IF cfg.keycloak /\ cloud["keycloak"] = "full" THEN idp' = TRUE ELSE UNCHANGED idp
    /\ Goto("services")
    /\ UNCHANGED <<cfg, run, services, hubs, leftovers, tf, dns, keyFiles, ip, intent, faults>>

\* update_cdp_user_group and cdp_idp_setup_user: needs a Keycloak that answers.
SetupIdp ==
    /\ pc = "idp"
    /\ \/ ~cfg.keycloak /\ Goto("services") /\ UNCHANGED <<idp, faults>>
       \/ /\ cfg.keycloak /\ cloud["keycloak"] = "full"
          /\ idp' = TRUE /\ Goto("services") /\ UNCHANGED faults
       \/ /\ cfg.keycloak
          /\ IF cloud["keycloak"] = "full" THEN Fault /\ (UNCHANGED idp \/ idp' = TRUE)
                                           ELSE UNCHANGED <<faults, idp>>
          /\ Exit("provision_failed")
    /\ UNCHANGED <<cfg, run, services, hubs, leftovers, tf, dns, keyFiles, ip, intent>>

\* provision_cai_inference & and hol_enable_data_services & are started.
ForkProvision ==
    /\ pc = "services" /\ jobs = NoJobs
    /\ jobs' = [NoJobs EXCEPT !["services"] = "running",
                              !["caii"] = IF cfg.caii THEN "running" ELSE "none"]
    /\ UNCHANGED <<cfg, pc, outcome, keyName, cdp, tf, dns, keyFiles, ip, intent, faults>>

\* The CAII job: its last wait gives up silently, so success does not mean that
\* the service is there.
CaiiJob ==
    /\ pc = "services" /\ jobs["caii"] = "running"
    /\ \/ /\ services' = services \cup {"caii"}
          /\ jobs' = [jobs EXCEPT !["caii"] = "ok"] /\ UNCHANGED faults
       \/ /\ (UNCHANGED services \/ services' = services \cup {"caii"})
          /\ \E s \in {"ok", "failed"} : jobs' = [jobs EXCEPT !["caii"] = s]
          /\ Fault
    /\ UNCHANGED <<cfg, pc, outcome, keyName, hubs, leftovers, idp, tf, dns, keyFiles, ip, intent>>

\* hol_enable_data_services: every selected playbook runs, one failure fails the job.
EnableJob ==
    /\ pc = "services" /\ jobs["services"] = "running"
    /\ \/ /\ services' = services \cup Services
          /\ jobs' = [jobs EXCEPT !["services"] = "ok"] /\ UNCHANGED faults
       \/ /\ \E got \in SUBSET Services : services' = services \cup got
          /\ jobs' = [jobs EXCEPT !["services"] = "failed"] /\ Fault
    /\ UNCHANGED <<cfg, pc, outcome, keyName, hubs, leftovers, idp, tf, dns, keyFiles, ip, intent>>

\* The entrypoint has waited for every job.
Reaped == jobs # NoJobs /\ \A j \in Job : jobs[j] # "running"

JoinProvision ==
    /\ pc = "services" /\ Reaped
    /\ jobs' = NoJobs
    /\ \/ /\ \E j \in Job : jobs[j] = "failed"
          /\ Exit("provision_failed") /\ UNCHANGED delivered
       \/ /\ \A j \in Job : jobs[j] # "failed"
          /\ Exit("provisioned") /\ delivered' = TRUE
    /\ UNCHANGED <<cfg, keyName, cdp, tf, dns, keyFiles, ip, retired, faults>>

-----------------------------------------------------------------------------
(* docker-entrypoint.sh destroy.                                             *)

ValidateDestroy ==
    /\ pc = "d_validate"
    /\ \/ Goto("d_caii") /\ UNCHANGED faults
       \/ Exit("destroy_failed") /\ Fault
    /\ UNCHANGED <<cfg, run, cdp, tf, dns, keyFiles, ip, intent>>

\* destroy_cai_inference: only the status of the CAI disable playbook counts;
\* destroy_caii_resources.sh may fail unnoticed.
DestroyCaii ==
    /\ pc = "d_caii"
    /\ \/ ~cfg.caii /\ Goto("d_fork") /\ UNCHANGED <<services, faults>>
       \/ cfg.caii /\ services' = services \ {"caii"} /\ Goto("d_fork") /\ UNCHANGED faults
       \/ cfg.caii /\ UNCHANGED services /\ Fault /\ (Goto("d_fork") \/ Exit("destroy_failed"))
    /\ LeaveBehind
    /\ UNCHANGED <<cfg, run, hubs, idp, tf, dns, keyFiles, ip, intent>>

\* delete_environment_datahubs & (or true &) and disable_data_services & start.
ForkDestroy ==
    /\ pc = "d_fork"
    /\ jobs' = [NoJobs EXCEPT !["datahubs"] = IF cfg.deleteHubs THEN "running" ELSE "ok",
                              !["services"] = "running"]
    /\ Goto("d_join")
    /\ UNCHANGED <<cfg, keyName, cdp, tf, dns, keyFiles, ip, intent, faults>>

DataHubJob ==
    /\ pc = "d_join" /\ jobs["datahubs"] = "running"
    /\ \/ hubs' = FALSE /\ jobs' = [jobs EXCEPT !["datahubs"] = "ok"] /\ UNCHANGED faults
       \/ UNCHANGED hubs /\ jobs' = [jobs EXCEPT !["datahubs"] = "failed"] /\ Fault
    /\ UNCHANGED <<cfg, pc, outcome, keyName, services, leftovers, idp, tf, dns, keyFiles, ip, intent>>

\* disable_data_services: a failed playbook fails the job, except that a Silent
\* service may survive one that reports success.
DisableJob ==
    /\ pc = "d_join" /\ jobs["services"] = "running"
    /\ \/ /\ services' = services \ Services
          /\ jobs' = [jobs EXCEPT !["services"] = "ok"] /\ UNCHANGED faults
       \/ /\ \E left \in SUBSET Silent : services' = services \ (Services \ left)
          /\ jobs' = [jobs EXCEPT !["services"] = "ok"] /\ Fault
       \/ /\ \E left \in SUBSET Services : services' = services \ (Services \ left)
          /\ jobs' = [jobs EXCEPT !["services"] = "failed"] /\ Fault
    /\ LeaveBehind
    /\ UNCHANGED <<cfg, pc, outcome, keyName, hubs, idp, tf, dns, keyFiles, ip, intent>>

\* Variant: only the status of the last wait is looked at.
JoinDestroyLastStatus ==
    /\ pc = "d_join" /\ Reaped
    /\ jobs' = NoJobs
    /\ IF jobs["datahubs"] = "failed" THEN Exit("destroy_failed") ELSE Goto("d_idp")
    /\ UNCHANGED <<cfg, keyName, cdp, tf, dns, keyFiles, ip, intent, faults>>

JoinDestroy ==
    /\ pc = "d_join" /\ Reaped
    /\ jobs' = NoJobs
    /\ IF \E j \in Job : jobs[j] = "failed" THEN Exit("destroy_failed") ELSE Goto("d_idp")
    /\ UNCHANGED <<cfg, keyName, cdp, tf, dns, keyFiles, ip, intent, faults>>

\* cdp_idp_user_teardown: its failures are not noticed.
TeardownIdp ==
    /\ pc = "d_idp"
    /\ \/ ~cfg.keycloak /\ UNCHANGED <<idp, faults>>
       \/ cfg.keycloak /\ idp' = FALSE /\ UNCHANGED faults
       \/ cfg.keycloak /\ UNCHANGED idp /\ Fault
    /\ Goto("d_kc")
    /\ UNCHANGED <<cfg, run, services, hubs, leftovers, tf, dns, keyFiles, ip, intent>>

\* Variant: a missing Keycloak directory fails destroy_keycloak instead of being
\* skipped.
DestroyKeycloakNeedsState ==
    /\ pc = "d_kc"
    /\ \/ ~cfg.keycloak /\ Goto("d_enh") /\ UNCHANGED <<tf, dns, ip, faults>>
       \/ cfg.keycloak /\ "keycloak" \in dir /\ KeycloakDestroyed /\ Goto("d_enh")
       \/ cfg.keycloak /\ KeycloakNotDestroyed /\ Exit("destroy_failed")
       \/ cfg.keycloak /\ "keycloak" \notin dir /\ UNCHANGED <<tf, dns, ip, faults>>
          /\ Exit("destroy_failed")
    /\ UNCHANGED <<cfg, run, cdp, keyFiles, intent>>

\* destroy_hol_infra: Keycloak first; a failure skips everything after it.
DestroyKeycloak ==
    /\ pc = "d_kc"
    /\ \/ ~cfg.keycloak /\ Goto("d_enh") /\ UNCHANGED <<tf, dns, ip, faults>>
       \/ cfg.keycloak /\ KeycloakDestroyed /\ Goto("d_enh")
       \/ cfg.keycloak /\ KeycloakNotDestroyed /\ Exit("destroy_failed")
    /\ UNCHANGED <<cfg, run, cdp, keyFiles, intent>>

\* destroy_aws_enhancements detaches the log policy; its directory stays.
DestroyEnhancements ==
    /\ pc = "d_enh"
    /\ \/ /\ cloud' = IF "enh" \in owned THEN [cloud EXCEPT !["enh"] = "absent"] ELSE cloud
          /\ owned' = owned \ {"enh"} /\ UNCHANGED <<dir, faults>>
          /\ Goto("d_cdp")
       \/ /\ "enh" \in dir /\ Fault /\ UNCHANGED tf
          /\ Exit("destroy_failed")
    /\ UNCHANGED <<cfg, run, cdp, dns, keyFiles, ip, intent>>

\* Variant: destroy_cdp's status is dropped, as destroy_keypair's is.
DestroyCdpUnchecked ==
    /\ pc = "d_cdp"
    /\ CdpDestroyed \/ CdpNotDestroyed
    /\ Goto("d_key")
    /\ UNCHANGED <<cfg, run, cdp, dns, keyFiles, ip, intent>>

DestroyCdp ==
    /\ pc = "d_cdp"
    /\ \/ CdpDestroyed /\ Goto("d_key")
       \/ CdpNotDestroyed /\ Exit("destroy_failed")
    /\ UNCHANGED <<cfg, run, cdp, dns, keyFiles, ip, intent>>

\* destroy_keypair, only when the flag was stored; its status is dropped.
DestroyKeyPair ==
    /\ pc = "d_key"
    /\ \/ ~flag /\ UNCHANGED <<tf, keyFiles, faults>>
       \/ flag /\ Remove("keypair") /\ pem' = FALSE /\ flag' = FALSE /\ UNCHANGED faults
       \/ flag /\ Fault /\ UNCHANGED <<tf, keyFiles>>
    /\ Goto("d_rm")
    /\ UNCHANGED <<cfg, run, cdp, dns, ip, intent>>

\* rm -rf of the workshop's directory and of its report.
RemoveNamespace ==
    /\ pc = "d_rm"
    /\ dir' = {} /\ owned' = {} /\ pem' = FALSE /\ flag' = FALSE /\ ip' = FALSE
    /\ Exit("destroyed")
    /\ retired' = FALSE
    /\ UNCHANGED <<cfg, run, cdp, cloud, dns, delivered, faults>>

-----------------------------------------------------------------------------
Provision ==
    \/ ValidateProvision \/ UseKeyPair \/ GenerateKeyPair \/ GenerateKeyPairFails
    \/ RecordKeyPair \/ SkipKeycloak \/ PrepareKeycloak \/ ApplyKeycloak
    \/ KeycloakWithoutAddress \/ SaveKeycloakIp \/ UpsertDns \/ RollbackKeycloak
    \/ SyncQuickstartsFails \/ ApplyCdp \/ AssignRoles \/ AwsEnhancements
    \/ RollbackCdp \/ SetupIdp \/ ForkProvision \/ CaiiJob \/ EnableJob
    \/ JoinProvision

Destroy ==
    \/ ValidateDestroy \/ DestroyCaii \/ ForkDestroy \/ DataHubJob \/ DisableJob
    \/ JoinDestroy \/ TeardownIdp \/ DestroyKeycloak \/ DestroyEnhancements
    \/ DestroyCdp \/ DestroyKeyPair \/ RemoveNamespace

Next ==
    \/ StartProvision \/ StartDestroy \/ CreateHub \/ RemoveLeftovers \/ Kill
    \/ Provision \/ Destroy

\* A started container keeps running, and an operator who has decided to
\* destroy the workshop starts destroy again after a run that failed, as the
\* failure message asks. Nothing else is assumed to happen.
Fairness == WF_vars(Provision) /\ WF_vars(Destroy) /\ WF_vars(retired /\ StartDestroy)

Spec == Init /\ [][Next]_vars /\ Fairness

-----------------------------------------------------------------------------
(* Properties.                                                               *)

\* Whatever of Keycloak, the CDP environment and the log policy attachment
\* exists is in a Terraform state under the workshop's directory, and a saved
\* Keycloak address belongs to a stack that is still in one: no failed,
\* aborted or rolled back run (destroy_keycloak, destroy_cdp, destroy_hol_infra)
\* loses the means to destroy what an earlier one made.
NothingForgotten ==
    /\ \A s \in {"keycloak", "env", "enh"} : cloud[s] # "absent" => s \in owned
    /\ ip => "keycloak" \in owned

\* "Workshop teardown completed" (docker-entrypoint.sh destroy, exit 0) means
\* that Keycloak, the CDP environment, its data services and Data Hubs, what these
\* left in its VPC and the policy attachment are gone.
DestroyedIsGone ==
    pc = "idle" /\ outcome = "destroyed" =>
        /\ \A s \in {"keycloak", "env", "enh"} : cloud[s] = "absent"
        /\ services = {} /\ ~hubs /\ ~leftovers

\* The destroy pipeline starts the CDP Terraform destroy only with the log
\* policy detached (docs/oncloud/aws-enhancements.adoc, Destroy order) and with
\* every data service disabled whose playbook told the truth.
TerraformLast ==
    pc = "d_cdp" =>
        /\ cloud["enh"] = "absent" /\ "enh" \notin owned
        /\ services \cap Services \subseteq Silent

\* "Infrastructure Provisioned" means: the environment is complete, every
\* selected data service is up, and with Keycloak its instance is complete, its
\* address saved and the CDP identity provider configured; whatever failed,
\* was skipped as already there or was rolled back in earlier runs.
ProvisionedIsComplete ==
    pc = "idle" /\ outcome = "provisioned" =>
        /\ cloud["env"] = "full" /\ Services \subseteq services
        /\ cfg.keycloak => cloud["keycloak"] = "full" /\ ip /\ idp

\* Repeating destroy ends with the workshop gone, from whatever state failed
\* and killed runs have left, but for two blockers that no run removes: Data Hubs
\* that DELETE_DATAHUBS=false keeps, and what data services have left in the VPC
\* as long as nobody removes it by hand (docs/oncloud/aws-provisioner.adoc,
\* Manual cleanup). Once it is removed, nothing else has to be.
RetiredIsDestroyed ==
    retired /\ cfg.deleteHubs ~> (pc = "idle" /\ outcome = "destroyed") \/ []leftovers

-----------------------------------------------------------------------------
(* What the repository says and the code does not do.                        *)

\* CHANGELOG.md: destroy "propagates failures instead of reporting false
\* success"; a destroy run that succeeds leaves no generated key pair.
KeyPairDestroyed ==
    pc = "idle" /\ outcome = "destroyed" => cloud["keypair"] = "absent"

\* The workshop report hands out https://<workshop>.<domain>: a successful
\* provision run has the DNS record.
ProvisionedHasDns ==
    pc = "idle" /\ outcome = "provisioned" /\ cfg.keycloak => dns

\* docs/oncloud/aws-provisioner.adoc: "Idempotent provision". Running provision
\* again on a delivered workshop does not take anything of it away.
RerunKeepsDelivered ==
    [][delivered /\ delivered' /\ cloud["env"] = "full" => cloud'["env"] = "full"]_vars
=============================================================================
