------------------------- MODULE HolPipeline_proofs -------------------------
(* Theorems about HolPipeline, for every set of configfiles, services, silent  *)
(* services and every bound on faults. The safety invariants are not inductive *)
(* by themselves: what a run has left behind depends on how far it came, so    *)
(* IInv says for each step of the two pipelines what is known when the         *)
(* container gets there.                                                       *)
EXTENDS HolPipeline, TLAPS

-----------------------------------------------------------------------------
(* The inductive invariant.                                                  *)

\* Without PROVISION_KEYCLOAK no Keycloak step is ever taken.
KeycloakOnlyIfAsked ==
    ~cfg.keycloak =>
        /\ cloud["keycloak"] = "absent" /\ ~ip
        /\ pc \notin {"kc_apply", "kc_ip", "kc_dns", "rb_kc", "rb_cdp_kc"}

\* Data services, what they leave behind and Data Hubs need an environment.
EnvHoldsServices == cloud["env"] = "absent" => services = {} /\ ~hubs /\ ~leftovers

\* Background jobs run only where the entrypoint waits for them.
JobsOnlyForked == pc \notin {"services", "d_join"} => jobs = NoJobs

\* What a provision run knows of Keycloak at each step.
KeycloakProgress ==
    /\ pc = "kc_ip" => "keycloak" \in owned
    /\ pc \in {"kc_dns", "cdp", "roles", "enh", "idp", "services"} /\ cfg.keycloak => ip
    /\ pc = "services" /\ cfg.keycloak => cloud["keycloak"] = "full" /\ idp

\* ... and of the environment and its services.
CdpProgress ==
    /\ pc \in {"roles", "enh", "idp", "services"} => cloud["env"] = "full"
    /\ pc = "services" /\ jobs["services"] = "ok" => Services \subseteq services
    /\ pc = "services" /\ jobs["services"] = "none" => jobs = NoJobs

\* What a destroy run knows of the data services after their playbooks.
DisableProgress ==
    /\ pc = "d_join" => jobs["services"] # "none"
    /\ pc = "d_join" /\ jobs["services"] = "ok" => services \cap Services \subseteq Silent
    /\ pc \in {"d_idp", "d_kc", "d_enh", "d_cdp"} => services \cap Services \subseteq Silent

\* ... and of the stacks already destroyed.
DestroyProgress ==
    /\ pc \in {"d_enh", "d_cdp", "d_key", "d_rm"} => cloud["keycloak"] = "absent"
    /\ pc \in {"d_cdp", "d_key", "d_rm"} => cloud["enh"] = "absent" /\ "enh" \notin owned
    /\ pc \in {"d_key", "d_rm"} => cloud["env"] = "absent"

IInv ==
    /\ KeycloakOnlyIfAsked /\ NothingForgotten /\ EnvHoldsServices /\ JobsOnlyForked
    /\ KeycloakProgress /\ CdpProgress /\ DisableProgress /\ DestroyProgress
    /\ ProvisionedIsComplete /\ DestroyedIsGone

-----------------------------------------------------------------------------
(* Terraform on one stack leaves the others alone and keeps the state files   *)
(* inside existing directories.                                              *)

TerraformOK ==
    /\ cloud \in [Stacks -> Extent]
    /\ dir \subseteq Stacks
    /\ owned \subseteq dir

\* terraform apply on stack s.
LEMMA ApplyLemma ==
    ASSUME TerraformOK, NEW s \in Stacks, NEW e \in Extent, Apply(s, e)
    PROVE  /\ TerraformOK'
           /\ cloud'[s] = e
           /\ \A t \in Stacks \ {s} : cloud'[t] = cloud[t]
           /\ e # "absent" => s \in owned'
           /\ owned \subseteq owned' /\ owned' \subseteq owned \cup {s}
  BY DEF TerraformOK, Apply

\* A terraform destroy of stack s that fails.
LEMMA LeaveLemma ==
    ASSUME TerraformOK, NEW s \in Stacks, NEW e \in Extent, Leave(s, e)
    PROVE  /\ TerraformOK'
           /\ cloud'[s] = e
           /\ \A t \in Stacks \ {s} : cloud'[t] = cloud[t]
           /\ owned' = owned
  BY DEF TerraformOK, Leave

\* One that succeeds.
LEMMA RemoveLemma ==
    ASSUME TerraformOK, NEW s \in Stacks, Remove(s)
    PROVE  /\ TerraformOK'
           /\ cloud'[s] = IF s \in owned THEN "absent" ELSE cloud[s]
           /\ \A t \in Stacks \ {s} : cloud'[t] = cloud[t]
           /\ owned' = owned \ {s}
  BY DEF TerraformOK, Remove, Extent

\* destroy_keycloak touches no stack but its own; when it returns 0 the stack
\* and the saved address are gone.
LEMMA KeycloakDestroyedLemma ==
    ASSUME TerraformOK, MaxFaults \in Nat, faults \in 0..MaxFaults, KeycloakDestroyed
    PROVE  /\ TerraformOK' /\ faults' \in 0..MaxFaults
           /\ cloud'["keycloak"] = IF "keycloak" \in owned THEN "absent" ELSE cloud["keycloak"]
           /\ \A t \in Stacks \ {"keycloak"} : cloud'[t] = cloud[t]
           /\ owned' = owned \ {"keycloak"} /\ ~ip'
  <1>1. "keycloak" \in Stacks
    BY DEF Stacks
  <1>2. faults' \in 0..MaxFaults
    BY DEF KeycloakDestroyed, Fault
  <1>3. Remove("keycloak") /\ ~ip'
    BY DEF KeycloakDestroyed
  <1> QED
    BY <1>1, <1>2, <1>3, RemoveLemma

\* When it returns 1, the stack's state and the address stay.
LEMMA KeycloakNotDestroyedLemma ==
    ASSUME TerraformOK, MaxFaults \in Nat, faults \in 0..MaxFaults, KeycloakNotDestroyed
    PROVE  /\ TerraformOK' /\ faults' \in 0..MaxFaults
           /\ cloud["keycloak"] = "absent" => cloud'["keycloak"] = "absent"
           /\ \A t \in Stacks \ {"keycloak"} : cloud'[t] = cloud[t]
           /\ "keycloak" \in owned /\ owned' = owned /\ ip' = ip
  <1>1. faults' \in 0..MaxFaults /\ "keycloak" \in owned /\ ip' = ip
    BY DEF KeycloakNotDestroyed, Fault
  <1>2. PICK e \in Remains(cloud["keycloak"]) : Leave("keycloak", e)
    BY DEF KeycloakNotDestroyed
  <1>3. "keycloak" \in Stacks /\ cloud["keycloak"] \in Extent
    BY DEF TerraformOK, Stacks
  <1>4. e \in Extent /\ (cloud["keycloak"] = "absent" => e = "absent")
    BY <1>2, <1>3 DEF Remains, Extent
  <1> QED
    BY <1>1, <1>2, <1>3, <1>4, LeaveLemma

\* destroy_cdp touches no stack but its own; it succeeds on an existing stack
\* only when nothing blocks it.
LEMMA CdpDestroyedLemma ==
    ASSUME TerraformOK, CdpDestroyed
    PROVE  /\ TerraformOK' /\ faults' = faults
           /\ cloud'["env"] = IF "env" \in owned THEN "absent" ELSE cloud["env"]
           /\ "env" \in owned => services = {} /\ ~hubs /\ ~leftovers
           /\ \A t \in Stacks \ {"env"} : cloud'[t] = cloud[t]
           /\ owned' = owned \ {"env"}
  <1>1. "env" \in Stacks /\ Remove("env")
    BY DEF Stacks, CdpDestroyed
  <1>2. faults' = faults /\ ("env" \in owned => services = {} /\ ~hubs /\ ~leftovers)
    BY DEF CdpDestroyed, EnvUnblocked
  <1> QED
    BY <1>1, <1>2, RemoveLemma

\* When it gives up, the stack and its state stay.
LEMMA CdpNotDestroyedLemma ==
    ASSUME TerraformOK, MaxFaults \in Nat, faults \in 0..MaxFaults, CdpNotDestroyed
    PROVE  /\ TerraformOK' /\ faults' \in 0..MaxFaults
           /\ cloud'["env"] = "absent" => cloud["env"] = "absent"
           /\ \A t \in Stacks \ {"env"} : cloud'[t] = cloud[t]
           /\ "env" \in owned /\ owned' = owned
  <1>1. faults' \in 0..MaxFaults /\ "env" \in owned
    BY DEF CdpNotDestroyed, Fault
  <1>2. PICK e \in {cloud["env"], "partial"} : Leave("env", e)
    BY DEF CdpNotDestroyed
  <1>3. "env" \in Stacks /\ cloud["env"] \in Extent
    BY DEF TerraformOK, Stacks
  <1>4. e \in Extent /\ (e = "absent" => cloud["env"] = "absent")
    BY <1>2, <1>3 DEF Extent
  <1> QED
    BY <1>1, <1>2, <1>3, <1>4, LeaveLemma

-----------------------------------------------------------------------------
(* Type correctness. The step of every action, in the order of Next.          *)

\* The program starts with values of the right types.
LEMMA InitStateOK == Init => StateOK
  BY ConfigsAssumption, MaxFaultsAssumption
     DEF Init, StateOK, Stacks, Extent, Job, JobState, NoJobs, Outcomes

\* Every step keeps the types.
LEMMA NextStateOK == StateOK /\ [Next]_vars => StateOK'
  <1> SUFFICES ASSUME StateOK, [Next]_vars PROVE StateOK'
    OBVIOUS
  <1>a. TerraformOK /\ MaxFaults \in Nat /\ faults \in 0..MaxFaults
    BY MaxFaultsAssumption DEF StateOK, TerraformOK
  <1>b. cloud["keycloak"] \in Extent /\ cloud["env"] \in Extent /\ cloud["enh"] \in Extent
    BY DEF StateOK, Stacks
  <1> USE <1>a, <1>b, ConfigsAssumption, ServicesAssumption, MaxFaultsAssumption
      DEF StateOK, TerraformOK, Stacks, Extent, Job, JobState, Outcomes, ProvisionSteps, DestroySteps,
          run, cdp, keyFiles, tf, intent, Fault, Goto, Exit
  <1>1. CASE StartProvision
    BY <1>1 DEF StartProvision
  <1>2. CASE StartDestroy
    BY <1>2 DEF StartDestroy
  <1>3. CASE CreateHub
    BY <1>3 DEF CreateHub
  <1>4. CASE Kill
    BY <1>4 DEF Kill, NoJobs
  <1>5. CASE ValidateProvision
    BY <1>5 DEF ValidateProvision
  <1>6. CASE UseKeyPair
    BY <1>6 DEF UseKeyPair
  <1>7. CASE GenerateKeyPair
    BY <1>7, ApplyLemma DEF GenerateKeyPair
  <1>8. CASE GenerateKeyPairFails
    BY <1>8 DEF GenerateKeyPairFails
  <1>9. CASE RecordKeyPair
    BY <1>9 DEF RecordKeyPair
  <1>10. CASE SkipKeycloak
    BY <1>10 DEF SkipKeycloak, KeycloakAlreadyProvisioned
  <1>11. CASE PrepareKeycloak
    BY <1>11 DEF PrepareKeycloak
  <1>12. CASE ApplyKeycloak
    BY <1>12, ApplyLemma DEF ApplyKeycloak, KeyUsable
  <1>13. CASE KeycloakWithoutAddress
    BY <1>13 DEF KeycloakWithoutAddress
  <1>14. CASE SaveKeycloakIp
    BY <1>14 DEF SaveKeycloakIp
  <1>15. CASE UpsertDns
    BY <1>15 DEF UpsertDns
  <1>16. CASE RollbackKeycloak
    BY <1>16, KeycloakDestroyedLemma, KeycloakNotDestroyedLemma DEF RollbackKeycloak
  <1>17. CASE SyncQuickstartsFails
    BY <1>17 DEF SyncQuickstartsFails
  <1>18. CASE ApplyCdp
    BY <1>18, ApplyLemma DEF ApplyCdp, KeyUsable
  <1>19. CASE AssignRoles
    BY <1>19 DEF AssignRoles
  <1>20. CASE AwsEnhancements
    BY <1>20, ApplyLemma DEF AwsEnhancements
  <1>21. CASE RollbackCdp
    <2>1. CASE CdpDestroyed
      BY <1>21, <2>1, CdpDestroyedLemma DEF RollbackCdp
    <2>2. CASE CdpNotDestroyed
      BY <1>21, <2>2, CdpNotDestroyedLemma DEF RollbackCdp
    <2> QED
      BY <1>21, <2>1, <2>2 DEF RollbackCdp
  <1>22. CASE SetupIdp
    BY <1>22 DEF SetupIdp
  <1>23. CASE ForkProvision
    BY <1>23 DEF ForkProvision, NoJobs
  <1>24. CASE CaiiJob
    BY <1>24 DEF CaiiJob
  <1>25. CASE EnableJob
    BY <1>25 DEF EnableJob
  <1>26. CASE JoinProvision
    BY <1>26 DEF JoinProvision, NoJobs, Reaped
  <1>27. CASE ValidateDestroy
    BY <1>27 DEF ValidateDestroy
  <1>28. CASE DestroyCaii
    BY <1>28 DEF DestroyCaii
  <1>29. CASE ForkDestroy
    BY <1>29 DEF ForkDestroy, NoJobs
  <1>30. CASE DataHubJob
    BY <1>30 DEF DataHubJob
  <1>31. CASE DisableJob
    BY <1>31 DEF DisableJob
  <1>32. CASE JoinDestroy
    BY <1>32 DEF JoinDestroy, NoJobs, Reaped
  <1>33. CASE TeardownIdp
    BY <1>33 DEF TeardownIdp
  <1>34. CASE DestroyKeycloak
    BY <1>34, KeycloakDestroyedLemma, KeycloakNotDestroyedLemma DEF DestroyKeycloak
  <1>35. CASE DestroyEnhancements
    <2>1. CASE /\ cloud' = IF "enh" \in owned THEN [cloud EXCEPT !["enh"] = "absent"] ELSE cloud
               /\ owned' = owned \ {"enh"} /\ UNCHANGED <<dir, faults>> /\ Goto("d_cdp")
      <3>1. cloud' \in [Stacks -> Extent]
        BY <2>1
      <3>2. dir' \subseteq Stacks /\ owned' \subseteq dir' /\ faults' \in 0..MaxFaults
        BY <2>1
      <3> QED
        BY <1>35, <2>1, <3>1, <3>2 DEF DestroyEnhancements
    <2>2. CASE Fault /\ UNCHANGED tf /\ Exit("destroy_failed")
      BY <1>35, <2>2 DEF DestroyEnhancements
    <2> QED
      BY <1>35, <2>1, <2>2 DEF DestroyEnhancements
  <1>36. CASE DestroyCdp
    <2>1. CASE CdpDestroyed
      BY <1>36, <2>1, CdpDestroyedLemma DEF DestroyCdp
    <2>2. CASE CdpNotDestroyed
      BY <1>36, <2>2, CdpNotDestroyedLemma DEF DestroyCdp
    <2> QED
      BY <1>36, <2>1, <2>2 DEF DestroyCdp
  <1>37. CASE DestroyKeyPair
    <2>1. TerraformOK' /\ faults' \in 0..MaxFaults
      <3>1. CASE Remove("keypair") /\ UNCHANGED faults
        BY <3>1, RemoveLemma
      <3>2. CASE UNCHANGED tf /\ (UNCHANGED faults \/ Fault)
        BY <3>2
      <3> QED
        BY <1>37, <3>1, <3>2 DEF DestroyKeyPair
    <2> QED
      BY <1>37, <2>1 DEF DestroyKeyPair
  <1>38. CASE RemoveNamespace
    BY <1>38 DEF RemoveNamespace
  <1>39. CASE RemoveLeftovers
    BY <1>39 DEF RemoveLeftovers
  <1>40. CASE UNCHANGED vars
    BY <1>40 DEF vars
  <1> QED
    BY <1>1, <1>2, <1>3, <1>4, <1>5, <1>6, <1>7, <1>8, <1>9, <1>10, <1>11, <1>12, <1>13, <1>14, <1>15, <1>16, <1>17, <1>18, <1>19, <1>20, <1>21, <1>22, <1>23, <1>24, <1>25, <1>26, <1>27, <1>28, <1>29, <1>30, <1>31, <1>32, <1>33, <1>34, <1>35, <1>36, <1>37, <1>38, <1>39, <1>40 DEF Next, Provision, Destroy

-----------------------------------------------------------------------------
(* The Boolean variables, separately: these leaves are for Zenon.              *)

\* They start as Booleans.
LEMMA InitFlagsOK == Init => FlagsOK
  BY Zenon DEF Init, FlagsOK

\* They stay Booleans.
LEMMA NextFlagsOK == FlagsOK /\ [Next]_vars => FlagsOK'
  <1> SUFFICES ASSUME FlagsOK, [Next]_vars PROVE FlagsOK'
    OBVIOUS
  <1> USE DEF FlagsOK, cdp, keyFiles, intent
  <1>1. CASE StartProvision
    BY <1>1, Zenon DEF StartProvision
  <1>2. CASE StartDestroy
    BY <1>2, Zenon DEF StartDestroy
  <1>3. CASE CreateHub
    BY <1>3, Zenon DEF CreateHub
  <1>4. CASE Kill
    BY <1>4, Zenon DEF Kill
  <1>5. CASE ValidateProvision
    BY <1>5, Zenon DEF ValidateProvision
  <1>6. CASE UseKeyPair
    BY <1>6, Zenon DEF UseKeyPair
  <1>7. CASE GenerateKeyPair
    BY <1>7, Zenon DEF GenerateKeyPair
  <1>8. CASE GenerateKeyPairFails
    BY <1>8, Zenon DEF GenerateKeyPairFails
  <1>9. CASE RecordKeyPair
    BY <1>9, Zenon DEF RecordKeyPair
  <1>10. CASE SkipKeycloak
    BY <1>10, Zenon DEF SkipKeycloak
  <1>11. CASE PrepareKeycloak
    BY <1>11, Zenon DEF PrepareKeycloak
  <1>12. CASE ApplyKeycloak
    BY <1>12, Zenon DEF ApplyKeycloak
  <1>13. CASE KeycloakWithoutAddress
    BY <1>13, Zenon DEF KeycloakWithoutAddress
  <1>14. CASE SaveKeycloakIp
    BY <1>14, Zenon DEF SaveKeycloakIp
  <1>15. CASE UpsertDns
    BY <1>15, Zenon DEF UpsertDns
  <1>16. CASE RollbackKeycloak
    BY <1>16, Zenon DEF RollbackKeycloak, KeycloakDestroyed, KeycloakNotDestroyed
  <1>17. CASE SyncQuickstartsFails
    BY <1>17, Zenon DEF SyncQuickstartsFails
  <1>18. CASE ApplyCdp
    BY <1>18, Zenon DEF ApplyCdp
  <1>19. CASE AssignRoles
    BY <1>19, Zenon DEF AssignRoles
  <1>20. CASE AwsEnhancements
    BY <1>20, Zenon DEF AwsEnhancements
  <1>21. CASE RollbackCdp
    BY <1>21, Zenon DEF RollbackCdp
  <1>22. CASE SetupIdp
    BY <1>22, Zenon DEF SetupIdp
  <1>23. CASE ForkProvision
    BY <1>23, Zenon DEF ForkProvision
  <1>24. CASE CaiiJob
    BY <1>24, Zenon DEF CaiiJob
  <1>25. CASE EnableJob
    BY <1>25, Zenon DEF EnableJob
  <1>26. CASE JoinProvision
    BY <1>26, Zenon DEF JoinProvision
  <1>27. CASE ValidateDestroy
    BY <1>27, Zenon DEF ValidateDestroy
  <1>28. CASE DestroyCaii
    BY <1>28, Zenon DEF DestroyCaii, LeaveBehind
  <1>29. CASE ForkDestroy
    BY <1>29, Zenon DEF ForkDestroy
  <1>30. CASE DataHubJob
    BY <1>30, Zenon DEF DataHubJob
  <1>31. CASE DisableJob
    BY <1>31, Zenon DEF DisableJob, LeaveBehind
  <1>32. CASE JoinDestroy
    BY <1>32, Zenon DEF JoinDestroy
  <1>33. CASE TeardownIdp
    BY <1>33, Zenon DEF TeardownIdp
  <1>34. CASE DestroyKeycloak
    BY <1>34, Zenon DEF DestroyKeycloak, KeycloakDestroyed, KeycloakNotDestroyed
  <1>35. CASE DestroyEnhancements
    BY <1>35, Zenon DEF DestroyEnhancements
  <1>36. CASE DestroyCdp
    BY <1>36, Zenon DEF DestroyCdp
  <1>37. CASE DestroyKeyPair
    BY <1>37, Zenon DEF DestroyKeyPair
  <1>38. CASE RemoveNamespace
    BY <1>38, Zenon DEF RemoveNamespace
  <1>39. CASE RemoveLeftovers
    BY <1>39, Zenon DEF RemoveLeftovers
  <1>40. CASE UNCHANGED vars
    BY <1>40, Zenon DEF vars
  <1> QED
    BY <1>1, <1>2, <1>3, <1>4, <1>5, <1>6, <1>7, <1>8, <1>9, <1>10, <1>11, <1>12, <1>13, <1>14, <1>15, <1>16, <1>17, <1>18, <1>19, <1>20, <1>21, <1>22, <1>23, <1>24, <1>25, <1>26, <1>27, <1>28, <1>29, <1>30, <1>31, <1>32, <1>33, <1>34, <1>35, <1>36, <1>37, <1>38, <1>39, <1>40 DEF Next, Provision, Destroy

-----------------------------------------------------------------------------
(* The inductive invariant. The step of every action, in the order of Next.   *)

\* Nothing exists at the start.
LEMMA InitIInv == Init => IInv
  BY DEF Init, IInv, KeycloakOnlyIfAsked, NothingForgotten, EnvHoldsServices, JobsOnlyForked,
         KeycloakProgress, CdpProgress, DisableProgress, DestroyProgress,
         ProvisionedIsComplete, DestroyedIsGone, Stacks, NoJobs, Job

\* Every step of a run, and every failure, leads to a state IInv describes.
LEMMA NextIInv == StateOK /\ StateOK' /\ IInv /\ [Next]_vars => IInv'
  <1> SUFFICES ASSUME StateOK, StateOK', IInv, [Next]_vars PROVE IInv'
    OBVIOUS
  <1>a. TerraformOK /\ MaxFaults \in Nat /\ faults \in 0..MaxFaults
    BY MaxFaultsAssumption DEF StateOK, TerraformOK
  <1>b. cloud["keycloak"] \in Extent /\ cloud["env"] \in Extent /\ cloud["enh"] \in Extent
    BY DEF StateOK, Stacks
  <1> USE <1>a, <1>b
      DEF IInv, KeycloakOnlyIfAsked, NothingForgotten, EnvHoldsServices, JobsOnlyForked,
          KeycloakProgress, CdpProgress, DisableProgress, DestroyProgress,
          ProvisionedIsComplete, DestroyedIsGone, Stacks, Extent,
          run, cdp, keyFiles, tf, intent, Goto, Exit
  <1>1. CASE StartProvision
    BY <1>1 DEF StartProvision
  <1>2. CASE StartDestroy
    BY <1>2 DEF StartDestroy
  <1>3. CASE CreateHub
    BY <1>3 DEF CreateHub
  <1>4. CASE Kill
    BY <1>4 DEF Kill, NoJobs
  <1>5. CASE ValidateProvision
    BY <1>5 DEF ValidateProvision
  <1>6. CASE UseKeyPair
    BY <1>6 DEF UseKeyPair
  <1>7. CASE GenerateKeyPair
    BY <1>7, ApplyLemma DEF GenerateKeyPair
  <1>8. CASE GenerateKeyPairFails
    BY <1>8 DEF GenerateKeyPairFails
  <1>9. CASE RecordKeyPair
    BY <1>9 DEF RecordKeyPair
  <1>10. CASE SkipKeycloak
    BY <1>10 DEF SkipKeycloak, KeycloakAlreadyProvisioned
  <1>11. CASE PrepareKeycloak
    BY <1>11 DEF PrepareKeycloak
  <1>12. CASE ApplyKeycloak
    BY <1>12, ApplyLemma DEF ApplyKeycloak, KeyUsable
  <1>13. CASE KeycloakWithoutAddress
    BY <1>13 DEF KeycloakWithoutAddress
  <1>14. CASE SaveKeycloakIp
    BY <1>14 DEF SaveKeycloakIp
  <1>15. CASE UpsertDns
    BY <1>15 DEF UpsertDns
  <1>16. CASE RollbackKeycloak
    BY <1>16, KeycloakDestroyedLemma, KeycloakNotDestroyedLemma DEF RollbackKeycloak
  <1>17. CASE SyncQuickstartsFails
    BY <1>17 DEF SyncQuickstartsFails
  <1>18. CASE ApplyCdp
    BY <1>18, ApplyLemma DEF ApplyCdp, KeyUsable
  <1>19. CASE AssignRoles
    BY <1>19 DEF AssignRoles
  <1>20. CASE AwsEnhancements
    BY <1>20, ApplyLemma DEF AwsEnhancements
  <1>21. CASE RollbackCdp
    BY <1>21, CdpDestroyedLemma, CdpNotDestroyedLemma DEF RollbackCdp
  <1>22. CASE SetupIdp
    BY <1>22 DEF SetupIdp, NoJobs, Job
  <1>23. CASE ForkProvision
    BY <1>23 DEF ForkProvision, NoJobs, StateOK, Job, JobState, NoJobs
  <1>24. CASE CaiiJob
    BY <1>24 DEF CaiiJob, StateOK, Job, JobState, NoJobs
  <1>25. CASE EnableJob
    BY <1>25 DEF EnableJob, StateOK, Job, JobState, NoJobs
  <1>26. CASE JoinProvision
    BY <1>26 DEF JoinProvision, NoJobs, Reaped, StateOK, Job, JobState, NoJobs
  <1>27. CASE ValidateDestroy
    BY <1>27 DEF ValidateDestroy
  <1>28. CASE DestroyCaii
    BY <1>28 DEF DestroyCaii, LeaveBehind
  <1>29. CASE ForkDestroy
    BY <1>29 DEF ForkDestroy, NoJobs, StateOK, Job, JobState, NoJobs
  <1>30. CASE DataHubJob
    BY <1>30 DEF DataHubJob, StateOK, Job, JobState, NoJobs
  <1>31. CASE DisableJob
    BY <1>31 DEF DisableJob, LeaveBehind, StateOK, Job, JobState, NoJobs
  <1>32. CASE JoinDestroy
    BY <1>32 DEF JoinDestroy, NoJobs, Reaped, StateOK, Job, JobState, NoJobs
  <1>33. CASE TeardownIdp
    BY <1>33 DEF TeardownIdp
  <1>34. CASE DestroyKeycloak
    BY <1>34, KeycloakDestroyedLemma, KeycloakNotDestroyedLemma DEF DestroyKeycloak
  <1>35. CASE DestroyEnhancements
    <2>1. CASE /\ cloud' = IF "enh" \in owned THEN [cloud EXCEPT !["enh"] = "absent"] ELSE cloud
               /\ owned' = owned \ {"enh"} /\ UNCHANGED <<dir, faults>> /\ Goto("d_cdp")
      <3>1. cloud'["enh"] = "absent" /\ \A s \in Stacks \ {"enh"} : cloud'[s] = cloud[s]
        BY <2>1 DEF TerraformOK
      <3> QED
        BY <1>35, <2>1, <3>1 DEF DestroyEnhancements
    <2>2. CASE Fault /\ UNCHANGED tf /\ Exit("destroy_failed")
      BY <1>35, <2>2 DEF DestroyEnhancements
    <2> QED
      BY <1>35, <2>1, <2>2 DEF DestroyEnhancements
  <1>36. CASE DestroyCdp
    BY <1>36, CdpDestroyedLemma, CdpNotDestroyedLemma DEF DestroyCdp
  <1>37. CASE DestroyKeyPair
    BY <1>37, RemoveLemma DEF DestroyKeyPair
  <1>38. CASE RemoveNamespace
    BY <1>38 DEF RemoveNamespace
  <1>39. CASE RemoveLeftovers
    BY <1>39 DEF RemoveLeftovers
  <1>40. CASE UNCHANGED vars
    BY <1>40 DEF vars
  <1> QED
    BY <1>1, <1>2, <1>3, <1>4, <1>5, <1>6, <1>7, <1>8, <1>9, <1>10, <1>11, <1>12, <1>13, <1>14, <1>15, <1>16, <1>17, <1>18, <1>19, <1>20, <1>21, <1>22, <1>23, <1>24, <1>25, <1>26, <1>27, <1>28, <1>29, <1>30, <1>31, <1>32, <1>33, <1>34, <1>35, <1>36, <1>37, <1>38, <1>39, <1>40 DEF Next, Provision, Destroy

-----------------------------------------------------------------------------
(* The theorems.                                                             *)

\* Every variable keeps its type: in particular each Terraform state file stays
\* inside an existing directory of the workshop.
THEOREM TypeCorrect == Spec => []TypeOK
  <1>1. TypeOK <=> StateOK /\ FlagsOK
    BY DEF TypeOK
  <1>2. StateOK /\ FlagsOK /\ [Next]_vars => StateOK' /\ FlagsOK'
    BY NextStateOK, NextFlagsOK
  <1> QED
    BY <1>1, <1>2, InitStateOK, InitFlagsOK, PTL DEF Spec

\* What is known at each step of the pipelines holds in every behaviour.
LEMMA Invariance == Spec => [](StateOK /\ IInv)
  <1>1. StateOK /\ IInv /\ [Next]_vars => StateOK' /\ IInv'
    BY NextStateOK, NextIInv
  <1> QED
    BY <1>1, InitStateOK, InitIInv, PTL DEF Spec

\* Whatever a failed, killed or rolled back run has made of Keycloak, of the
\* environment and of the log policy attachment can be destroyed by a later one.
THEOREM NothingIsForgotten == Spec => []NothingForgotten
  <1>1. IInv => NothingForgotten
    BY DEF IInv
  <1> QED
    BY <1>1, Invariance, PTL

\* A destroy run that reports success has destroyed everything of the workshop
\* but, perhaps, its key pair.
THEOREM DestroyedMeansGone == Spec => []DestroyedIsGone
  <1>1. IInv => DestroyedIsGone
    BY DEF IInv
  <1> QED
    BY <1>1, Invariance, PTL

\* The CDP stack is destroyed after the policy attachment and after the data
\* services.
THEOREM TerraformComesLast == Spec => []TerraformLast
  <1>1. IInv => TerraformLast
    BY DEF IInv, DestroyProgress, DisableProgress, TerraformLast
  <1> QED
    BY <1>1, Invariance, PTL

\* A provision run that reports success has a complete workshop, whatever it
\* found and skipped.
THEOREM ProvisionedMeansComplete == Spec => []ProvisionedIsComplete
  <1>1. IInv => ProvisionedIsComplete
    BY DEF IInv
  <1> QED
    BY <1>1, Invariance, PTL
=============================================================================
