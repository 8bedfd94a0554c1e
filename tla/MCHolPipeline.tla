--------------------------- MODULE MCHolPipeline ---------------------------
(* Small instance of HolPipeline for TLC: three configfiles that differ in    *)
(* every switch, two data services of which CDF's disable playbook is the one *)
(* that may be silently wrong.                                                *)
EXTENDS HolPipeline

MCConfigs ==
    { [keycloak |-> TRUE,  ownKey |-> FALSE, caii |-> FALSE, deleteHubs |-> TRUE],
      [keycloak |-> TRUE,  ownKey |-> TRUE,  caii |-> TRUE,  deleteHubs |-> TRUE],
      [keycloak |-> FALSE, ownKey |-> FALSE, caii |-> FALSE, deleteHubs |-> FALSE] }

MCServices == {"cdw", "cdf"}
MCSilent   == {"cdf"}
=============================================================================
