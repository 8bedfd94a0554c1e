SPECIFICATION Spec
CONSTANTS
    Configs <- MCConfigs
    Services <- MCServices
    Silent <- MCSilent
    MaxFaults = 3
INVARIANT ProvisionedHasDns
