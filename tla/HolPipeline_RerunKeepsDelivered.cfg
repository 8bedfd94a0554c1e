SPECIFICATION Spec
CONSTANTS
    Configs <- MCConfigs
    Services <- MCServices
    Silent <- MCSilent
    MaxFaults = 3
PROPERTY RerunKeepsDelivered
