SPECIFICATION Spec
CONSTANTS
    Configs <- MCConfigs
    Services <- MCServices
    Silent <- MCSilent
    MaxFaults = 3
INVARIANTS
    TypeOK
    NothingForgotten
    DestroyedIsGone
    TerraformLast
    ProvisionedIsComplete
PROPERTIES
    RetiredIsDestroyed
