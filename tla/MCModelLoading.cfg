SPECIFICATION Spec
CHECK_DEADLOCK FALSE
CONSTANTS
    Configs <- MCConfigs
    PromptLength = 2
    MaxSteps = 2
INVARIANTS
    ShardsComputeTheModel
    
    WrapperFitsModel
