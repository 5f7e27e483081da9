SPECIFICATION Spec
CONSTANTS
    t1 = t1
    t2 = t2
    confA = confA
    confB = confB
    NoAuth = NoAuth
    Tasks <- TwoTasks
    Kinds <- RefreshAndToggle
    Configurations <- TwoConfigurations
    InlineUpdates = FALSE
    MaxOps = 3
    MaxInFlight = 1
PROPERTIES
    EnabledByOperator
