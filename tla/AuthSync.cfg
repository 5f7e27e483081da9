SPECIFICATION FairSpec
CONSTANTS
    t1 = t1
    t2 = t2
    confA = confA
    confB = confB
    NoAuth = NoAuth
    Tasks <- TwoTasks
    Kinds <- AllKinds
    Configurations <- TwoConfigurations
    InlineUpdates = TRUE
    MaxOps = 4
    MaxInFlight = 1
INVARIANTS
    TypeOK
    SchedulerRepaired
    BindingRepaired
    CooldownReconciled
PROPERTIES
    Heals
