CONSTANTS
    Dependencies = {d1, d2}
    AutoEnable = {TRUE, FALSE}
    ExitOnFail = {TRUE, FALSE}
    EnableOutcomes = {TRUE, FALSE}
    Callers = {"main", "poller"}
SPECIFICATION Spec
SYMMETRY DependencySymmetry
INVARIANTS
    TypeOK
    
    DiscoveryNeedsMessaging
    EnabledModuleHasServices
    AgreementAtLoopHead
    StoppedMeansDown
PROPERTY
    DeathIsFinal
