CONSTANTS
    Dependencies = {d1, d2}
    AutoEnable = {TRUE}
    ExitOnFail = {TRUE}
    EnableOutcomes = {TRUE}
    Callers = {"poller"}
SPECIFICATION Spec
PROPERTIES
    StopCompletes
    DisableIsServed
    LostDependencyDisables
    DuplicateDisables
    EnableIsTakenUp
