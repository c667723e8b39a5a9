CONSTANTS
    Dependencies = {d1}
    AutoEnable = {TRUE}
    ExitOnFail = {TRUE}
    EnableOutcomes = {TRUE}
    Callers = {"poller"}
SPECIFICATION SpecR
PROPERTY LastEnableIsHonoured
