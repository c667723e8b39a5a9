CONSTANTS
    Dependencies = {d1}
    AutoEnable = {TRUE}
    ExitOnFail = {TRUE}
    EnableOutcomes = {TRUE}
    Callers = {"poller"}
SPECIFICATION Spec
PROPERTY AcceptedStopIsHonoured
