SPECIFICATION Spec
CONSTANTS
    a = a
    b = b
    RunsA = 2
    RunsB = 1
    JoinsA = 0
    JoinsB = 2
    Instances = {a, b}
    Requesters = {a}
    Replaced = {a, b}
    Stopping = {a}
    Enabling = {b}
    Kinds = {"module", "system"}
    MaxRuns <- Starts
    MaxRequests = 1
    MaxJoins <- Joins
CHECK_DEADLOCK FALSE
INVARIANT TypeOK
INVARIANT ConnectionsInStep
INVARIANT RepliesMatch
INVARIANT OneReply
INVARIANT StoppedReleasesWaiters
