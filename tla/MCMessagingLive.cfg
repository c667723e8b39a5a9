SPECIFICATION FairSpec
CONSTANTS
    a = a
    b = b
    RunsA = 1
    RunsB = 2
    JoinsA = 1
    JoinsB = 1
    Instances = {a, b}
    Requesters = {a}
    Replaced = {b}
    Stopping = {a}
    Enabling = {b}
    Kinds = {"module"}
    MaxRuns <- Starts
    MaxRequests = 1
    MaxJoins <- Joins
CHECK_DEADLOCK FALSE
PROPERTY RequestsComplete
PROPERTY PeersAreSubscribed
PROPERTY StopReturns
