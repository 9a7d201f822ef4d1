\* One job that is printed, two pairings, and one request that fails, load of the page or
\* restart of the agent.
CONSTANTS
    Jobs = {1}
    MaxAttempts = 2
    MaxPairs = 2
    MaxFaults = 1
    MaxCalls = 2
SPECIFICATION Spec
INVARIANTS
    TypeOK
    SoleLoop
    ShownActiveIsPolled
    ShownEndIsFinal
PROPERTIES
    EndIsShown
    LoopEndsForCause
