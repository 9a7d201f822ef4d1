\* No request fails and no page is loaded anew: the order of answers is enough.
CONSTANTS
    Jobs = {1}
    MaxAttempts = 2
    MaxPairs = 1
    MaxFaults = 0
    MaxCalls = 2
SPECIFICATION Spec
INVARIANT
    ActiveKeepsLoop
