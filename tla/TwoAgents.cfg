SPECIFICATION Spec
CONSTANTS
    Jobs = {invoice}
    Previews = {}
    Captures = {}
    Agents = {a1, a2}
    NoJob = NoJob
    Copies = 2
    MaxAttempts = 3
    Seconds = {1}
    MaxDbErrors = 1
SYMMETRY AgentSymmetry
INVARIANTS
    ReplayNeedsRetry
    AttemptSubmittedOnce
    SuccessIsComplete
    CanceledIsUnsubmitted
PROPERTIES
    SettledNeedsRetry
    MeetsContract
