SPECIFICATION Spec
CONSTANTS
    Jobs = {invoice}
    Previews = {}
    Captures = {}
    Agents = {a1}
    NoJob = NoJob
    Copies = 1
    MaxAttempts = 3
    Seconds = {1}
    MaxDbErrors = 0
INVARIANT CanceledBeforeSubmission
