SPECIFICATION Spec
CONSTANTS
    Jobs = {invoice, report}
    Previews = {}
    Captures = {}
    Agents = {a1, a2}
    NoJob = NoJob
    Copies = 2
    MaxAttempts = 3
    Seconds = {1}
    MaxDbErrors = 0
INVARIANT SingleSubmission
