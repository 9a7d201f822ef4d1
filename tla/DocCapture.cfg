SPECIFICATION Spec
CONSTANTS
    Jobs = {label}
    Previews = {}
    Captures = {label}
    Agents = {a1}
    NoJob = NoJob
    Copies = 1
    MaxAttempts = 3
    Seconds = {1}
    MaxDbErrors = 0
INVARIANT CaptureIsAtomic
