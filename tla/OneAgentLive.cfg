SPECIFICATION FairSpec
CONSTANTS
    Jobs = {invoice, label}
    Previews = {}
    Captures = {label}
    Agents = {a1}
    NoJob = NoJob
    Copies = 1
    MaxAttempts = 2
    Seconds = {1, 2}
    MaxDbErrors = 1
PROPERTIES
    QueuedIsTaken
    PrintingEnds
