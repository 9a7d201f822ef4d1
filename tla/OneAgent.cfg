SPECIFICATION Spec
CONSTANTS
    Jobs = {invoice, label, draft}
    Previews = {draft}
    Captures = {label}
    Agents = {a1}
    NoJob = NoJob
    Copies = 2
    MaxAttempts = 2
    Seconds = {1}
    MaxDbErrors = 1
INVARIANTS
    TypeOK
    AttemptAccounting
    RowHasDocument
    SubmissionOwnsRow
    OutcomeIsTrue
    PrintingIsHeld
    NoLostWakeup
PROPERTY OutputOnlyInPrinting

