\* Requests of up to four fields and documents of up to three objects. A request ends.
CONSTANTS
    Hosts = {"127.0.0.1:32191", "printlatch.example"}
    Loopback = {"127.0.0.1:32191"}
    Modes = {"preview", "print", "fax", "long"}
    Printers = {"capture:pdf", "windows:1", "", "long"}
    Counts <- MCCounts
    TooLong = "long"
    None = None
    MaxFields = 4
    Heads <- MCHeads
    Objects <- MCObjects
    MaxBytes = 2
    MaxPages = 2
    MaxObjects = 3
    MaxDecoded = 3
    MaxPixels = 8
    Top = 15
SPECIFICATION Spec
CHECK_DEADLOCK FALSE
INVARIANTS
    TypeOK
    StoredAsAsked
    AcceptedWithinLimits
    RefusedForCause
    WorkBounded
