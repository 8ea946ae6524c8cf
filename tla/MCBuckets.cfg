\* Three commands over four names, in pages and batches of two.
CONSTANTS
    NameOf <- FourNames
    Filtered = {2}
    PageSize = 2
    BatchSize = 1
    MaxPages = 2
    Kinds = {"list", "dump", "restore"}
    MaxCommands = 3
    MaxWrites = 1
    MaxExpiries = 1
    MaxFaults = 1
SPECIFICATION Spec
INVARIANTS ListedOnce CountTrue BackupHolds RestoredAsBackedUp
CHECK_DEADLOCK FALSE
