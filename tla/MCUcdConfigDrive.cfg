SPECIFICATION Spec
CONSTANTS
    CommandLines <- ConfigDriveOnly
    Loops = {0, 1}
    None = None
    Disks <- MCDisks
    Megabyte = 3
    Tail = 1
    Other = Other
    Nothing = Nothing
INVARIANTS
    HandlersHaveTheirData
