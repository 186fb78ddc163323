SPECIFICATION Spec
CONSTANTS
    CommandLines <- MCCommandLines
    Loops = {0, 1}
    None = None
    Disks <- MCDisks
    Megabyte = 3
    Tail = 1
    Other = Other
    Nothing = Nothing
INVARIANTS
    TypeOK
    HandlersHaveTheirDataInService
    FilesFromTheirSource
    NothingLeftBehind
    ReleasedUnlessFailed
    OthersLoopsKept
    
    PartitionsKept
    FileSystemFollows
