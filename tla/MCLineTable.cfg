CONSTANTS
    MaxFile = 7
    BufSiz = 3
    CacheSize = 4
    PageSize = 2
    FirstCapacity = 2
SPECIFICATION Spec
INVARIANTS
    TableOfFile
    WindowInFile
    LinesShown
