SPECIFICATION Spec
CONSTANTS
    Files <- MCFiles
    Pkg <- MCPkg
    Folder <- MCFolder
    NoPkg = "none"
    MaxImports = 4
INVARIANTS
    EntryPointsHideInternals
    TestsStayHome
    BuildOrderExists
