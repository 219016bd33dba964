SPECIFICATION Spec
CONSTANTS
    Sectors = 7
    BytesPerCluster = 3
    Entries = 4
    DIR_ENTRY_FREE = "E5"
    DIR_ENTRY_LAST_FREE = "00"
    DotName = "."
    DotDotName = ".."
    VolumeName = "V"
    Untouched = "untouched"
    FilePaths <- CfgFiles
    DirPaths <- CfgDirs
    LinkPaths <- CfgLinks
    Targets = {"A"}
    RenameTo = {"C"}
    AttrChoices <- CfgAttrs
    Buffers <- CfgBuffers
    Offsets = {0, 3, 4}
    FaultKinds = {"crash"}
    MaxFaults = 1
    MaxAccess = 12
    MaxRenames = 1
    MaxCalls = 5
    Garbage = {0}
    FormatMounted = FALSE
CHECK_DEADLOCK FALSE
INVARIANTS VolumeSound EntriesSound ReadExact
PROPERTIES StoreImplemented
