\* Two processes; two downloads of the mapped repository, one package in two contents.
CONSTANTS
    p1 = p1
    p2 = p2
    Process = {p1, p2}
    Trainer = {p1, p2}
    Dir = {d1, d2, d3}
    NoDir = NoDir
    hf1 = hf1
    hf2 = hf2
    Downloaded = {hf1, hf2}
    Exported = exported
    Version = {v1, v2}
    Xml = xml
    Bin = bin
    NoFile = NoFile
    NameOrder <- Places
    ArtifactOrder <- ArtifactPlaces
    ImportName = {"logical"}
    ExportContent = {v1, v2}
    Request <- Requests
    MaxPackages = 2
    Scene <- Scenes
    MaxCrashes = 1
SPECIFICATION FairSpec
INVARIANT ImportedIsKept
PROPERTIES AdapterIsOneRuns NothingIsLost MigrationConverges
CHECK_DEADLOCK FALSE
