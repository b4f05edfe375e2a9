\* Every operation on each kind of model, with two changes around it.
CONSTANTS
    c1 = c1
    c2 = c2
    b1 = b1
    i1 = i1
    i2 = i2
    i3 = i3
    o1 = o1
    Artifact = {c1, c2, b1, i1, i2, i3, o1}
    Spec <- Specs
    Content = {"qwen2 file", "llama file", "mamba file", "plain file", "xml"}
    HeaderOf <- Headers
    Catalog <- CatalogModel
    AdmittedId = "admitted"
    Command <- Commands
    Scene <- Scenes
    Hosts <- Detections
    Claim = {"qwen2", "mamba"}
    Unknown = "Unknown"
    MaxChanges = 2
SPECIFICATION Executions
INVARIANTS ConflictBlocks KnownArchitecture
PROPERTIES AdmissionIsForResolved VerifiedIsWhole
CHECK_DEADLOCK FALSE
