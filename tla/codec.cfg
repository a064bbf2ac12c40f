SPECIFICATION Spec
CONSTANTS
    Descriptors <- MCDescriptors
    Functions <- MCFunctions
    Enums <- MCEnums
    Names <- MCNames
    Samples <- AllSamples
    Readers <- Older
    MaxJoined = 2
    MaxFail = 44
    BufferSize = 16
    BitmapStack = 1
    SubBuffer = 8
    MaxNesting = 4
INVARIANTS
    HeapOwned
    NoPartOnFailure
    Arrives
    CutIsExact
    UnknownPassesOn
    JoinedFlagged
    SizeExact
    BufferSame
    BufferOwned
    UnpackedChecks
    LookupsAgree
    InitsAgree
