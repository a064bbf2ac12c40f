SPECIFICATION Spec
CONSTANTS
    Descriptors <- MCDescriptors
    Functions <- MCFunctions
    Enums <- MCEnums
    Names <- MCNames
    Samples <- FirmwareSamples
    Readers <- Older
    MaxJoined = 2
    MaxFail = 0
    BufferSize = 16
    BitmapStack = 1
    SubBuffer = 8
    MaxNesting = 4
INVARIANTS
    JoinedAll
