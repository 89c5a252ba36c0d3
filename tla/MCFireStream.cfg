SPECIFICATION FairStreamSpec
CONSTANTS
    Hellos <- SomeHellos
    MaxFaults = 1
    Frames <- SmallFrames
    SizeLimit = 3
    MaxFragment = 3
    MaxFrames = 3
INVARIANTS
    StreamTypeOK
    Agreement
    DataSealed
PROPERTIES
    ImplementsFrameChannel
    HandshakeCompletes
    CallersReturn
    FramesArrive
CHECK_DEADLOCK FALSE
