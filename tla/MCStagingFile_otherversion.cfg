SPECIFICATION Spec
CONSTANTS
    MaxSessions = 3
    Stream = {w1}
    Main = main
    Version = {"long", "short"}
    Regions = 1
    a = a
    b = b
    Value = {zero, a, b}
    Zero = zero
    Torn = torn
    Absent = absent
    Data <- MCData
    CheckpointChunks = 1
    ResumeFlag = {TRUE}
    Overlap = FALSE
    Tampering = {}
    NoRecord = norecord
PROPERTY ResumeSound
