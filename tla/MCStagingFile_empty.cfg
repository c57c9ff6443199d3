SPECIFICATION Spec
CONSTANTS
    MaxSessions = 2
    Stream = {w1}
    Main = main
    Version = {"short", "empty"}
    Regions = 2
    a = a
    b = b
    Value = {zero, a, b}
    Zero = zero
    Torn = torn
    Absent = absent
    Data <- MCData
    CheckpointChunks = 1
    ResumeFlag = {TRUE}
    Overlap = TRUE
    Tampering = {}
    NoRecord = norecord
PROPERTY CompleteMatches
